-------------------------------- MODULE Json --------------------------------
(***************************************************************************)
(* The text path of the vendored nlohmann::json that conf_parse.cpp runs   *)
(* when it reads a configuration file: `file >> j`, that is a lexer over   *)
(* an istream, a parser with an explicit stack of open containers, and the *)
(* SAX consumer that builds the value.  Parsing is not strict: it stops at *)
(* the end of the first value and never looks at what follows it.          *)
(*                                                                         *)
(* Every character read by get() is a step.  The file is chosen while it   *)
(* is read: it is a sequence of Pieces, and may end after any of them.     *)
(* Bytes are integers; the end of the file is the character Eof.           *)
(***************************************************************************)
EXTENDS Integers, Sequences, FiniteSets, TLC

CONSTANTS
    Pieces,       \* the byte strings a file is put together from
    MaxPieces,    \* bound: the pieces of a file
    MaxUnsigned,  \* the largest number_unsigned_t, scaled down
    MaxInteger,   \* the largest number_integer_t, scaled down
    MaxExponent   \* the largest decimal exponent of a double, scaled down

VARIABLES
    pieces,       \* how many pieces have been chosen
    piece,        \* what is left of the current one
    ended,        \* the stream is at its end
    current,      \* the lexer's current character
    next_unget,   \* get() returns current once more
    chars_read_total,
    json_at,      \* where the lexer is: the get() it will return from
    token_buffer,
    number_type,
    codepoint,    \* the digits of a \u escape so far, and a high surrogate
    ranges,       \* the byte ranges a UTF-8 sequence still needs
    last_token,
    states,       \* parser: TRUE for an open array, FALSE for an object
    expects,      \* parser: what it called get_token() for
    ref_stack,    \* the containers under construction, innermost last
    root,
    result,       \* "parsing", "value" or "error"
    tokens        \* history: the tokens the parser was given

streamVars == <<pieces, piece, ended>>
lexVars == <<current, next_unget, chars_read_total, json_at, token_buffer,
             number_type, codepoint, ranges, last_token>>
domVars == <<ref_stack, root>>
parserVars == <<states, expects, result, tokens>>
jsonVars == <<streamVars, lexVars, domVars, parserVars>>

Eof == -1
Quote == 34
Plus == 43
Comma == 44
Minus == 45
Point == 46
Slash == 47
Zero == 48
Colon == 58
Backslash == 92
Digits == 48..57
Exponents == {69, 101}
Whitespace == {32, 9, 10, 13}

Literals == [true |-> <<116, 114, 117, 101>>,
             false |-> <<102, 97, 108, 115, 101>>,
             null |-> <<110, 117, 108, 108>>]

Structural == (91 :> "[") @@ (93 :> "]") @@ (123 :> "{") @@ (125 :> "}")
                @@ (Colon :> ":") @@ (Comma :> ",")

-----------------------------------------------------------------------------
(* Input. *)

\* input_stream_adapter::get_character: the next byte of the streambuf.
GetCharacter(c) ==
    \/ /\ ended /\ c = Eof
       /\ UNCHANGED streamVars
    \/ /\ ~ended /\ piece # <<>> /\ c = Head(piece)
       /\ piece' = Tail(piece)
       /\ UNCHANGED <<pieces, ended>>
    \/ /\ ~ended /\ piece = <<>> /\ c = Eof
       /\ ended' = TRUE
       /\ UNCHANGED <<pieces, piece>>
    \/ /\ ~ended /\ piece = <<>> /\ pieces < MaxPieces
       /\ \E p \in Pieces : c = Head(p) /\ piece' = Tail(p)
       /\ pieces' = pieces + 1
       /\ UNCHANGED ended

\* The characters get() may return.
Input == IF next_unget THEN {current}
         ELSE IF ended THEN {Eof}
         ELSE IF piece # <<>> THEN {Head(piece)}
         ELSE {Eof} \cup {Head(p) : p \in Pieces}

\* get: the character the lexer put back, or the next one of the stream.
Get(c) ==
    /\ result = "parsing"
    /\ chars_read_total' = chars_read_total + 1
    /\ current' = c
    /\ next_unget' = FALSE
    /\ IF next_unget THEN c = current /\ UNCHANGED streamVars
                     ELSE GetCharacter(c)

\* get followed by unget: c is looked at and read again.
GetUnget(c) ==
    /\ result = "parsing"
    /\ current' = c
    /\ next_unget' = TRUE
    /\ UNCHANGED chars_read_total
    /\ IF next_unget THEN c = current /\ UNCHANGED streamVars
                     ELSE GetCharacter(c)

-----------------------------------------------------------------------------
(* The lexer. *)

\* A token is complete; the parser takes it next.
Token(t) ==
    /\ json_at' = "token" /\ last_token' = t
    /\ UNCHANGED <<codepoint, ranges>>

ParseError == Token("parse_error") /\ UNCHANGED <<token_buffer, number_type>>

Goto(p) == json_at' = p /\ UNCHANGED last_token

Add(bytes) == token_buffer' = token_buffer \o bytes

\* skip_bom: only at the very start; a first byte EF must begin EF BB BF.
SkipBom ==
    /\ json_at = "bom"
    /\ \E c \in Input :
         \/ /\ c = 239 /\ Get(c) /\ Goto("bom2")
         \/ /\ c # 239 /\ GetUnget(c) /\ Goto("scan")
    /\ UNCHANGED <<token_buffer, number_type, codepoint, ranges,
                   domVars, parserVars>>

SkipBomRest ==
    /\ json_at \in {"bom2", "bom3"}
    /\ \E c \in Input :
         /\ Get(c)
         /\ IF c = (IF json_at = "bom2" THEN 187 ELSE 191)
              THEN /\ Goto(IF json_at = "bom2" THEN "bom3" ELSE "scan")
                   /\ UNCHANGED <<token_buffer, number_type, codepoint, ranges>>
              ELSE ParseError
    /\ UNCHANGED <<domVars, parserVars>>

\* scan_number, first character.
ScanNumberInit(c) ==
    CASE c = Minus -> "minus" [] c = Zero -> "zero" [] OTHER -> "any1"

\* scan: the character after the white space decides what is scanned.
Scan ==
    /\ json_at = "scan"
    /\ \E c \in Input :
         /\ Get(c)
         /\ CASE c \in Whitespace ->
                   /\ Goto("scan")
                   /\ UNCHANGED <<token_buffer, number_type, codepoint, ranges>>
              [] c \in DOMAIN Structural ->
                   /\ Token(Structural[c])
                   /\ UNCHANGED <<token_buffer, number_type>>
              [] c \in {Literals[l][1] : l \in DOMAIN Literals} ->
                   /\ Goto(CHOOSE l \in DOMAIN Literals : Literals[l][1] = c)
                   /\ ranges' = <<2>>
                   /\ UNCHANGED <<token_buffer, number_type, codepoint>>
              [] c = Quote ->
                   /\ Goto("string") /\ token_buffer' = <<>>
                   /\ UNCHANGED <<number_type, codepoint, ranges>>
              [] c = Minus \/ c \in Digits ->
                   /\ Goto(ScanNumberInit(c)) /\ token_buffer' = <<c>>
                   /\ number_type' = IF c = Minus THEN "integer" ELSE "unsigned"
                   /\ UNCHANGED <<codepoint, ranges>>
              [] c \in {0, Eof} ->
                   /\ Token("end_of_input")
                   /\ UNCHANGED <<token_buffer, number_type>>
              [] OTHER -> ParseError
    /\ UNCHANGED <<domVars, parserVars>>

\* scan_literal: each further character of true, false or null.
ScanLiteral ==
    /\ json_at \in DOMAIN Literals
    /\ \E c \in Input :
         /\ Get(c)
         /\ IF c # Literals[json_at][ranges[1]] THEN ParseError
            ELSE IF ranges[1] = Len(Literals[json_at])
              THEN Token(json_at) /\ UNCHANGED <<token_buffer, number_type>>
              ELSE /\ ranges' = <<ranges[1] + 1>>
                   /\ UNCHANGED <<json_at, last_token, token_buffer, number_type,
                                  codepoint>>
    /\ UNCHANGED <<domVars, parserVars>>

\* Mutant of Tails: the byte after the lead byte is not restricted.
TailsLoose(b) ==
    CASE b \in 194..223 -> << <<128, 191>> >>
      [] b \in 224..239 -> << <<128, 191>>, <<128, 191>> >>
      [] b \in 240..244 -> << <<128, 191>>, <<128, 191>>, <<128, 191>> >>
      [] OTHER -> <<>>

\* scan_string, the lead bytes of UTF-8 sequences: the ranges that follow.
Tails(b) ==
    CASE b \in 194..223 -> << <<128, 191>> >>
      [] b = 224 -> << <<160, 191>>, <<128, 191>> >>
      [] b \in 225..236 \cup {238, 239} -> << <<128, 191>>, <<128, 191>> >>
      [] b = 237 -> << <<128, 159>>, <<128, 191>> >>
      [] b = 240 -> << <<144, 191>>, <<128, 191>>, <<128, 191>> >>
      [] b \in 241..243 -> << <<128, 191>>, <<128, 191>>, <<128, 191>> >>
      [] b = 244 -> << <<128, 143>>, <<128, 191>>, <<128, 191>> >>
      [] OTHER -> <<>>

\* scan_string: control characters must be escaped.
IsControl(b) == b \in 0..31

\* scan_string: the ASCII characters taken as they are.
IsPlain(b) == b \in 32..127 \ {Quote, Backslash}

ScanString ==
    /\ json_at = "string"
    /\ \E c \in Input :
         /\ Get(c)
         /\ CASE c = Eof \/ IsControl(c) -> ParseError
              [] c = Quote ->
                   Token("string") /\ UNCHANGED <<token_buffer, number_type>>
              [] c = Backslash ->
                   /\ Goto("escape")
                   /\ UNCHANGED <<token_buffer, number_type, codepoint, ranges>>
              [] IsPlain(c) ->
                   /\ Add(<<c>>)
                   /\ UNCHANGED <<json_at, last_token, number_type, codepoint, ranges>>
              [] Tails(c) # <<>> ->
                   /\ Add(<<c>>) /\ ranges' = Tails(c) /\ Goto("utf8")
                   /\ UNCHANGED <<number_type, codepoint>>
              [] OTHER -> ParseError
    /\ UNCHANGED <<domVars, parserVars>>

\* next_byte_in_range: one further byte of a UTF-8 sequence.
NextByteInRange ==
    /\ json_at = "utf8"
    /\ \E c \in Input :
         /\ Get(c)
         /\ IF c \in Head(ranges)[1] .. Head(ranges)[2]
              THEN /\ Add(<<c>>)
                   /\ ranges' = Tail(ranges)
                   /\ Goto(IF Len(ranges) = 1 THEN "string" ELSE "utf8")
                   /\ UNCHANGED <<number_type, codepoint>>
              ELSE ParseError
    /\ UNCHANGED <<domVars, parserVars>>

\* scan_string: what a one-character escape stands for.
Escapes == (Quote :> Quote) @@ (Backslash :> Backslash) @@ (Slash :> Slash)
             @@ (98 :> 8) @@ (102 :> 12) @@ (110 :> 10) @@ (114 :> 13)
             @@ (116 :> 9)

ScanEscape ==
    /\ json_at = "escape"
    /\ \E c \in Input :
         /\ Get(c)
         /\ CASE c \in DOMAIN Escapes ->
                   /\ Add(<<Escapes[c]>>) /\ Goto("string")
                   /\ UNCHANGED <<number_type, codepoint, ranges>>
              [] c = 117 ->
                   /\ Goto("hex") /\ codepoint' = <<>>
                   /\ UNCHANGED <<token_buffer, number_type, ranges>>
              [] OTHER -> ParseError
    /\ UNCHANGED <<domVars, parserVars>>

\* get_codepoint: the value of a hexadecimal digit, -1 for another character.
HexValue(c) == CASE c \in 48..57 -> c - 48 [] c \in 65..70 -> c - 55
                 [] c \in 97..102 -> c - 87 [] OTHER -> -1

FromHex(d) == 4096 * d[1] + 256 * d[2] + 16 * d[3] + d[4]

HighSurrogates == 55296..56319
LowSurrogates == 56320..57343

\* (codepoint1 << 10) + codepoint2 - 0x35FDC00
Joined(high, low) == 1024 * high + low - 56613888

\* scan_string: a code point as the bytes of its UTF-8 encoding.
EncodeUtf8(p) ==
    CASE p < 128 -> <<p>>
      [] p \in 128..2047 -> <<192 + (p \div 64), 128 + (p % 64)>>
      [] p \in 2048..65535 ->
           <<224 + (p \div 4096), 128 + ((p \div 64) % 64), 128 + (p % 64)>>
      [] OTHER -> <<240 + (p \div 262144), 128 + ((p \div 4096) % 64),
                    128 + ((p \div 64) % 64), 128 + (p % 64)>>

\* scan_string with both \u digits read: a surrogate must come in a pair.
Unicode(p, high) ==
    CASE high = Eof /\ p \in HighSurrogates ->
           /\ ranges' = <<p>> /\ Goto("pair1")
           /\ UNCHANGED <<token_buffer, number_type, codepoint>>
      [] high # Eof /\ p \in LowSurrogates ->
           /\ Add(EncodeUtf8(Joined(high, p))) /\ ranges' = <<>>
           /\ Goto("string")
           /\ UNCHANGED <<number_type, codepoint>>
      [] high = Eof /\ p \notin HighSurrogates \cup LowSurrogates ->
           /\ Add(EncodeUtf8(p)) /\ Goto("string")
           /\ UNCHANGED <<number_type, codepoint, ranges>>
      [] OTHER -> ParseError

\* get_codepoint: four hexadecimal digits ("low": of the second escape).
GetCodepoint ==
    /\ json_at \in {"hex", "low"}
    /\ \E c \in Input :
         LET digits == Append(codepoint, HexValue(c)) IN
         /\ Get(c)
         /\ IF HexValue(c) = -1 THEN ParseError
            ELSE IF Len(digits) < 4
              THEN /\ codepoint' = digits
                   /\ UNCHANGED <<json_at, last_token, token_buffer, number_type,
                                  ranges>>
              ELSE Unicode(FromHex(digits), IF json_at = "hex" THEN Eof ELSE ranges[1])
    /\ UNCHANGED <<domVars, parserVars>>

\* scan_string after a high surrogate: get() == '\\' && get() == 'u'.
ExpectPair ==
    /\ json_at \in {"pair1", "pair2"}
    /\ \E c \in Input :
         /\ Get(c)
         /\ IF c # (IF json_at = "pair1" THEN Backslash ELSE 117) THEN ParseError
            ELSE /\ Goto(IF json_at = "pair1" THEN "pair2" ELSE "low")
                 /\ codepoint' = <<>>
                 /\ UNCHANGED <<token_buffer, number_type, ranges>>
    /\ UNCHANGED <<domVars, parserVars>>

-----------------------------------------------------------------------------
(* scan_number: a state per label of the code; "done" puts back the        *)
(* character that ended the number, "bad" is an error.                     *)

ScanNumberMinus(c) == IF c \in Digits THEN ScanNumberInit(c) ELSE "bad"

ScanNumberZero(c) ==
    CASE c = Point -> "decimal1" [] c \in Exponents -> "exponent"
      [] OTHER -> "done"

ScanNumberAny1(c) ==
    CASE c \in Digits -> "any1" [] c = Point -> "decimal1"
      [] c \in Exponents -> "exponent" [] OTHER -> "done"

ScanNumberDecimal1(c) == IF c \in Digits THEN "decimal2" ELSE "bad"

ScanNumberDecimal2(c) ==
    CASE c \in Digits -> "decimal2" [] c \in Exponents -> "exponent"
      [] OTHER -> "done"

ScanNumberExponent(c) ==
    CASE c \in {Plus, Minus} -> "sign" [] c \in Digits -> "any2"
      [] OTHER -> "bad"

ScanNumberSign(c) == IF c \in Digits THEN "any2" ELSE "bad"

ScanNumberAny2(c) == IF c \in Digits THEN "any2" ELSE "done"

NumberStates == {"minus", "zero", "any1", "decimal1", "decimal2",
                 "exponent", "sign", "any2"}

NextNumberState(c) ==
    CASE json_at = "minus" -> ScanNumberMinus(c)
      [] json_at = "zero" -> ScanNumberZero(c)
      [] json_at = "any1" -> ScanNumberAny1(c)
      [] json_at = "decimal1" -> ScanNumberDecimal1(c)
      [] json_at = "decimal2" -> ScanNumberDecimal2(c)
      [] json_at = "exponent" -> ScanNumberExponent(c)
      [] json_at = "sign" -> ScanNumberSign(c)
      [] json_at = "any2" -> ScanNumberAny2(c)

\* The value of the decimal digits b[i..j] (strtoull, strtoll), cut off
\* above the largest number.
RECURSIVE DecimalValue(_, _, _)
DecimalValue(b, i, j) ==
    IF j < i THEN 0
    ELSE LET v == 10 * DecimalValue(b, i, j - 1) + b[j] - Zero IN
         IF v > MaxUnsigned THEN MaxUnsigned + 1 ELSE v

\* scan_number_done: integers first; one out of range becomes a float.
ScanNumberDone(b, type) ==
    CASE type = "unsigned" /\ DecimalValue(b, 1, Len(b)) <= MaxUnsigned ->
           "unsigned"
      [] type = "integer" /\ DecimalValue(b, 2, Len(b)) <= MaxInteger + 1 ->
           "integer"
      [] OTHER -> "float"

ScanNumber ==
    /\ json_at \in NumberStates
    /\ \E c \in Input :
         LET next == NextNumberState(c) IN
         CASE next = "bad" -> Get(c) /\ ParseError
           [] next = "done" ->
                /\ GetUnget(c)
                /\ Token(ScanNumberDone(token_buffer, number_type))
                /\ UNCHANGED <<token_buffer, number_type>>
           [] OTHER ->
                /\ Get(c) /\ Add(<<c>>) /\ Goto(next)
                /\ number_type' = IF next \in {"decimal1", "exponent"}
                                    THEN "float" ELSE number_type
                /\ UNCHANGED <<codepoint, ranges>>
    /\ UNCHANGED <<domVars, parserVars>>

-----------------------------------------------------------------------------
(* json_sax_dom_parser: the value under construction.  An open container   *)
(* is a record of its kind, its elements and, in an object, the key the    *)
(* next value is for; it joins its parent when it is closed.               *)

Container(kind) ==
    [t |-> kind, v |-> <<>>, key |-> <<>>]

\* handle_value: an element at the end of an array, or the value of a key.
\* A key met again is overwritten.
HandleValue(c, v) ==
    [c EXCEPT !.v = IF c.t = "array" THEN Append(c.v, v) ELSE (c.key :> v) @@ c.v]

\* null, boolean, number_integer, number_unsigned, number_float, string.
Scalar(t) ==
    <<t, CASE t = "unsigned" -> DecimalValue(token_buffer, 1, Len(token_buffer))
           [] t = "integer" -> -DecimalValue(token_buffer, 2, Len(token_buffer))
           [] t \in {"float", "string"} -> token_buffer
           [] OTHER -> 0>>

\* A complete value goes to the innermost container of stack, or is the root.
Complete(stack, v) ==
    IF stack = <<>> THEN root' = v /\ ref_stack' = <<>>
    ELSE /\ ref_stack' = [stack EXCEPT ![Len(stack)] = HandleValue(@, v)]
         /\ UNCHANGED root

\* start_object, start_array.
Start(kind) == ref_stack' = Append(ref_stack, Container(kind)) /\ UNCHANGED root

\* end_object, end_array.
End ==
    LET c == ref_stack[Len(ref_stack)] IN
    Complete(SubSeq(ref_stack, 1, Len(ref_stack) - 1), <<c.t, c.v>>)

\* key: object_element is the element of this key.
Key ==
    /\ ref_stack' = [ref_stack EXCEPT ![Len(ref_stack)].key = token_buffer]
    /\ UNCHANGED root

-----------------------------------------------------------------------------
(* parser::sax_parse_internal. *)

\* The parser has last_token; it was called for because of e.
Takes(e) ==
    /\ result = "parsing" /\ json_at = "token" /\ e = expects
    /\ tokens' = Append(tokens, <<last_token, token_buffer>>)

\* get_token() on behalf of e.
GetToken(e) ==
    /\ expects' = e /\ json_at' = "scan"
    /\ UNCHANGED <<result, streamVars, current, next_unget, chars_read_total,
                   token_buffer, number_type, codepoint, ranges, last_token>>

\* sax->parse_error throws: nothing of the value is kept.
Fail ==
    /\ result' = "error"
    /\ UNCHANGED <<states, expects, domVars, streamVars, lexVars>>

\* A value is complete: done, or the open container goes on.
Evaluate(open) ==
    /\ states' = open
    /\ IF open # <<>> THEN GetToken("after")
       ELSE result' = "value" /\ UNCHANGED <<expects, streamVars, lexVars>>

Scalars == {"true", "false", "null", "unsigned", "integer", "float", "string"}

\* A double whose exponent is out of range is infinite (isfinite fails).
Finite(b) ==
    \A i \in 1..Len(b) :
      b[i] \in Exponents /\ b[i + 1] # Minus =>
        DecimalValue(b, IF b[i + 1] = Plus THEN i + 2 ELSE i + 1, Len(b))
          <= MaxExponent

\* The switch on the token a value starts with, with `open` on the stack.
Value(open) ==
    CASE last_token = "{" ->
           Start("object") /\ states' = open /\ GetToken("member")
      [] last_token = "[" ->
           Start("array") /\ states' = open /\ GetToken("element")
      [] last_token \in Scalars /\ (last_token = "float" => Finite(token_buffer)) ->
           Complete(ref_stack, Scalar(last_token)) /\ Evaluate(open)
      [] OTHER -> Fail

ParseValue == Takes("value") /\ Value(states)

\* After `{`: `}` or the first key.
ParseMember ==
    /\ Takes("member")
    /\ CASE last_token = "}" -> End /\ Evaluate(states)
         [] last_token = "string" ->
              Key /\ GetToken("first") /\ UNCHANGED states
         [] OTHER -> Fail

\* Mutant of ParseElement: the array is not remembered as open.
ParseElementUnopened ==
    /\ Takes("element")
    /\ IF last_token = "]" THEN End /\ Evaluate(states) ELSE Value(states)

\* After `[`: `]` or the first value, whose token is already there.
ParseElement ==
    /\ Takes("element")
    /\ IF last_token = "]" THEN End /\ Evaluate(states)
                           ELSE Value(Append(states, TRUE))

\* After a key; the object counts as open from its first separator on.
ParseSeparator ==
    /\ Takes("first") \/ Takes("separator")
    /\ IF last_token # ":" THEN Fail
       ELSE /\ states' = IF expects = "first" THEN Append(states, FALSE) ELSE states
            /\ GetToken("value")
            /\ UNCHANGED domVars

\* After `,` in an object.
ParseKey ==
    /\ Takes("key")
    /\ IF last_token # "string" THEN Fail
       ELSE Key /\ GetToken("separator") /\ UNCHANGED states

\* After a value in a container: `,` and what comes next, or the bracket that
\* closes it.
After(close, next) ==
    CASE last_token = "," -> GetToken(next) /\ UNCHANGED <<states, domVars>>
      [] last_token = close -> End /\ Evaluate(SubSeq(states, 1, Len(states) - 1))
      [] OTHER -> Fail

ParseAfterElement == Takes("after") /\ states[Len(states)] /\ After("]", "value")

ParseAfterMember == Takes("after") /\ ~states[Len(states)] /\ After("}", "key")

-----------------------------------------------------------------------------
Init ==
    /\ pieces = 0 /\ piece = <<>> /\ ended = FALSE
    /\ current = Eof /\ next_unget = FALSE /\ chars_read_total = 0
    /\ json_at = "bom" /\ token_buffer = <<>> /\ number_type = "unsigned"
    /\ codepoint = <<>> /\ ranges = <<>> /\ last_token = "uninitialized"
    /\ states = <<>> /\ expects = "value"
    /\ ref_stack = <<>> /\ root = <<"null", 0>>
    /\ result = "parsing" /\ tokens = <<>>

Lex == \/ SkipBom \/ SkipBomRest \/ Scan \/ ScanLiteral \/ ScanString
       \/ NextByteInRange \/ ScanEscape \/ GetCodepoint \/ ExpectPair
       \/ ScanNumber

Parse == \/ ParseValue \/ ParseMember \/ ParseElement \/ ParseSeparator
         \/ ParseKey \/ ParseAfterElement \/ ParseAfterMember

JsonNext == Lex \/ Parse

JsonSpec == Init /\ [][JsonNext]_jsonVars

-----------------------------------------------------------------------------
(* References the parser is compared with. *)

\* The value a sequence of tokens denotes, by matching brackets: Depth is
\* the number of containers open after token i of ts.
Depth(ts, i) ==
    Cardinality({k \in 1..i : ts[k][1] \in {"[", "{"}})
      - Cardinality({k \in 1..i : ts[k][1] \in {"]", "}"}})

Malformed == <<"malformed", 0>>

RECURSIVE Denoted(_)
Denoted(ts) ==
    LET n == Len(ts)
        array == ts[1][1] = "["
        commas == {k \in 2..(n - 1) : ts[k][1] = "," /\ Depth(ts, k) = 1}
        cuts == {1, n} \cup commas
        Next(k) == CHOOSE m \in cuts : m > k /\ \A o \in cuts : o > k => m <= o
        Part(k) == SubSeq(ts, k + 1, Next(k) - 1)
        starts == cuts \ {n}
        Elem(k) == IF array THEN Denoted(Part(k))
                   ELSE IF Len(Part(k)) < 3 THEN Malformed
                   ELSE IF Part(k)[1][1] # "string" \/ Part(k)[2][1] # ":"
                     THEN Malformed
                   ELSE Denoted(SubSeq(Part(k), 3, Len(Part(k))))
        Nth(i) == CHOOSE k \in starts : Cardinality({o \in starts : o < k}) = i - 1
        Last(key) == CHOOSE k \in starts : /\ Part(k)[1][2] = key
                                           /\ \A o \in starts :
                                                Part(o)[1][2] = key => o <= k
    IN CASE n = 1 /\ ts[1][1] = "unsigned" ->
              <<"unsigned", DecimalValue(ts[1][2], 1, Len(ts[1][2]))>>
         [] n = 1 /\ ts[1][1] = "integer" ->
              <<"integer", -DecimalValue(ts[1][2], 2, Len(ts[1][2]))>>
         [] n = 1 /\ ts[1][1] \in {"float", "string"} -> ts[1]
         [] n = 1 /\ ts[1][1] \in {"true", "false", "null"} ->
              <<ts[1][1], 0>>
         [] n > 1 /\ ts[1][1] \in {"[", "{"}
              /\ ts[n][1] = (IF array THEN "]" ELSE "}")
              /\ (\A k \in 1..(n - 1) : Depth(ts, k) > 0) /\ Depth(ts, n) = 0 ->
              IF n = 2 THEN <<IF array THEN "array" ELSE "object", <<>>>>
              ELSE IF \E k \in starts : Elem(k) = Malformed THEN Malformed
              ELSE IF array
                THEN <<"array", [i \in 1..Cardinality(starts) |-> Elem(Nth(i))]>>
                ELSE <<"object", [key \in {Part(k)[1][2] : k \in starts}
                                               |-> Elem(Last(key))]>>
         [] OTHER -> Malformed

\* The number grammar of RFC 8259: [-] int [. digits] [e [+-] digits].
AreDigits(b, i, j) == i <= j /\ \A k \in i..j : b[k] \in Digits
IsNumber(b) ==
    \E i \in 1..2, j, k \in 1..Len(b) :
      /\ i = 2 <=> b[1] = Minus
      /\ i <= j /\ j <= k /\ AreDigits(b, i, j)
      /\ b[i] = Zero => j = i
      /\ j < k => b[j + 1] = Point /\ AreDigits(b, j + 2, k)
      /\ k < Len(b) =>
           /\ b[k + 1] \in Exponents
           /\ \/ AreDigits(b, k + 2, Len(b))
              \/ k + 2 <= Len(b) /\ b[k + 2] \in {Plus, Minus}
                   /\ AreDigits(b, k + 3, Len(b))

\* Bytes that are the UTF-8 encoding of Unicode scalar values.
RECURSIVE IsUtf8(_)
IsUtf8(b) ==
    \/ b = <<>>
    \/ \E n \in 1..4 :
         /\ n <= Len(b)
         /\ LET low(k) == b[k] % 64
                p == CASE n = 1 -> b[1]
                       [] n = 2 -> (b[1] % 32) * 64 + low(2)
                       [] n = 3 -> (b[1] % 16) * 4096 + low(2) * 64 + low(3)
                       [] n = 4 -> (b[1] % 8) * 262144 + low(2) * 4096
                                     + low(3) * 64 + low(4)
            IN /\ SubSeq(b, 1, n) = EncodeUtf8(p)
               /\ p <= 1114111 /\ p \notin HighSurrogates \cup LowSurrogates
         /\ IsUtf8(SubSeq(b, n + 1, Len(b)))

-----------------------------------------------------------------------------
(* Properties. *)

\* The value `file >> j` leaves in j is the one the tokens it read denote,
\* with the last of equal keys: the explicit stack of open containers, the
\* order of its pushes and the jump back to the state evaluation lose and
\* misplace nothing, and no malformed sequence of tokens is accepted.
ParsesTheText == result = "value" => root = Denoted(tokens)

\* What the lexer hands to the parser is what it says: a string is well-formed
\* UTF-8 (whatever mixture of escapes, surrogate pairs and raw bytes it was
\* written as) and a number is one of the grammar, neither cut short nor
\* joined with what follows it.
TokensAreClean ==
    json_at = "token" =>
      /\ last_token = "string" => IsUtf8(token_buffer)
      /\ last_token \in {"unsigned", "integer", "float"} => IsNumber(token_buffer)

=============================================================================
