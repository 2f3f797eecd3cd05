------------------------------- MODULE Preview --------------------------------
(***************************************************************************)
(* The preview of CSV and JSON files (databridge/preview.py): the prefix   *)
(* of a file that LocalRead has read is parsed, and the types of its       *)
(* fields are inferred.                                                    *)
(*                                                                         *)
(* A unit of the byte budget is a token.  CSV: the characters "a" and "b", *)
(* the comma, the quote "q" and the line end "n".  JSON: brackets, comma,  *)
(* blank, and "o", an object small enough to be one unit at the top and a  *)
(* member or a value further in, where commas are left out.  What a file   *)
(* holds is chosen when it is parsed.  Python's csv and json modules are   *)
(* external.                                                               *)
(***************************************************************************)
EXTENDS LocalRead, Sequences, SequencesExt

CONSTANTS
    MaxRows,   \* MAX_PREVIEW_ROWS, for the rows that are asked for
    MaxDepth,  \* MAX_JSON_DEPTH
    MaxValues  \* bound: values of one field that a type is inferred from

ASSUME PreviewAssumption == MaxRows \in Nat \ {0} /\ MaxDepth \in Nat \ {0} /\ MaxValues \in Nat

VARIABLES
    format,    \* by the file's suffix: "csv", "json" or "other"
    limit,     \* rows that are asked for
    text,      \* the decoded prefix
    out,       \* what the preview returns or raises
    values,    \* the kinds of one field's values, row by row
    observed,  \* their type so far, "none" before the first that counts
    schema     \* the type inferred for that field

previewVars == <<reader, readPc, fileSize, opened, taken, descriptor, outcome, shrunk, format, limit,
                 text, out, values, observed, schema>>

Ok(rows) == [code |-> "ok", rows |-> rows]
Error(code) == [code |-> code, rows |-> <<>>]
Pending == Error("none")
Malformed == Error("MALFORMED_FILE")
Exceeded == Error("PREVIEW_LIMIT_EXCEEDED")

Tokens == [csv |-> {"a", "b", ",", "q", "n"}, json |-> {"[", "]", "{", "}", ",", " ", "o"}]
Types == {"string", "integer", "float", "boolean", "date"}
First(s, n) == SubSeq(s, 1, Min({n, Len(s)}))

----------------------------------------------------------------------------
(* csv.reader with strict=True: one character, and the whole text.         *)

Put(r, c, state) == [r EXCEPT !.field = Append(@, c), !.state = state]
EndField(r, state) == [r EXCEPT !.record = Append(@, r.field), !.field = <<>>, !.state = state]
EndRecord(r) ==
    LET e == EndField(r, "start")
    IN  [e EXCEPT !.records = Append(@, e.record), !.record = <<>>]

CsvChar(r, c) ==
    IF r.state = "error" THEN r
    ELSE IF r.state = "quoted" THEN IF c = "q" THEN [r EXCEPT !.state = "closing"] ELSE Put(r, c, "quoted")
    ELSE IF r.state = "start" /\ c = "n" THEN [r EXCEPT !.records = Append(@, <<>>)]
    ELSE IF c = "," THEN EndField(r, "open")
    ELSE IF c = "n" THEN EndRecord(r)
    ELSE IF r.state = "closing" THEN IF c = "q" THEN Put(r, c, "quoted") ELSE [r EXCEPT !.state = "error"]
    ELSE IF r.state # "in" /\ c = "q" THEN [r EXCEPT !.state = "quoted"]
    ELSE Put(r, c, "in")

CsvRecords(s) ==
    LET r == FoldLeft(CsvChar, [state |-> "start", field |-> <<>>, record |-> <<>>, records |-> <<>>], s)
    IN  IF r.state = "quoted" THEN [r EXCEPT !.state = "error"]
        ELSE IF r.state \in {"start", "error"} THEN r ELSE EndRecord(r)

(* A unique header without empty names.                                    *)
GoodHeader(h) == h # <<>> /\ IsInjective(h) /\ \A i \in DOMAIN h : h[i] # <<>>

(* Mutant: the record that the budget cuts is parsed as well.              *)
ThroughLineEndNot(s) == s

ThroughLineEnd(s) == SubSeq(s, 1, Max({0} \cup {i \in DOMAIN s : s[i] = "n"}))

(* _csv_rows: the header, then up to n records that fit it.  The parser's  *)
(* error comes after the records before it.                                *)
CsvRows(s, n, cut) ==
    LET r == CsvRecords(IF cut THEN ThroughLineEnd(s) ELSE s)
        header == Head(r.records)
        rows == First(SelectSeq(Tail(r.records), LAMBDA v : v # <<>>), n)
        unparsed == IF cut THEN Exceeded ELSE Malformed
    IN  IF r.records = <<>> THEN unparsed
        ELSE IF ~GoodHeader(header) \/ \E i \in DOMAIN rows : Len(rows[i]) # Len(header) THEN Malformed
        ELSE IF Len(rows) = n \/ ~(cut \/ r.state = "error") THEN Ok(<<header>> \o rows)
        ELSE unparsed

----------------------------------------------------------------------------
(* JSON.                                                                   *)

SkipSpace(s, p) == Min({q \in p..Len(s) : s[q] # " "} \cup {Len(s) + 1})

Opening == {"[", "{"}
Closing == {"]", "}"}

(* _check_nesting: the value at p nests deeper than depth, as far as its   *)
(* brackets can be seen.                                                   *)
TooDeep(s, p, depth) ==
    LET Level(q) == Cardinality({i \in p..q : s[i] \in Opening}) - Cardinality({i \in p..q : s[i] \in Closing})
    IN  /\ p <= Len(s) /\ s[p] \in Opening
        /\ \E q \in p..Len(s) : Level(q) > depth /\ \A i \in p..q : Level(i) > 0

(* raw_decode: the position after the value at p, or why there is none;    *)
(* _cut_by_budget tells a value that ends with the text from a bad one.    *)
Cut == 0
Bad == -1
Matching == [x \in Opening |-> IF x = "[" THEN "]" ELSE "}"]

DecodeInside(s, p, stack) ==
    LET from[q \in Nat, open \in Seq(Closing)] ==
          IF open = <<>> THEN q
          ELSE IF q > Len(s) THEN Cut
          ELSE IF s[q] \in {" ", "o"} THEN from[q + 1, open]
          ELSE IF s[q] \in Opening THEN from[q + 1, <<Matching[s[q]]>> \o open]
          ELSE IF s[q] = Head(open) THEN from[q + 1, Tail(open)]
          ELSE Bad
    IN  from[p, stack]

Decode(s, p) ==
    IF s[p] = "o" THEN p + 1
    ELSE IF s[p] \in Opening THEN DecodeInside(s, p + 1, <<Matching[s[p]]>>)
    ELSE Bad

IsObject(s, p) == s[p] \in {"o", "{"}

EndOfArray(s, p, rows) == IF SkipSpace(s, p + 1) > Len(s) THEN Ok(rows) ELSE Malformed

(* Mutant: the last row that fits must be followed by something.           *)
AtEndOfPrefixLate(rows, n) == Exceeded

(* The text ends after a row.                                              *)
AtEndOfPrefix(rows, n) == IF Len(rows) = n THEN Ok(rows) ELSE Exceeded

(* The rows that a loop over the entries has collected.                    *)
RowLists == Seq(Seq(Tokens.json))

(* _json_prefix: entries of a cut text, until n rows are complete.         *)
JsonEntries(s, first, n) ==
    LET from[start \in Nat, rows \in RowLists, afterComma \in BOOLEAN] ==
          LET p == SkipSpace(s, start)
              end == Decode(s, p)
              more == Append(rows, SubSeq(s, p, end - 1))
              q == SkipSpace(s, end)
          IN  IF p > Len(s) THEN Exceeded
              ELSE IF s[p] = "]" THEN IF afterComma THEN Malformed ELSE EndOfArray(s, p, rows)
              ELSE IF TooDeep(s, p, MaxDepth) \/ end = Cut THEN Exceeded
              ELSE IF end = Bad \/ ~IsObject(s, p) THEN Malformed
              ELSE IF q > Len(s) THEN AtEndOfPrefix(more, n)
              ELSE IF s[q] \notin {",", "]"} THEN Malformed
              ELSE IF Len(more) = n THEN Ok(more)
              ELSE IF s[q] = "]" THEN EndOfArray(s, q, more)
              ELSE from[q + 1, more, TRUE]
    IN  from[first, <<>>, FALSE]

JsonPrefix(s, n) ==
    LET p == SkipSpace(s, 1)
    IN  IF p > Len(s) \/ s[p] # "[" THEN Malformed ELSE JsonEntries(s, p + 1, n)

(* The decoder on a whole text, with the check that all its entries are    *)
(* objects.                                                                *)
JsonArray(s, first) ==
    LET from[start \in Nat, rows \in RowLists] ==
          LET p == SkipSpace(s, start)
              end == Decode(s, p)
              more == Append(rows, SubSeq(s, p, end - 1))
              q == SkipSpace(s, end)
          IN  IF p > Len(s) THEN Malformed
              ELSE IF s[p] = "]" /\ rows = <<>> THEN EndOfArray(s, p, rows)
              ELSE IF end \in {Cut, Bad} \/ ~IsObject(s, p) \/ q > Len(s) THEN Malformed
              ELSE IF s[q] = "]" THEN EndOfArray(s, q, more)
              ELSE IF s[q] # "," THEN Malformed
              ELSE from[q + 1, more]
    IN  from[first, <<>>]

(* _json_document: the array is one level more.                            *)
JsonDocument(s, n) ==
    LET p == SkipSpace(s, 1)
        all == JsonArray(s, p + 1)
    IN  IF TooDeep(s, p, MaxDepth + 1) THEN Exceeded
        ELSE IF p > Len(s) \/ s[p] # "[" THEN Malformed
        ELSE [all EXCEPT !.rows = First(@, n)]

PreviewOf(s, n, cut) ==
    IF format = "csv" THEN CsvRows(s, n, cut)
    ELSE IF cut THEN JsonPrefix(s, n) ELSE JsonDocument(s, n)

----------------------------------------------------------------------------
(* _schema, for one field: "none" is an empty or missing value.            *)

(* Mutant: only a float that follows an integer widens it.                 *)
WidenForward(previous, kind) ==
    IF previous \in {"none", kind} THEN kind
    ELSE IF previous = "integer" /\ kind = "float" THEN "float" ELSE "string"

Widen(previous, kind) ==
    IF previous \in {"none", kind} THEN kind
    ELSE IF {previous, kind} = {"integer", "float"} THEN "float" ELSE "string"

----------------------------------------------------------------------------
PreviewInit ==
    /\ ReadInit
    /\ format \in {"csv", "json", "other"} /\ limit \in 1..MaxRows
    /\ reader = "copy" => format = "other"
    /\ text = <<>> /\ out = Pending /\ values = <<>>
    /\ observed = "none" /\ schema = "none"

schemaVars == <<values, observed, schema>>
parseVars == <<text, out, schemaVars>>

(* A suffix that is not supported is refused before the file is opened.    *)
RefuseSuffix ==
    /\ reader = "preview" /\ format = "other" /\ readPc = "open"
    /\ readPc' = "done" /\ outcome' = "error"
    /\ UNCHANGED <<reader, fileSize, opened, taken, descriptor, shrunk, format, limit, parseVars>>

ReadFile ==
    /\ reader = "preview" => format # "other"
    /\ ReadNext
    /\ UNCHANGED <<format, limit, parseVars>>

IsRead == reader = "preview" /\ readPc = "done" /\ outcome = "end" /\ out = Pending

(* The bytes are not UTF-8.                                                *)
Undecodable ==
    /\ IsRead /\ outcome' = "error"
    /\ UNCHANGED <<reader, readPc, fileSize, opened, taken, descriptor, shrunk, format, limit,
                   parseVars>>

Parse ==
    /\ IsRead
    /\ \E s \in [1..Min({taken, Budget}) -> Tokens[format]] :
          text' = s /\ out' = PreviewOf(s, limit, AtLimit)
    /\ shrunk' = FALSE
    /\ UNCHANGED <<reader, readPc, fileSize, opened, taken, descriptor, outcome, format, limit,
                   schemaVars>>

(* _schema looks at the next value of the field.  The rows are any rows:   *)
(* the tokens do not say of which type a value is, and are forgotten here. *)
Observe ==
    /\ out.code \in {"ok", "inferring"} /\ schema = "none" /\ Len(values) < MaxValues
    /\ text' = <<>> /\ out' = Error("inferring")
    /\ \E kind \in Types \cup {"none"} :
         /\ values' = Append(values, kind)
         /\ observed' = IF kind = "none" THEN observed ELSE Widen(observed, kind)
    /\ UNCHANGED <<readVars, format, limit, schema>>

(* The rows are done.  A field without a value that counts is a string.    *)
Infer ==
    /\ out.code \in {"ok", "inferring"} /\ schema = "none"
    /\ text' = <<>> /\ out' = Error("inferred")
    /\ schema' = IF observed = "none" THEN "string" ELSE observed
    /\ UNCHANGED <<readVars, format, limit, values, observed>>

PreviewNext == RefuseSuffix \/ ReadFile \/ Undecodable \/ Parse \/ Observe \/ Infer

PreviewSpec == PreviewInit /\ [][PreviewNext]_previewVars

----------------------------------------------------------------------------
PreviewTypeOK ==
    /\ ReadTypeOK /\ format \in {"csv", "json", "other"}
    /\ {observed, schema} \subseteq Types \cup {"none"}

IsParsed == out.code \in {"ok", "MALFORMED_FILE", "PREVIEW_LIMIT_EXCEEDED"}

(* A JSON text that is blank up to the budget is called malformed,         *)
(* although more of the file could make it an array.                       *)
BlankPrefix == format = "json" /\ SkipSpace(text, 1) > Len(text)

(* The preview of a well-formed file is the head of that file, whatever    *)
(* follows the budget: never a row that the budget cut, never an error     *)
(* other than PREVIEW_LIMIT_EXCEEDED, and that only for a file longer than *)
(* the budget.                                                             *)
PreviewFaithful == IsParsed => \A rest \in [1..opened - Len(text) -> Tokens[format]] :
    LET whole == PreviewOf(text \o rest, limit, FALSE)
    IN  whole.code = "ok" => \/ out = whole
                             \/ opened > Budget /\ (out = Exceeded \/ BlankPrefix)

Ends == [csv |-> {<<"n">>, <<"a", "n">>}, json |-> {<<"]">>, <<",", "o", "]">>}]

(* The limit is not exceeded when the rows asked for are complete within   *)
(* the budget: when they stay the same however the file goes on.           *)
LimitIsReal == out = Exceeded =>
    ~\E s \in {PreviewOf(text \o e, limit, FALSE) : e \in Ends[format]} :
        /\ s.code = "ok" /\ Len(s.rows) = (IF format = "csv" THEN limit + 1 ELSE limit)
        /\ \A e \in Ends[format] : PreviewOf(text \o e, limit, FALSE) = s

(* The type of a field does not depend on the order of the rows: it is the *)
(* type that all its values have, float for integers and floats, string    *)
(* for any other mixture and for no values.                                *)
SchemaIsJoin == schema # "none" =>
    LET kinds == Range(values) \ {"none"}
    IN  IF kinds = {"integer", "float"} THEN schema = "float"
        ELSE IF \E k \in kinds : kinds = {k} THEN schema \in kinds ELSE schema = "string"

=============================================================================
