------------------------------- MODULE Scanner -------------------------------
(***************************************************************************)
(* safety.py: the scanner that blanks literals, quoted identifiers and     *)
(* comments out of a statement, and the two gates that look at what is     *)
(* left, assert_read_only and assert_no_transaction_control.               *)
(*                                                                         *)
(* A text is a sequence of items: a whole word in lower case, a character  *)
(* that is not part of a word, or white space.  Words that touch are one   *)
(* word, which no table lists.                                             *)
(***************************************************************************)
EXTENDS Integers, Sequences, FiniteSets

CONSTANTS
  Words,  \* the words there may be
  Texts   \* the statements callers send

Blank == " "
Newline == "newline"
Space == {Blank, Newline}
Quotes == {"squote", "dquote", "backtick"}
Symbols == {"[", "]", "-", "/", "*", "!", ";", "(", ")", ".", "="}
Joined == "joined"
None == "end"      \* what is read beyond the end of the text
Items == Words \cup Space \cup Quotes \cup Symbols

ASSUME WordsAssumption ==
  Words \cap (Space \cup Quotes \cup Symbols \cup {Joined, None}) = {}
ASSUME TextsAssumption == Texts \subseteq Seq(Items)

VARIABLES
  text,     \* sql
  at,       \* i, from 1
  out,      \* out
  mode,     \* which loop the scanner is in: a quote stands for its literal
  verdict   \* "none" while it scans, "scanned", or "refused" by an exception

vars == <<text, at, out, mode, verdict>>

Init ==
  /\ text \in Texts
  /\ at = 1
  /\ out = <<>>
  /\ mode = "code"
  /\ verdict = "none"

(***************************************************************************)
(* strip_literals_and_comments                                             *)
(***************************************************************************)
Here(k) == IF at + k <= Len(text) THEN text[at + k] ELSE None
Next2(a, b) == Here(0) = a /\ Here(1) = b

Scanning(m) == verdict = "none" /\ mode = m /\ at <= Len(text)

(* One turn of a loop: how far it goes, what it appends, and the loop it   *)
(* goes on with.                                                           *)
Emit(n, items, next) ==
  /\ at' = at + n
  /\ out' = out \o items
  /\ mode' = next
  /\ UNCHANGED <<text, verdict>>

Masked(c) == IF c = Newline THEN Newline ELSE Blank

Ambiguous == Next2("-", "-") /\ Here(2) \notin Space \cup {None}
Executable == Next2("/", "*") /\ Here(2) = "!"
LineUnnoticed ==                                                    \* faulty
  Here(0) \in Quotes \cup {"["} \/ Next2("/", "*")
Opens ==
  \/ Here(0) \in Quotes \cup {"["}
  \/ Next2("-", "-") \/ Next2("/", "*")

Keep ==
  Scanning("code") /\ ~ Opens /\ Emit(1, <<Here(0)>>, "code")

Refuse ==
  /\ Scanning("code")
  /\ Ambiguous \/ Executable
  /\ verdict' = "refused"
  /\ UNCHANGED <<text, at, out, mode>>

(* _consume_quoted_literal: a doubled quote does not end the literal; a    *)
(* variant takes any two quotes for it.                                    *)
DoubledByAny == Here(1) \in Quotes                                  \* faulty
Doubled == Here(1) = mode

OpenLiteral ==
  Scanning("code") /\ Here(0) \in Quotes /\ Emit(1, <<Blank>>, Here(0))
InLiteral ==
  /\ mode \in Quotes /\ Scanning(mode)
  /\ \/ Here(0) # mode /\ Emit(1, <<Masked(Here(0))>>, mode)
     \/ Here(0) = mode /\ Doubled /\ Emit(2, <<Blank, Blank>>, mode)
     \/ Here(0) = mode /\ ~ Doubled /\ Emit(1, <<Blank>>, "code")

(* _consume_bracketed_identifier                                           *)
OpenBracket ==
  Scanning("code") /\ Here(0) = "[" /\ Emit(1, <<Blank>>, "bracket")
InBracket ==
  /\ Scanning("bracket")
  /\ Emit(1, <<Blank>>, IF Here(0) = "]" THEN "code" ELSE "bracket")

(* _consume_line_comment: the newline that ends the comment is kept.       *)
OpenLine ==
  /\ Scanning("code") /\ Next2("-", "-") /\ ~ Ambiguous
  /\ Emit(2, <<Blank, Blank>>, "line")
InLine ==
  /\ Scanning("line")
  /\ \/ Here(0) # Newline /\ Emit(1, <<Blank>>, "line")
     \/ Here(0) = Newline /\ Emit(1, <<Newline>>, "code")

(* _consume_block_comment, and a variant that forgets half of the closer.  *)
ShortCloser == <<Blank>>                                            \* faulty
Closer == <<Blank, Blank>>

OpenBlock ==
  /\ Scanning("code") /\ Next2("/", "*") /\ ~ Executable
  /\ Emit(2, <<Blank, Blank>>, "block")
InBlock ==
  /\ Scanning("block")
  /\ \/ ~ Next2("*", "/") /\ Emit(1, <<Masked(Here(0))>>, "block")
     \/ Next2("*", "/") /\ Emit(2, Closer, "code")

(* The text is used up, in whichever loop.                                 *)
Finish ==
  /\ verdict = "none" /\ at > Len(text)
  /\ verdict' = "scanned"
  /\ UNCHANGED <<text, at, out, mode>>

Next ==
  \/ Keep \/ Refuse
  \/ OpenLiteral \/ InLiteral
  \/ OpenBracket \/ InBracket
  \/ OpenLine \/ InLine
  \/ OpenBlock \/ InBlock
  \/ Finish

Spec == Init /\ [][Next]_vars

(***************************************************************************)
(* The gates, on the text that the scanner returned                        *)
(***************************************************************************)
READ_ONLY_STARTERS ==
  {"select", "with", "explain", "show", "describe", "desc", "pragma", "values"}
READ_ONLY_PRAGMAS ==
  {"collation_list", "compile_options", "data_version", "database_list",
   "foreign_key_check", "foreign_key_list", "freelist_count",
   "function_list", "index_info", "index_list", "index_xinfo",
   "integrity_check", "module_list", "page_count", "pragma_list",
   "quick_check", "table_info", "table_list", "table_xinfo"}
MUTATING_KEYWORDS ==
  {"insert", "update", "delete", "merge", "replace", "truncate", "create",
   "alter", "drop", "grant", "revoke", "call", "exec", "execute", "set",
   "copy", "vacuum", "attach", "detach", "lock", "unlock", "use"}
SIDE_EFFECTING_READ_TOKENS ==
  {"benchmark", "dbms_lock", "dblink_exec", "get_lock", "httpuritype",
   "load_extension", "load_file", "lo_export", "lo_import", "nextval",
   "openrowset", "opendatasource", "pg_advisory_lock", "pg_cancel_backend",
   "pg_read_file", "pg_terminate_backend", "release_lock", "setval", "sleep",
   "utl_file", "utl_http", "xp_cmdshell"}
CONTROL_STARTERS ==
  {"abort", "begin", "commit", "end", "release", "rollback", "savepoint",
   "call", "do", "exec", "execute", "lock", "set", "unlock", "use"}

IsWord(t) == t \in Words \cup {Joined}

(* The tokens of a blanked text: words that touch are joined.              *)
TokenPlaces(s) ==
  {k \in 1 .. Len(s) :
     /\ s[k] \notin Space
     /\ k > 1 /\ s[k] \in Words => s[k - 1] \notin Words}
TokenAt(s, k) ==
  IF k < Len(s) /\ s[k] \in Words /\ s[k + 1] \in Words THEN Joined ELSE s[k]
Tokens(s) ==
  LET places == SelectSeq([k \in 1 .. Len(s) |-> k],
                          LAMBDA k : k \in TokenPlaces(s))
  IN [i \in 1 .. Len(places) |-> TokenAt(s, places[i])]

WordTokens(s) == SelectSeq(Tokens(s), IsWord)

(* first_keyword *)
FirstKeyword(s) ==
  IF WordTokens(s) = <<>> THEN "" ELSE WordTokens(s)[1]

(* assert_single_statement: nothing but white space after the first        *)
(* semicolon, something else before it.                                    *)
SingleStatement(s) ==
  /\ \A j, k \in 1 .. Len(s) : s[j] = ";" /\ j < k => s[k] \in Space
  /\ \E k \in 1 .. Len(s) : s[k] \notin Space \cup {";"}

(* _PRAGMA_RE: pragma [schema .] name [( ... )] [;]                        *)
PragmaReads(t) ==
  LET n == IF Len(t) >= 4 /\ t[3] = "." THEN 4 ELSE 2
      body == SelectSeq(SubSeq(t, n + 1, Len(t)), LAMBDA x : x # ";")
  IN /\ Len(t) >= n /\ t[1] = "pragma" /\ t[n] \in READ_ONLY_PRAGMAS
     /\ n = 4 => IsWord(t[2])
     /\ \/ body = <<>>
        \/ /\ Len(body) >= 2 /\ body[1] = "(" /\ body[Len(body)] = ")"
           /\ \A i \in 2 .. Len(body) - 1 : body[i] \notin {"(", ")", "="}

(* assert_read_only, and a variant that trusts the first keyword.          *)
FirstKeywordReads(s) ==                                             \* faulty
  /\ SingleStatement(s)
  /\ FirstKeyword(s) \in READ_ONLY_STARTERS
  /\ FirstKeyword(s) = "pragma" => PragmaReads(Tokens(s))
ReadOnly(s) ==
  /\ SingleStatement(s)
  /\ FirstKeyword(s) \in READ_ONLY_STARTERS
  /\ FirstKeyword(s) = "pragma" => PragmaReads(Tokens(s))
  /\ \A k \in TokenPlaces(s) :
       TokenAt(s, k) \notin MUTATING_KEYWORDS \cup SIDE_EFFECTING_READ_TOKENS
                              \cup {"into"}

(* assert_no_transaction_control: the predicates about SET and LOCK TABLES *)
(* add nothing to the first, which knows these words.                      *)
ControlsTransaction(w) ==
  \/ w[1] \in CONTROL_STARTERS
  \/ /\ Len(w) > 1
     /\ \/ w[1] \in {"start", "prepare"} /\ w[2] = "transaction"
        \/ w[1] = "save" /\ w[2] \in {"tran", "transaction"}
Managed(s) ==
  /\ SingleStatement(s)
  /\ WordTokens(s) = <<>> \/ ~ ControlsTransaction(WordTokens(s))

(***************************************************************************)
(* Reference: which items of a text are code, by where each element of it  *)
(* ends and not by a scan                                                  *)
(***************************************************************************)
Least(S, default) ==
  IF S = {} THEN default ELSE CHOOSE k \in S : \A j \in S : k <= j

Odd(t, q, a, b) == Cardinality({j \in a .. b : t[j] = q}) % 2 = 1

IsPair(t, k, a, b) == k < Len(t) /\ t[k] = a /\ t[k + 1] = b

(* Where the element that starts at a may end: a literal after a run of    *)
(* its quote that leaves an odd number of them.                            *)
Ends(t, a) ==
  LET n == Len(t)
  IN CASE t[a] \in Quotes ->
            {e \in a + 1 .. n : /\ t[e] = t[a]
                                /\ e = n \/ t[e + 1] # t[a]
                                /\ Odd(t, t[a], a + 1, e)}
       [] t[a] = "[" -> {e \in a + 1 .. n : t[e] = "]"}
       [] IsPair(t, a, "-", "-") -> {e \in a + 1 .. n - 1 : t[e + 1] = Newline}
       [] IsPair(t, a, "/", "*") ->
            {e \in a + 3 .. n : IsPair(t, e - 1, "*", "/")}
       [] OTHER -> {a}

(* Its last item, that of the text if it does not end.                     *)
ElementEnd(t, a) == Least(Ends(t, a), Len(t))

Starts(t) ==
  LET starts[k \in 1 .. Len(t)] ==
        k = 1 \/ \E a \in 1 .. k - 1 : starts[a] /\ ElementEnd(t, a) = k - 1
  IN {k \in 1 .. Len(t) : starts[k]}

Code(t) ==
  {k \in Starts(t) : /\ t[k] \notin Quotes \cup {"["}
                     /\ ~ IsPair(t, k, "-", "-") /\ ~ IsPair(t, k, "/", "*")}

RefusedBy(t) ==
  \E k \in Starts(t) :
    \/ /\ IsPair(t, k, "-", "-") /\ k + 2 <= Len(t)
       /\ t[k + 2] \notin Space
    \/ IsPair(t, k, "/", "*") /\ k + 2 <= Len(t) /\ t[k + 2] = "!"

(***************************************************************************)
(* Properties                                                              *)
(***************************************************************************)
TypeOK ==
  /\ text \in Texts /\ out \in Seq(Items)
  /\ at \in 1 .. Len(text) + 1
  /\ mode \in {"code", "bracket", "line", "block"} \cup Quotes
  /\ verdict \in {"none", "scanned", "refused"}

(* Whatever loop the scanner is in, and if a literal or comment does not   *)
(* end, what it has put out has the length of what it has read, and each   *)
(* item of it is the item at the same place or white space                 *)
(* (strip_literals_and_comments: "Keeps offsets stable").                  *)
OffsetsStable ==
  /\ Len(out) = at - 1 /\ Len(out) <= Len(text)
  /\ \A k \in 1 .. Len(out) : out[k] \in {text[k], Blank, Newline}

(* The text that the gates get holds nothing that opens a literal, an      *)
(* identifier in quotes or a comment: to scan it again would change        *)
(* nothing.                                                                *)
NothingOpens ==
  \A k \in 1 .. Len(out) :
    /\ out[k] \notin Quotes \cup {"["}
    /\ ~ IsPair(out, k, "-", "-") /\ ~ IsPair(out, k, "/", "*")

(* What is kept is the code of the statement, item for item, and the rest  *)
(* is white space; a scan is refused for an ambiguous or executable        *)
(* comment outside of literals and for nothing else.                       *)
MaskIsExact ==
  /\ verdict = "refused" => RefusedBy(text)
  /\ verdict = "scanned" =>
       /\ ~ RefusedBy(text)
       /\ \A k \in 1 .. Len(text) :
            IF k \in Code(text) THEN out[k] = text[k] ELSE out[k] \in Space

(* A statement that passes as a read is one statement whose code has no    *)
(* word that mutates or has side effects, at any depth, whatever its       *)
(* literals and comments hold; and it could be sent to sql_execute without *)
(* escaping the transaction there (assert_read_only,                       *)
(* assert_no_transaction_control).                                         *)
CodeWord(k) ==
  /\ k \in Code(text) /\ text[k] \in Words
  /\ \A j \in {k - 1, k + 1} \cap Code(text) : text[j] \notin Words
ReadsAreReads ==
  verdict = "scanned" /\ ReadOnly(out) =>
    /\ Managed(out)
    /\ \A k \in 1 .. Len(text) :
         CodeWord(k) =>
           text[k] \notin MUTATING_KEYWORDS \cup SIDE_EFFECTING_READ_TOKENS
                            \cup {"into"}
    /\ \A j, k \in Code(text) : j < k /\ text[j] = ";" => text[k] \in Space
=============================================================================
