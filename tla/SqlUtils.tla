-------------------------------- MODULE SqlUtils --------------------------------
(***************************************************************************)
(* SqlUtils::batchExec: a script is split into statements, comments are    *)
(* stripped from each, and the statements are executed in a transaction.   *)
(*                                                                         *)
(* A script is a sequence of tokens: "word" (three characters or more of   *)
(* SQL or of a comment), "--", ";", a quote and a new line.  What is left  *)
(* of it are positions: that the new line behind a comment goes with it,   *)
(* so that what stands before and behind them becomes one line, is not     *)
(* told apart.  The transaction is one of its own: COMMIT is sent.         *)
(***************************************************************************)
EXTENDS Integers, Sequences, SequencesExt, FiniteSets

CONSTANTS
    Token,    \* the tokens a script is made of
    MaxLen    \* bound on the length of a script

ASSUME TokenAssumption == Token \subseteq {"word", "--", ";", "quote", "nl"}
ASSUME LenAssumption == MaxLen \in Nat

VARIABLES
    script,   \* the argument
    open,     \* batchExec runs
    index,    \* i, the number of the statement
    applied,  \* positions of the words executed in the transaction
    durable,  \* positions of the words committed
    resent,   \* history: a COMMIT was sent that was not acknowledged
    result    \* "none", "ok" (the empty string), "error", or "lost": none is returned

vars == <<script, open, index, applied, durable, resent, result>>

-----------------------------------------------------------------------------
(* Splitting and stripping, on intervals of positions of the script *)

\* splitQueries: a statement ends before ";" and a new line.
Ends(s) == {i \in 1 .. Len(s) - 1 : s[i] = ";" /\ s[i + 1] = "nl"}

\* Where a part starts, and the positions of it.
Starts(s) == {1} \cup {i + 2 : i \in Ends(s)}
Part(s, b) == {i \in b .. Len(s) : \A e \in Ends(s) : b <= e => i < e}

\* The non-empty parts in order.
SplitQueries(s) ==
    LET f[b \in 0 .. Len(s)] == \* the parts that start at b or before
            IF b = 0 THEN <<>>
            ELSE IF b \in Starts(s) /\ Part(s, b) # {} THEN Append(f[b - 1], Part(s, b)) ELSE f[b - 1]
    IN  f[Len(s)]

\* The regular expression matches from a "--" over at least one character to
\* the next new line behind that, or to the end of the part.
CommentFrom(s, p, b) ==
    LET stops == {i \in p : i > b + 1 /\ s[i] = "nl"}
        rest == {i \in p : i >= b}
    IN  IF b + 1 \notin p THEN {}
        ELSE {i \in rest : \A e \in stops : i <= e}

\* What stripComments removes of part p: the matches from left to right.
Stripped(s, p) ==
    LET f[b \in 0 .. Len(s)] == \* the matches that begin at b or before
            IF b = 0 THEN {}
            ELSE LET before == f[b - 1]
                 IN  IF b \in p /\ b \notin before /\ s[b] = "--"
                     THEN before \cup CommentFrom(s, p, b)
                     ELSE before
    IN  f[Len(s)]

\* Mutant: a comment takes everything behind it along.
StripCommentsToEnd(s, p) == {i \in p : \A b \in p : s[b] = "--" => i < b}

\* A stripped and trimmed part.
StripComments(s, p) ==
    LET kept == p \ Stripped(s, p)
        inner == {i \in kept : s[i] # "nl"}
    IN  {i \in kept : \E a, b \in inner : a <= i /\ i <= b}

\* Fewer than three characters are left.
Small(s, p) ==
    /\ \A i \in p : s[i] # "word"
    /\ Cardinality(p) + Cardinality({i \in p : s[i] = "--"}) < 3

Words(s, p) == {i \in p : s[i] = "word"}

-----------------------------------------------------------------------------
(* batchExec *)

Scripts == UNION {[1 .. n -> Token] : n \in 0 .. MaxLen}

Init ==
    /\ script \in Scripts
    /\ open = TRUE
    /\ index = 1
    /\ applied = {} /\ durable = {}
    /\ resent = FALSE
    /\ result = "none"

Statements == SplitQueries(script)
Statement == StripComments(script, Statements[index])

Return(r) == open' = FALSE /\ result' = r /\ UNCHANGED <<script, index, resent>>

Empty ==
    /\ open /\ script = <<>>
    /\ Return("error")
    /\ UNCHANGED <<applied, durable>>

NoStatements ==
    /\ open /\ script # <<>> /\ Statements = <<>>
    /\ Return("ok")
    /\ UNCHANGED <<applied, durable>>

More == open /\ index <= Len(Statements)

Exec ==
    /\ More /\ ~Small(script, Statement)
    /\ applied' = applied \cup Words(script, Statement)
    /\ index' = index + 1
    /\ UNCHANGED <<script, open, durable, resent, result>>

\* Mutant: the error is reported after the commit.
ExecFailsLate ==
    /\ More /\ ~Small(script, Statement)
    /\ Return("error")
    /\ durable' = applied /\ applied' = {}

\* The statement is refused; the transaction is destroyed uncommitted.
ExecFails ==
    /\ More /\ ~Small(script, Statement)
    /\ Return("error")
    /\ applied' = {}
    /\ UNCHANGED durable

\* The loop is left at the end, and at a small statement.
AtEnd ==
    /\ open /\ script # <<>> /\ Statements # <<>>
    /\ index <= Len(Statements) => Small(script, Statement)

\* COMMIT is sent and acknowledged.
Commit ==
    /\ AtEnd /\ ~resent
    /\ Return("ok")
    /\ durable' = applied /\ applied' = {}

\* It is not: the server refused it, or the connection was lost, before or after
\* the COMMIT had taken effect.  The transaction is over in any case.
CommitFails ==
    /\ AtEnd /\ ~resent
    /\ durable' \in {applied, {}} /\ applied' = {}
    /\ resent' = TRUE
    /\ UNCHANGED <<script, open, index, result>>

\* commit() sends it once more; without a transaction it is acknowledged.
CommitAgain ==
    /\ open /\ resent
    /\ Return("ok")
    /\ UNCHANGED <<applied, durable>>

\* The transaction cannot be opened, neither COMMIT is acknowledged, or the
\* process ends with the connection: an exception, or nothing, leaves batchExec.
Interrupted ==
    /\ open /\ script # <<>> /\ Statements # <<>>
    /\ Return("lost")
    /\ applied' = {}
    /\ UNCHANGED durable

Done == ~open /\ UNCHANGED vars

Next ==
    \/ Empty \/ NoStatements \/ Exec \/ ExecFails
    \/ Commit \/ CommitFails \/ CommitAgain \/ Interrupted \/ Done

Spec == Init /\ [][Next]_vars

-----------------------------------------------------------------------------
(* Properties *)

\* Every variable stays within its type: the index within the split script,
\* and a result is there when and only when batchExec has returned.
TypeOK ==
    /\ script \in Seq(Token) /\ Len(script) <= MaxLen
    /\ open \in BOOLEAN
    /\ index \in 1 .. Len(Statements) + 1
    /\ applied \subseteq 1 .. MaxLen /\ durable \subseteq 1 .. MaxLen
    /\ resent \in BOOLEAN
    /\ result \in IF open THEN {"none"} ELSE {"ok", "error", "lost"}

\* Reference: the positions of a script inside of a literal, and of those
\* inside of a comment, by the rules of SQL.
State(s) ==
    LET f[i \in 0 .. Len(s)] ==
            IF i = 0 THEN "sql"
            ELSE LET x == f[i - 1]
                 IN  CASE x = "sql" /\ s[i] = "quote" -> "literal"
                       [] x = "literal" /\ s[i] = "quote" -> "sql"
                       [] x = "sql" /\ s[i] = "--" -> "comment"
                       [] x = "comment" /\ s[i] = "nl" -> "sql"
                       [] OTHER -> x
    IN  f

Commented(s) == LET state == State(s) IN {i \in 1 .. Len(s) : state[i] = "comment"}

\* The words that are SQL.
SqlWords(s) == Words(s, (1 .. Len(s)) \ Commented(s))

\* Every statement of the script is something to execute, and no comment is
\* empty or has a statement's end in it.
Regular(s) ==
    /\ LET q == SplitQueries(s) IN \A k \in DOMAIN q : ~Small(s, StripComments(s, q[k]))
    /\ \A i \in 1 .. Len(s) - 1 : s[i] = "--" => s[i + 1] # "nl"
    /\ Ends(s) \cap Commented(s) = {}

\* The words of the first n statements.
WordsOf(s, n) ==
    LET q == SplitQueries(s) IN UNION {Words(s, StripComments(s, q[k])) : k \in 1 .. n}

\* A statement that fails leaves nothing of the batch behind, and whatever else
\* ends it, a lost COMMIT for example, leaves nothing or all that was executed.
AllOrNothing ==
    /\ result = "error" => durable = {}
    /\ durable = {} \/ durable = WordsOf(script, index - 1)

\* A regular script that is reported as executed is in the database, word
\* for word and without its comments; or nothing of it is, if a COMMIT was
\* not acknowledged and sent again.
RegularExecuted ==
    result = "ok" /\ Regular(script) =>
        durable = SqlWords(script) \/ (resent /\ durable = {})

\* A script that is reported as executed is in the database.
\* Promised, and not kept: see "Disagreements" in the README.
ReportedDurable == result = "ok" /\ Regular(script) => durable = SqlWords(script)

\* Every script that is reported as executed is, unless COMMIT was sent again.
\* Promised, and not kept: see "Disagreements" in the README.
ScriptExecuted ==
    result = "ok" /\ ~resent /\ Ends(script) \cap Commented(script) = {}
    => durable = SqlWords(script)

\* stripComments removes nothing but comments from SQL whose literals end.
\* Promised, and not kept: see "Disagreements" in the README.
OnlyCommentsStripped ==
    State(script)[Len(script)] # "literal" =>
    \A k \in DOMAIN SplitQueries(script) :
        LET p == SplitQueries(script)[k]
        IN  Words(script, Stripped(script, p)) \subseteq Commented(script)
=============================================================================
