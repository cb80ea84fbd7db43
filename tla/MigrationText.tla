--------------------------- MODULE MigrationText ---------------------------
(***************************************************************************)
(* How a migration file is read: split_statements() and the execution of   *)
(* its statements by apply_file() (app/settle/migrate.py), and the lint    *)
(* that CI runs over the same text (scripts/lint_migrations.py).           *)
(*                                                                         *)
(* A text is a sequence of tokens; a token is written so that it cannot    *)
(* run into its neighbour. A statement is the set of the positions of the  *)
(* text it consists of, for the splitter never changes their order. A word *)
(* that a comment cuts in two, /* comments */ and E'' strings have no       *)
(* tokens.                                                                 *)
(***************************************************************************)
EXTENDS Integers, Sequences, FiniteSets, SequencesExt

CONSTANTS
    Inputs,     \* the texts of this instance: up to so many tokens of an alphabet
    None

Tags == {"$$", "$b$"}                   \* what \$[A-Za-z_]*\$ matches
Unmatched == {"$b1$", "dquote"}         \* other quotes of PostgreSQL
(* lint:allow of a rule; those of one shape are one.                        *)
Directive == [destructive |-> "--allow drop", rewriting |-> "--allow add",
              blocking |-> "--allow index", baseline |-> "--allow baseline"]
Rules == {"destructive", "rewriting", "blocking"}
Directives == {Directive[rule] : rule \in Rules \cup {"baseline"}} \cup {"--notx"}
CommentStart == {"--"} \cup Directives
Blank == {" ", "nl"}
Words == {"a", "BEGIN", "drop", "add column", "not null", "create index", "concurrently", "lock_timeout"}

Tokens == Tags \cup Unmatched \cup CommentStart \cup Blank \cup Words \cup {";", "'"}

ASSUME InputAssumption == Inputs \subseteq [alphabet : SUBSET Tokens, length : Nat]
ASSUME NoneAssumption == None \notin Tags \cup Unmatched

VARIABLES
    text,
    contract,   \* the file lies in migrations/contract
    i,          \* split_statements(): the character looked at
    dollar,     \*   the tag of the body it is in
    buf,        \*   the statement being read
    out,        \*   those read
    split,      \*   it has returned
    at,         \* apply_file(): the statements of out its loop has been through
    ran         \*   those executed

vars == <<text, contract, i, dollar, buf, out, split, at, ran>>

----------------------------------------------------------------------------
(* Texts *)

(* Two words in a row would be one word, and a tag after a word its end.    *)
Written(t) ==
    \A k \in 1..Len(t) - 1 : ~({t[k], t[k + 1]} \subseteq Words \cup Tags \cup {"$b1$"})

Init ==
    /\ \E input \in Inputs : \E n \in 0..input.length : text \in [1..n -> input.alphabet]
    /\ Written(text)
    /\ contract \in BOOLEAN
    /\ i = 1 /\ dollar = None /\ buf = {} /\ out = <<>> /\ split = FALSE
    /\ at = 0 /\ ran = <<>>

TypeOK ==
    /\ text \in Seq(Tokens) /\ contract \in BOOLEAN /\ split \in BOOLEAN
    /\ i \in 1..Len(text) + 1 /\ dollar \in Tags \cup {None}
    /\ buf \subseteq 1..i - 1
    /\ \A s \in Range(out) : s \subseteq 1..i - 1 /\ s # {}
    /\ at \in 0..Len(out) /\ Range(ran) \subseteq Range(out)

(* str.find(token, from), or Len(text) + 1. *)
Find(tokens, from) ==
    CHOOSE k \in from..Len(text) + 1 :
        /\ k > Len(text) \/ text[k] \in tokens
        /\ \A j \in from..k - 1 : text[j] \notin tokens

Blanks(s) == \A k \in s : text[k] \in Blank

(* The file's first line, after blanks, is `-- migrate:no-transaction`.     *)
StartsWithHeader ==
    \E k \in 1..Len(text) : text[k] = "--notx" /\ Blanks(1..k - 1)

----------------------------------------------------------------------------
(* split_statements *)

Reading == ~contract /\ ~split /\ i <= Len(text)
Take(last) == buf' = buf \cup i..last /\ i' = last + 1

CloseBody ==
    /\ Reading /\ dollar # None /\ text[i] = dollar
    /\ Take(i) /\ dollar' = None
    /\ UNCHANGED <<text, contract, out, split, at, ran>>

SkipComment ==
    /\ Reading /\ dollar = None /\ text[i] \in CommentStart
    /\ LET end == Find({"nl"}, i) IN i' = IF end > Len(text) THEN end ELSE end + 1
    /\ UNCHANGED <<text, contract, dollar, buf, out, split, at, ran>>

(* Mutation: a quote that is not closed is read to beyond the end. *)
CopyLiteralTooFar ==
    /\ Reading /\ dollar = None /\ text[i] = "'"
    /\ Take(Find({"'"}, i + 1))
    /\ UNCHANGED <<text, contract, dollar, out, split, at, ran>>

CopyLiteral ==
    /\ Reading /\ dollar = None /\ text[i] = "'"
    /\ LET end == Find({"'"}, i + 1) IN Take(IF end > Len(text) THEN Len(text) ELSE end)
    /\ UNCHANGED <<text, contract, dollar, out, split, at, ran>>

OpenBody ==
    /\ Reading /\ dollar = None /\ text[i] \in Tags
    /\ Take(i) /\ dollar' = text[i]
    /\ UNCHANGED <<text, contract, out, split, at, ran>>

(* What is blank after strip() is no statement. *)
Statement(s) == IF Blanks(s) THEN <<>> ELSE <<s>>

EndStatement ==
    /\ Reading /\ dollar = None /\ text[i] = ";"
    /\ out' = out \o Statement(buf) /\ buf' = {} /\ i' = i + 1
    /\ UNCHANGED <<text, contract, dollar, split, at, ran>>

(* Mutation: no difference between the inside of a body and the outside. *)
CopyCharacterOfSpecials ==
    /\ Reading /\ text[i] # dollar
    /\ dollar = None => text[i] \notin CommentStart \cup Tags \cup {"'"}
    /\ IF text[i] = ";" THEN out' = out \o Statement(buf) /\ buf' = {} /\ i' = i + 1 ELSE UNCHANGED out /\ Take(i)
    /\ UNCHANGED <<text, contract, dollar, split, at, ran>>

CopyCharacter ==
    /\ Reading /\ text[i] # dollar
    /\ dollar = None => text[i] \notin CommentStart \cup Tags \cup {"'", ";"}
    /\ Take(i)
    /\ UNCHANGED <<text, contract, dollar, out, split, at, ran>>

(* The tail is a statement, too. *)
Finish ==
    /\ ~contract /\ ~split /\ i > Len(text)
    /\ out' = out \o Statement(buf) /\ buf' = {} /\ split' = TRUE
    /\ UNCHANGED <<text, contract, i, dollar, at, ran>>

----------------------------------------------------------------------------
(* apply_file *)

(* stmt.upper() is BEGIN or COMMIT. *)
TransactionControl(s) == \E k \in s : text[k] = "BEGIN" /\ Blanks(s \ {k})

(* The statement the loop has come to. *)
Due ==
    /\ split /\ at < Len(out) /\ at' = at + 1
    /\ UNCHANGED <<text, contract, i, dollar, buf, out, split>>

Execute ==
    /\ Due /\ (StartsWithHeader \/ ~TransactionControl(out[at + 1]))
    /\ ran' = Append(ran, out[at + 1])

Skip ==
    /\ Due /\ ~StartsWithHeader /\ TransactionControl(out[at + 1])
    /\ UNCHANGED ran

Next ==
    \/ CloseBody \/ SkipComment \/ CopyLiteral \/ OpenBody
    \/ EndStatement \/ CopyCharacter \/ Finish
    \/ Execute \/ Skip

Spec == Init /\ [][Next]_vars

Done == split /\ at = Len(out)

----------------------------------------------------------------------------
(* scripts/lint_migrations.py *)

(* Mutation: the rest of the file goes with a comment. *)
StripToEnd == 1..Find(CommentStart, 1) - 1

(* strip_comments: each `--` and the rest of its line, wherever it stands;  *)
(* what is left, as positions.                                              *)
StripComments ==
    LET commented(k) == \E c \in 1..k : text[c] \in CommentStart /\ \A j \in c..k : text[j] # "nl"
    IN {k \in 1..Len(text) : ~commented(k)}

(* The position of sql next to k, if there is one. *)
Following(sql, k) == {m \in sql : k < m /\ \A j \in sql : k < j => m <= j}

(* RULES. The lookahead for CONCURRENTLY is tried after each blank of       *)
(* several; what follows ADD COLUMN is looked for up to a semicolon.        *)
Matches(sql, rule) ==
    \E k \in sql :
        \/ rule = "destructive" /\ text[k] = "drop"
        \/ /\ rule = "rewriting" /\ text[k] = "add column"
           /\ \E m \in sql : /\ k < m /\ text[m] = "not null"
                            /\ \A j \in sql : k < j /\ j < m => text[j] # ";"
        \/ /\ rule = "blocking" /\ text[k] = "create index"
           /\ \E b \in Following(sql, k) :
                text[b] \in Blank /\ \A m \in Following(sql, b) : text[m] # "concurrently"

(* Mutation: the directive of the runner, wherever it stands. *)
HeaderAnywhere == "--notx" \in Range(text)

(* raw.lstrip().startswith("-- migrate:no-transaction") *)
HeaderFound == StartsWithHeader

(* re.findall(r"--\s*lint:allow\s+([\w-]+)", raw) *)
Allowed(rule) == Directive[rule] \in Range(text)

Errors ==
    LET contains(word) == \E k \in StripComments : text[k] = word
        skipped(rule) == Allowed(rule) \/ (contract /\ rule = "destructive")
    IN {rule \in Rules : ~skipped(rule) /\ Matches(StripComments, rule)}
       \cup {rule \in {"lock_timeout"} : ~contains("lock_timeout") /\ ~Allowed("baseline")}
       \cup {rule \in {"concurrently_in_tx"} : contains("concurrently") /\ ~HeaderFound}

----------------------------------------------------------------------------
(* PostgreSQL's reading of the same text: what each position is inside of. *)
After(quotes, mode, t) ==
    IF mode = "plain" THEN IF t \in CommentStart THEN "comment" ELSE IF t \in quotes THEN t ELSE mode
    ELSE IF mode = "comment" THEN IF t = "nl" THEN "plain" ELSE mode
    ELSE IF t = mode THEN "plain" ELSE mode

Quotes == Tags \cup Unmatched \cup {"'"}

Mode[k \in 1..Len(text) + 1] == IF k = 1 THEN "plain" ELSE After(Quotes, Mode[k - 1], text[k - 1])

Quoted(k) == Mode[k] \notin {"plain", "comment"}
Comment(k) == Mode[k] = "comment" \/ (Mode[k] = "plain" /\ text[k] \in CommentStart)

(* The positions that mean something. *)
Meaning == {k \in 1..Len(text) : ~Comment(k) /\ (Quoted(k) \/ text[k] \notin Blank \cup {";"})}

(* What lies between the semicolons outside quotes, bodies and comments. *)
Ends(k) == k > Len(text) \/ (Mode[k] = "plain" /\ text[k] = ";")
UpTo(e) == {k \in Meaning : k < e /\ \A f \in k..e - 1 : ~Ends(f)}
Statements == {UpTo(e) : e \in {k \in 1..Len(text) + 1 : Ends(k)}} \ {{}}

(* The quotes that open something are those the splitter knows.             *)
Familiar == \A k \in 1..Len(text) : text[k] \in Unmatched => Mode[k] # "plain"

(* A comment ends a word only where a blank does. *)
CommentsStandApart ==
    \A k \in 2..Len(text) : text[k] \in CommentStart => text[k - 1] \in Blank \cup CommentStart \cup {";"}

(* No two words of a statement have been joined by the comment between them. *)
Apart(s) ==
    \A k \in s : \A m \in Following(s, k) : m = k + 1 \/ text[k] \in Blank \/ text[m] \in Blank

(* A `--` that is executed, so no comment, takes the rest of its line out   *)
(* of the lint's sight.                                                     *)
Hidden(k) ==
    \E s \in Range(ran) : \E c \in s :
        c < k /\ text[c] \in CommentStart /\ \A j \in c..k : text[j] # "nl"

----------------------------------------------------------------------------
(* If the splitter knows the quotes of the file, the runner executes the    *)
(* statements that PostgreSQL itself would find in it, in order and with    *)
(* every word, literal and body as written: no semicolon of a body or of a  *)
(* comment ends one, no comment takes a statement with it. In a transaction *)
(* it leaves out the file's own BEGIN and COMMIT, and nothing else. Where   *)
(* no comment touches a word, it joins no words either.                     *)
RunsWhatIsWritten ==
    Done /\ Familiar =>
        LET control(s) == \E k \in s : s = {k} /\ text[k] = "BEGIN"
        IN /\ {s \cap Meaning : s \in Range(ran)} = {s \in Statements : StartsWithHeader \/ ~control(s)}
           /\ \A m, n \in 1..Len(ran) : m < n => \A j \in ran[m], k \in ran[n] : j < k
           /\ CommentsStandApart => \A s \in Range(ran) : Apart(s)

(* A file that passes the lint and that the runner applies, whatever quotes *)
(* it has, executes nothing destructive, adds no column in a way that       *)
(* rewrites the table and builds no index with writers locked out, but by a *)
(* lint:allow of the rule, after an executed `--` on its line or, of a      *)
(* column, after a semicolon that does not end the statement; and what it   *)
(* executes sets lock_timeout, but for the files that lint:allow baseline.  *)
LintSeesWhatRuns ==
    Done /\ Errors = {} =>
        LET next(s, k) == Following({m \in s : text[m] \notin Blank}, k)
            blocks(s, k) == /\ text[k] = "create index" /\ k + 1 \in s /\ text[k + 1] \in Blank
                            /\ \A m \in next(s, k) : text[m] # "concurrently"
            rewrites(s, k) == /\ text[k] = "add column"
                              /\ \E m \in s : /\ k < m /\ text[m] = "not null" /\ ~Hidden(m)
                                             /\ \A j \in s : k < j /\ j < m => text[j] # ";"
        IN /\ \A s \in Range(ran) : Apart(s) => \A k \in s :
                \/ Hidden(k)
                \/ /\ text[k] = "drop" => Allowed("destructive")
                   /\ rewrites(s, k) => Allowed("rewriting")
                   /\ blocks(s, k) => Allowed("blocking")
           /\ Allowed("baseline") \/ \E s \in Range(ran) : \E k \in s : text[k] = "lock_timeout"

(* A statement with CONCURRENTLY of such a file runs outside a transaction, *)
(* where PostgreSQL accepts it.                                             *)
ConcurrentlyOutsideTransaction ==
    Done /\ Errors = {} /\ ~StartsWithHeader =>
        \A s \in Range(ran) : \A k \in s : text[k] = "concurrently" => Hidden(k)
=============================================================================
