------------------------ MODULE MigrationTextProofs ------------------------
(***************************************************************************)
(* The runner executes what is written and the lint sees what runs, for    *)
(* texts of any length.                                                    *)
(*                                                                         *)
(* The splitter reads as PostgreSQL does but for the quotes it does not    *)
(* know. Its own reading is Seen: the statement in its buffer is the       *)
(* Segment that ends at its position, and what it is in the middle of is   *)
(* what is Seen there. Where it jumps, to the end of a literal or of a     *)
(* comment, that stays what it is (SeenStays). Where the text has no other *)
(* quotes, both readings are one (Agreement). What a lemma says of all     *)
(* positions is shown for the least one for which it would fail.           *)
(***************************************************************************)
EXTENDS MigrationText, SequenceTheorems, WellFoundedInduction, TLAPS

(* A nonempty set of positions has a least one. *)
LEMMA LeastPosition ==
    ASSUME NEW I \in SUBSET Nat, I # {}
    PROVE  \E m \in I : \A y \in I : m <= y
<1> DEFINE R == OpToRel(<, Nat)
<1>1. IsWellFoundedOn(R, Nat)
    BY NatLessThanWellFounded
<1>2. \A x, y \in Nat : ~ (<<y, x>> \in R) => x <= y
    BY DEF OpToRel
<1> HIDE DEF R
<1>3. \E m \in I : \A y \in I : ~ (<<y, m>> \in R)
    BY <1>1, WFMin
<1> QED BY <1>2, <1>3

----------------------------------------------------------------------------
(* PostgreSQL's reading *)

Modes == Quotes \cup {"plain", "comment"}
IsText == text \in Seq(Tokens)

LEMMA TextTypes ==
    ASSUME IsText
    PROVE  Len(text) \in Nat /\ DOMAIN text = 1..Len(text) /\ \A k \in 1..Len(text) : text[k] \in Tokens
BY LenProperties, ElementOfSeq DEF IsText

Steps(quotes, f) ==
    [k \in 1..Len(text) + 1 |-> IF k = 1 THEN "plain" ELSE After(quotes, f[k - 1], text[k - 1])]

Reads(quotes, f, n) ==
    /\ f \in [1..n -> Modes] /\ f[1] = "plain"
    /\ \A k \in 1..n - 1 : f[k + 1] = After(quotes, f[k], text[k])

(* A text can be read to its end, with whatever quotes. *)
LEMMA ReadingExists ==
    ASSUME IsText, NEW quotes \in SUBSET Quotes
    PROVE  \E f : f = Steps(quotes, f)
<1> DEFINE I == {n \in 1..Len(text) + 1 : ~\E f : Reads(quotes, f, n)}
<1>0. Len(text) \in Nat /\ \A k \in 1..Len(text) : text[k] \in Tokens
    BY TextTypes
<1>1. ASSUME I # {} PROVE FALSE
    <2>1. PICK n \in I : \A y \in I : n <= y
        <3>1. I \in SUBSET Nat
            BY <1>0
        <3> HIDE DEF I
        <3> QED BY <1>1, <3>1, LeastPosition
    <2>2. CASE n = 1
        <3>1. Reads(quotes, [k \in 1..1 |-> "plain"], 1)
            BY DEF Reads, Modes
        <3> QED BY <2>1, <2>2, <3>1
    <2>3. CASE n # 1
        <3>1. n - 1 \in 1..Len(text) /\ n - 1 \notin I
            BY <1>0, <2>1, <2>3
        <3>2. PICK f : Reads(quotes, f, n - 1)
            BY <1>0, <3>1
        <3> DEFINE g == [k \in 1..n |-> IF k = n THEN After(quotes, f[n - 1], text[n - 1]) ELSE f[k]]
        <3>3. After(quotes, f[n - 1], text[n - 1]) \in Modes
            BY <1>0, <3>1, <3>2 DEF Reads, After, Modes
        <3>4. Reads(quotes, g, n)
            BY <1>0, <3>1, <3>2, <3>3 DEF Reads
        <3> QED BY <2>1, <3>4
    <2> QED BY <2>2, <2>3
<1>2. Len(text) + 1 \in 1..Len(text) + 1
    BY <1>0
<1>3. PICK f : Reads(quotes, f, Len(text) + 1)
    BY <1>1, <1>2
<1>4. ASSUME NEW k \in 1..Len(text) + 1
      PROVE  f[k] = IF k = 1 THEN "plain" ELSE After(quotes, f[k - 1], text[k - 1])
    <2>1. CASE k = 1
        BY <1>3, <2>1 DEF Reads
    <2>2. CASE k # 1
        <3>1. k - 1 \in 1..(Len(text) + 1) - 1 /\ (k - 1) + 1 = k
            BY <1>0, <2>2
        <3> QED BY <1>3, <2>2, <3>1 DEF Reads
    <2> QED BY <2>1, <2>2
<1>5. f = Steps(quotes, f)
    BY <1>3, <1>4 DEF Reads, Steps
<1> QED BY <1>5

LEMMA ReadingSteps ==
    ASSUME IsText, NEW quotes \in SUBSET Quotes, NEW f, f = Steps(quotes, f)
    PROVE  /\ f[1] = "plain"
           /\ \A k \in 1..Len(text) : f[k + 1] = After(quotes, f[k], text[k])
           /\ \A k \in 1..Len(text) + 1 : f[k] \in Modes
<1>0. Len(text) \in Nat
    BY TextTypes
<1>1. \A k \in 1..Len(text) + 1 : f[k] = IF k = 1 THEN "plain" ELSE After(quotes, f[k - 1], text[k - 1])
    <2>1. TAKE k \in 1..Len(text) + 1
    <2>2. Steps(quotes, f)[k] = IF k = 1 THEN "plain" ELSE After(quotes, f[k - 1], text[k - 1])
        BY DEF Steps
    <2> QED BY <2>2
<1>2. f[1] = "plain" /\ \A k \in 1..Len(text) : f[k + 1] = After(quotes, f[k], text[k])
    <2>1. ASSUME NEW k \in 1..Len(text)
          PROVE  f[k + 1] = After(quotes, f[k], text[k])
        <3>1. k + 1 \in 1..Len(text) + 1 /\ k + 1 # 1 /\ (k + 1) - 1 = k
            BY <1>0
        <3> QED BY <1>1, <3>1
    <2>2. 1 \in 1..Len(text) + 1
        BY <1>0
    <2> QED BY <1>1, <2>1, <2>2
<1> DEFINE I == {k \in 1..Len(text) + 1 : f[k] \notin Modes}
<1>3. ASSUME I # {} PROVE FALSE
    <2>1. PICK k \in I : \A y \in I : k <= y
        <3>1. I \in SUBSET Nat
            BY <1>0
        <3> HIDE DEF I
        <3> QED BY <1>3, <3>1, LeastPosition
    <2>2. CASE k = 1
        BY <1>2, <2>1, <2>2 DEF Modes
    <2>3. CASE k # 1
        <3>1. k - 1 \in 1..Len(text) /\ (k - 1) + 1 = k /\ k - 1 \notin I
            BY <1>0, <2>1, <2>3
        <3>2. f[k - 1] \in Modes /\ f[k] = After(quotes, f[k - 1], text[k - 1])
            BY <1>0, <1>2, <3>1
        <3>3. f[k] \in Modes
            BY <3>2 DEF After, Modes
        <3> QED BY <2>1, <3>3
    <2> QED BY <2>2, <2>3
<1> QED BY <1>2, <1>3

(* Mode is the reading of PostgreSQL. *)
LEMMA ModeProperties ==
    ASSUME IsText
    PROVE  Mode[1] = "plain" /\ \A k \in 1..Len(text) : Mode[k + 1] = After(Quotes, Mode[k], text[k])
<1>1. \E f : f = Steps(Quotes, f)
    BY ReadingExists
<1>2. Mode = Steps(Quotes, Mode)
    BY <1>1 DEF Mode, Steps
<1> QED BY <1>2, ReadingSteps

(* That of the splitter, which knows fewer quotes, with what it means: what *)
(* is inside of a quote, what is dropped as a comment, where it cuts.       *)
Known == Tags \cup {"'"}
Sees(m, t) == After(Known, m, t)
Seen[k \in 1..Len(text) + 1] == IF k = 1 THEN "plain" ELSE After(Known, Seen[k - 1], text[k - 1])

Inside(k) == Seen[k] \notin {"plain", "comment"}
Dropped(k) == Seen[k] = "comment" \/ (Seen[k] = "plain" /\ text[k] \in CommentStart)
Cuts(k) == k > Len(text) \/ (Seen[k] = "plain" /\ text[k] = ";")
Says == {k \in 1..Len(text) : ~Dropped(k) /\ (Inside(k) \/ text[k] \notin Blank \cup {";"})}

LEMMA SeenProperties ==
    ASSUME IsText
    PROVE  /\ Seen[1] = "plain"
           /\ \A k \in 1..Len(text) : Seen[k + 1] = Sees(Seen[k], text[k])
           /\ \A k \in 1..Len(text) + 1 : Seen[k] \in Known \cup {"plain", "comment"}
<1>0. Len(text) \in Nat /\ Known \subseteq Quotes
    BY TextTypes DEF Known, Quotes
<1>1. \E f : f = Steps(Known, f)
    BY <1>0, ReadingExists
<1>2. Seen = Steps(Known, Seen)
    BY <1>1 DEF Seen, Steps
<1>3. Seen[1] = "plain" /\ \A k \in 1..Len(text) : Seen[k + 1] = Sees(Seen[k], text[k])
    BY <1>0, <1>2, ReadingSteps DEF Sees
<1> DEFINE I == {k \in 1..Len(text) + 1 : Seen[k] \notin Known \cup {"plain", "comment"}}
<1>4. ASSUME I # {} PROVE FALSE
    <2>1. PICK k \in I : \A y \in I : k <= y
        <3>1. I \in SUBSET Nat
            BY <1>0
        <3> HIDE DEF I
        <3> QED BY <1>4, <3>1, LeastPosition
    <2>2. CASE k = 1
        BY <1>3, <2>1, <2>2
    <2>3. CASE k # 1
        <3>1. k - 1 \in 1..Len(text) /\ (k - 1) + 1 = k /\ k - 1 \notin I
            BY <1>0, <2>1, <2>3
        <3>2. Seen[k - 1] \in Known \cup {"plain", "comment"} /\ Seen[k] = Sees(Seen[k - 1], text[k - 1])
            BY <1>0, <1>3, <3>1
        <3>3. Seen[k] \in Known \cup {"plain", "comment"}
            BY <3>2 DEF Sees, After
        <3> QED BY <2>1, <3>3
    <2> QED BY <2>2, <2>3
<1> QED BY <1>3, <1>4

(* Where the quotes are familiar, the two are one. *)
LEMMA Agreement ==
    ASSUME IsText, Familiar
    PROVE  /\ \A k \in 1..Len(text) + 1 : Ends(k) <=> Cuts(k)
           /\ \A k \in 1..Len(text) : Comment(k) <=> Dropped(k)
           /\ Meaning = Says
<1> DEFINE I == {k \in 1..Len(text) + 1 : Mode[k] # Seen[k]}
<1>0. Len(text) \in Nat
    BY TextTypes
<1>1. ASSUME I # {} PROVE FALSE
    <2>1. PICK k \in I : \A y \in I : k <= y
        <3>1. I \in SUBSET Nat
            BY <1>0
        <3> HIDE DEF I
        <3> QED BY <1>1, <3>1, LeastPosition
    <2>2. k # 1
        BY <2>1, ModeProperties, SeenProperties
    <2>3. k - 1 \in 1..Len(text) /\ (k - 1) + 1 = k /\ k - 1 \notin I
        BY <1>0, <2>1, <2>2
    <2>4. /\ Mode[k - 1] = Seen[k - 1]
          /\ Mode[k] = After(Quotes, Mode[k - 1], text[k - 1])
          /\ Seen[k] = After(Known, Seen[k - 1], text[k - 1])
        BY <1>0, <2>3, ModeProperties, SeenProperties DEF Sees
    <2>5. text[k - 1] \in Quotes \ Known => Mode[k - 1] # "plain"
        BY <2>3 DEF Familiar, Quotes, Known
    <2>6. Mode[k] = Seen[k]
        BY <2>4, <2>5 DEF After, Quotes, Known
    <2> QED BY <2>1, <2>6
<1>2. \A k \in 1..Len(text) + 1 : Mode[k] = Seen[k]
    BY <1>1
<1>3. 1..Len(text) \subseteq 1..Len(text) + 1
    BY <1>0
<1>4. \A k \in 1..Len(text) + 1 : Ends(k) <=> Cuts(k)
    BY <1>2 DEF Ends, Cuts
<1>5. \A k \in 1..Len(text) : (Comment(k) <=> Dropped(k)) /\ (Quoted(k) <=> Inside(k))
    BY <1>2, <1>3 DEF Comment, Dropped, Quoted, Inside
<1> QED BY <1>4, <1>5 DEF Meaning, Says

(* What no token ends goes on. *)
LEMMA SeenStays ==
    ASSUME IsText, NEW m, NEW a \in 1..Len(text) + 1, NEW b \in a..Len(text) + 1,
           Seen[a] = m, \A k \in a..b - 1 : Sees(m, text[k]) = m
    PROVE  \A k \in a..b : Seen[k] = m
<1> DEFINE I == {k \in a..b : Seen[k] # m}
<1>0. Len(text) \in Nat
    BY TextTypes
<1>1. ASSUME I # {} PROVE FALSE
    <2>1. PICK k \in I : \A y \in I : k <= y
        <3>1. I \in SUBSET Nat
            BY <1>0
        <3> HIDE DEF I
        <3> QED BY <1>1, <3>1, LeastPosition
    <2>2. k - 1 \in a..b - 1 /\ (k - 1) + 1 = k /\ k - 1 \notin I /\ k - 1 \in 1..Len(text)
        BY <1>0, <2>1
    <2>3. Seen[k - 1] = m
        BY <1>0, <2>1, <2>2
    <2>4. Seen[k] = Sees(Seen[k - 1], text[k - 1])
        BY <2>2, SeenProperties
    <2> QED BY <2>1, <2>2, <2>3, <2>4
<1> QED BY <1>1

(* A quote, a body or a comment has been opened somewhere. *)
LEMMA SeenEntered ==
    ASSUME IsText, NEW k \in 1..Len(text) + 1, Seen[k] # "plain"
    PROVE  \E c \in 1..k - 1 : /\ Seen[c] = "plain" /\ Sees("plain", text[c]) = Seen[k]
                               /\ \A j \in c + 1..k : Seen[j] = Seen[k]
<1> DEFINE I == {j \in 1..k : \A q \in j..k : Seen[q] = Seen[k]}
<1>0. Len(text) \in Nat
    BY TextTypes
<1>1. PICK j \in I : \A y \in I : j <= y
    <2>1. I \in SUBSET Nat /\ k \in I
        BY <1>0
    <2> HIDE DEF I
    <2> QED BY <2>1, LeastPosition
<1>2. j # 1
    BY <1>0, <1>1, SeenProperties
<1> DEFINE c == j - 1
<1>3. c \in 1..k - 1 /\ c + 1 = j /\ c \notin I /\ c \in 1..Len(text)
    BY <1>0, <1>1, <1>2
<1>4. \A q \in c + 1..k : Seen[q] = Seen[k]
    BY <1>1, <1>3
<1>5. Seen[c] # Seen[k]
    <2>1. PICK q \in c..k : Seen[q] # Seen[k]
        BY <1>0, <1>3
    <2> QED BY <1>0, <1>3, <1>4, <2>1
<1>6. Seen[k] = Sees(Seen[c], text[c])
    <2>1. Seen[c + 1] = Sees(Seen[c], text[c])
        BY <1>3, SeenProperties
    <2>2. c + 1 \in c + 1..k
        BY <1>0, <1>3
    <2> QED BY <1>4, <2>1, <2>2
<1>7. Seen[c] = "plain"
    BY <1>5, <1>6 DEF Sees, After, Known
<1> QED BY <1>3, <1>4, <1>6, <1>7

LEMMA TextFrame ==
    ASSUME text' = text
    PROVE  Seen' = Seen
BY DEF Seen

----------------------------------------------------------------------------
(* What lies before a position and after the last end before it, without   *)
(* comments: what the splitter has in its buffer when it is there.          *)
Segment(e) == {k \in 1..Len(text) : k < e /\ ~Dropped(k) /\ \A f \in k..e - 1 : ~Cuts(f)}

LEMMA SegmentGrows ==
    ASSUME IsText, NEW a \in 1..Len(text), NEW b \in a..Len(text), \A f \in a..b : ~Cuts(f)
    PROVE  Segment(b + 1) = Segment(a) \cup {f \in a..b : ~Dropped(f)}
<1>0. Len(text) \in Nat
    BY TextTypes
<1>1. ASSUME NEW k \in Segment(b + 1)
      PROVE  k \in Segment(a) \cup {f \in a..b : ~Dropped(f)}
    BY <1>0 DEF Segment
<1>2. ASSUME NEW k \in Segment(a)
      PROVE  k \in Segment(b + 1)
    <2>1. k \in 1..Len(text) /\ k < b + 1 /\ ~Dropped(k)
        BY <1>0 DEF Segment
    <2>2. ASSUME NEW f \in k..b PROVE ~Cuts(f)
        <3>1. f \in k..a - 1 \/ f \in a..b
            BY <1>0, <2>1
        <3> QED BY <3>1 DEF Segment
    <2>3. (b + 1) - 1 = b
        BY <1>0
    <2> QED BY <2>1, <2>2, <2>3 DEF Segment
<1>3. ASSUME NEW k \in a..b, ~Dropped(k)
      PROVE  k \in Segment(b + 1)
    <2>1. k \in 1..Len(text) /\ k < b + 1 /\ k..(b + 1) - 1 \subseteq a..b
        BY <1>0
    <2> QED BY <1>3, <2>1 DEF Segment
<1> QED BY <1>1, <1>2, <1>3

(* Sees an end a new statement begins. *)
LEMMA SegmentStarts ==
    ASSUME IsText, NEW e \in 1..Len(text), Cuts(e)
    PROVE  Segment(e + 1) = {}
<1>0. Len(text) \in Nat
    BY TextTypes
<1>1. ASSUME NEW k \in Segment(e + 1) PROVE FALSE
    <2>1. e \in k..(e + 1) - 1
        BY <1>0 DEF Segment
    <2> QED BY <2>1 DEF Segment
<1> QED BY <1>1

(* What starts a comment. *)
LEMMA CommentTokens ==
    CommentStart = {"--", "--allow drop", "--allow add", "--allow index", "--allow baseline", "--notx"}
<1>1. /\ Directive["destructive"] = "--allow drop" /\ Directive["rewriting"] = "--allow add"
      /\ Directive["blocking"] = "--allow index" /\ Directive["baseline"] = "--allow baseline"
    BY DEF Directive
<1>2. Rules \cup {"baseline"} = {"destructive", "rewriting", "blocking", "baseline"}
    BY DEF Rules
<1>3. Directives = {"--allow drop", "--allow add", "--allow index", "--allow baseline", "--notx"}
    <2>1. {Directive[rule] : rule \in Rules \cup {"baseline"}}
            = {"--allow drop", "--allow add", "--allow index", "--allow baseline"}
        BY <1>1, <1>2
    <2> QED BY <2>1 DEF Directives
<1> QED BY <1>3 DEF CommentStart

(* A quote is no comment, no blank, no end and no word. *)
LEMMA QuoteTokens ==
    ASSUME NEW t \in Tags \cup {"'"}
    PROVE  t \notin CommentStart /\ t \notin Blank /\ t # ";" /\ t \notin Words /\ t \notin {"plain", "comment"}
BY CommentTokens DEF Tags, Blank, Words

(* What is quoted in a segment has its quote in the segment. *)
LEMMA QuoteIsThere ==
    ASSUME IsText, NEW e \in 1..Len(text) + 1, NEW k \in Segment(e), Inside(k)
    PROVE  \E j \in Segment(e) : text[j] \in Tags \cup {"'"}
<1>0. Len(text) \in Nat /\ k \in 1..Len(text) /\ k < e
    BY TextTypes DEF Segment
<1>1. PICK c \in 1..k - 1 : /\ Seen[c] = "plain" /\ Sees("plain", text[c]) = Seen[k]
                            /\ \A j \in c + 1..k : Seen[j] = Seen[k]
    BY <1>0, SeenEntered DEF Inside
<1>2. text[c] \in Tags \cup {"'"}
    BY <1>1 DEF Sees, After, Known, Inside
<1>3. c \in 1..Len(text) /\ c < e
    BY <1>0
<1>4. ~Dropped(c)
    <2>1. text[c] \notin CommentStart
        BY <1>2, QuoteTokens
    <2> QED BY <1>1, <2>1 DEF Dropped
<1>5. ASSUME NEW f \in c..e - 1 PROVE ~Cuts(f)
    <2>1. CASE f = c
        <3>1. text[c] # ";"
            BY <1>2, QuoteTokens
        <3>2. ~(c > Len(text))
            BY <1>0, <1>3
        <3> QED BY <2>1, <3>1, <3>2 DEF Cuts
    <2>2. CASE f \in c + 1..k
        <3>1. Seen[f] # "plain" /\ ~(f > Len(text))
            BY <1>0, <1>1, <2>2 DEF Inside
        <3> QED BY <3>1 DEF Cuts
    <2>3. CASE f \in k..e - 1
        BY <2>3 DEF Segment
    <2>4. f = c \/ f \in c + 1..k \/ f \in k..e - 1
        BY <1>0, <1>3
    <2> QED BY <2>1, <2>2, <2>3, <2>4
<1> QED BY <1>2, <1>3, <1>4, <1>5 DEF Segment

(* What is not blank in a segment means something, and a segment that means *)
(* nothing is blank.                                                        *)
LEMMA SegmentMeaning ==
    ASSUME IsText, NEW e \in 1..Len(text) + 1, NEW k \in Segment(e)
    PROVE  /\ text[k] \notin Blank => k \in Says
           /\ k \in Says /\ text[k] \in Blank => \E j \in Segment(e) : text[j] \in Tags \cup {"'"}
<1>0. Len(text) \in Nat /\ k \in 1..Len(text) /\ k < e /\ ~Dropped(k) /\ ~Cuts(k)
    <2>1. Len(text) \in Nat /\ k \in 1..Len(text) /\ k < e /\ ~Dropped(k)
        BY TextTypes DEF Segment
    <2>2. k \in k..e - 1
        BY <2>1
    <2> QED BY <2>1, <2>2 DEF Segment
<1>1. text[k] \notin Blank => k \in Says
    BY <1>0 DEF Says, Dropped, Cuts, Inside
<1>2. k \in Says /\ text[k] \in Blank => Inside(k)
    BY DEF Says
<1> QED BY <1>1, <1>2, QuoteIsThere

LEMMA FindProperties ==
    ASSUME IsText, NEW tokens, NEW from \in 1..Len(text) + 1
    PROVE  /\ Find(tokens, from) \in from..Len(text) + 1
           /\ Find(tokens, from) > Len(text) \/ text[Find(tokens, from)] \in tokens
           /\ \A j \in from..Find(tokens, from) - 1 : text[j] \notin tokens
<1> DEFINE I == {k \in from..Len(text) + 1 : k > Len(text) \/ text[k] \in tokens}
<1>0. Len(text) \in Nat
    BY TextTypes
<1>1. PICK k \in I : \A y \in I : k <= y
    <2>1. I \in SUBSET Nat /\ Len(text) + 1 \in I
        BY <1>0
    <2> HIDE DEF I
    <2> QED BY <2>1, LeastPosition
<1>2. \A j \in from..k - 1 : text[j] \notin tokens
    <2>1. TAKE j \in from..k - 1
    <2>2. j \in from..Len(text) + 1 /\ j \notin I
        BY <1>0, <1>1
    <2> QED BY <2>2
<1>3. \E q \in from..Len(text) + 1 :
        /\ q > Len(text) \/ text[q] \in tokens
        /\ \A j \in from..q - 1 : text[j] \notin tokens
    BY <1>1, <1>2
<1> QED BY <1>3 DEF Find

----------------------------------------------------------------------------
(* The splitter *)

(* Statements in the order of the text. *)
Ordered(q) == \A m, n \in 1..Len(q) : m < n => \A j \in q[m], k \in q[n] : j < k

TypeInv ==
    /\ IsText
    /\ contract \in BOOLEAN /\ split \in BOOLEAN /\ (contract => ~split)
    /\ i \in 1..Len(text) + 1 /\ (split => i = Len(text) + 1)
    /\ dollar \in Tags \cup {None}
    /\ out \in Seq(SUBSET Nat) /\ ran \in Seq(SUBSET Nat)

(* What the splitter is inside of. *)
PlaceInv == i <= Len(text) => Seen[i] = IF dollar = None THEN "plain" ELSE dollar

(* The ends it has been at. *)
Closed == {e \in 1..(IF split THEN i ELSE i - 1) : Cuts(e)}

OutInv ==
    /\ \A n \in 1..Len(out) : ~Blanks(out[n]) /\ \E e \in Closed : out[n] = Segment(e)
    /\ \A e \in Closed : Blanks(Segment(e)) \/ \E n \in 1..Len(out) : out[n] = Segment(e)
    /\ Ordered(out)

(* In a transaction, the file's BEGIN and COMMIT are left out. *)
Kept(s) == StartsWithHeader \/ ~TransactionControl(s)

RanInv ==
    /\ at \in 0..Len(out) /\ (~split => at = 0)
    /\ \A n \in 1..Len(ran) : \E m \in 1..at : ran[n] = out[m] /\ Kept(out[m])
    /\ \A m \in 1..at : Kept(out[m]) => \E n \in 1..Len(ran) : ran[n] = out[m]
    /\ Ordered(ran)

SplitInv == PlaceInv /\ buf = (IF split THEN {} ELSE Segment(i)) /\ OutInv

IInv == TypeInv /\ SplitInv /\ RanInv

----------------------------------------------------------------------------
(* The text stays, and so does what is said of its positions. *)
LEMMA SegmentFrame ==
    ASSUME text' = text
    PROVE  /\ \A e : Segment(e)' = Segment(e) /\ (Cuts(e)' <=> Cuts(e))
           /\ \A s : Blanks(s)' <=> Blanks(s)
BY TextFrame DEF Segment, Cuts, Dropped, Blanks

(* The splitter goes on to b + 1, and no end is passed. *)
LEMMA Advance ==
    ASSUME TypeInv, SplitInv, ~split, NEW b \in i..Len(text), i' = b + 1, \A f \in i..b : ~Cuts(f),
           buf' = buf \cup {f \in i..b : ~Dropped(f)}, UNCHANGED <<text, contract, out, split, ran>>,
           dollar' \in Tags \cup {None},
           b < Len(text) => Seen[b + 1] = IF dollar' = None THEN "plain" ELSE dollar'
    PROVE  TypeInv' /\ SplitInv'
<1>0. Len(text) \in Nat /\ i \in 1..Len(text) /\ IsText
    BY TextTypes DEF TypeInv
<1>1. TypeInv'
    <2>1. i' \in 1..Len(text') + 1
        BY <1>0
    <2>2. IsText'
        BY DEF TypeInv, IsText
    <2> QED BY <2>1, <2>2 DEF TypeInv
<1>2. PlaceInv'
    BY <1>0, TextFrame DEF PlaceInv
<1>3. buf' = Segment(i)'
    <2>1. Segment(b + 1) = Segment(i) \cup {f \in i..b : ~Dropped(f)}
        BY <1>0, SegmentGrows
    <2>2. Segment(i)' = Segment(b + 1)
        BY TextFrame DEF Segment, Cuts, Dropped
    <2> QED BY <2>1, <2>2 DEF SplitInv
<1>4. Closed' = Closed
    <2>1. \A e \in 1..b : Cuts(e) => e \in 1..i - 1
        BY <1>0
    <2>2. Closed' = {e \in 1..b : Cuts(e)}
        <3>1. (IF split' THEN i' ELSE i' - 1) = b
            BY <1>0
        <3> QED BY <3>1, SegmentFrame DEF Closed
    <2>3. Closed = {e \in 1..i - 1 : Cuts(e)}
        BY DEF Closed
    <2> QED BY <1>0, <2>1, <2>2, <2>3
<1>5. OutInv'
    BY <1>4, SegmentFrame DEF SplitInv, OutInv, Ordered, Blanks
<1> QED BY <1>1, <1>2, <1>3, <1>5 DEF SplitInv

(* The splitter is at an end: its buffer is a statement, unless it is blank. *)
LEMMA CloseStatement ==
    ASSUME TypeInv, SplitInv, ~split, Cuts(i), UNCHANGED <<text, ran>>,
           out' = out \o Statement(buf), Closed' = Closed \cup {i}
    PROVE  OutInv' /\ out' \in Seq(SUBSET Nat)
<1>0. Len(text) \in Nat /\ i \in 1..Len(text) + 1 /\ out \in Seq(SUBSET Nat) /\ Len(out) \in Nat
    BY TextTypes, LenProperties DEF TypeInv
<1>1. buf = Segment(i) /\ buf \in SUBSET Nat
    BY <1>0 DEF SplitInv, Segment
<1>2. CASE Blanks(buf)
    <2>1. out' = out
        BY <1>0, <1>2, ConcatEmptySeq DEF Statement
    <2>2. /\ \A n \in 1..Len(out) : ~Blanks(out[n]) /\ \E e \in Closed' : out[n] = Segment(e)
          /\ \A e \in Closed' : Blanks(Segment(e)) \/ \E n \in 1..Len(out) : out[n] = Segment(e)
          /\ Ordered(out)
        BY <1>1, <1>2 DEF SplitInv, OutInv
    <2>3. OutInv'
        BY <2>1, <2>2, SegmentFrame DEF OutInv, Ordered, Blanks
    <2> QED BY <1>0, <2>1, <2>3
<1>3. CASE ~Blanks(buf)
    <2>1. /\ out' \in Seq(SUBSET Nat) /\ Len(out') = Len(out) + 1
          /\ \A n \in 1..Len(out) : out'[n] = out[n]
          /\ out'[Len(out) + 1] = buf
        <3>1. out' = Append(out, buf)
            BY <1>0, <1>1, <1>3 DEF Statement
        <3>2. Append(out, buf) \in Seq(SUBSET Nat) /\ Len(Append(out, buf)) = Len(out) + 1
            BY <1>0, <1>1, AppendProperties
        <3>3. \A n \in 1..Len(out) : Append(out, buf)[n] = out[n]
            BY <1>0, <1>1, AppendProperties
        <3>4. Append(out, buf)[Len(out) + 1] = buf
            BY <1>0, <1>1, AppendProperties
        <3> QED BY <3>1, <3>2, <3>3, <3>4
    <2>2. \A n \in 1..Len(out') : n \in 1..Len(out) \/ n = Len(out) + 1
        BY <1>0, <2>1
    <2>3. ASSUME NEW n \in 1..Len(out')
          PROVE  ~Blanks(out'[n]) /\ \E e \in Closed' : out'[n] = Segment(e)
        <3>1. CASE n \in 1..Len(out)
            BY <2>1, <3>1 DEF SplitInv, OutInv
        <3>2. CASE n = Len(out) + 1
            BY <1>1, <1>3, <2>1, <3>2
        <3> QED BY <2>2, <3>1, <3>2
    <2>4. ASSUME NEW e \in Closed'
          PROVE  Blanks(Segment(e)) \/ \E n \in 1..Len(out') : out'[n] = Segment(e)
        <3>1. CASE e \in Closed
            <4>1. Blanks(Segment(e)) \/ \E n \in 1..Len(out) : out[n] = Segment(e)
                BY <3>1 DEF SplitInv, OutInv
            <4>2. 1..Len(out) \subseteq 1..Len(out')
                BY <1>0, <2>1
            <4> QED BY <2>1, <4>1, <4>2
        <3>2. CASE e = i
            <4>1. Len(out) + 1 \in 1..Len(out')
                BY <1>0, <2>1
            <4> QED BY <1>1, <2>1, <3>2, <4>1
        <3> QED BY <3>1, <3>2
    <2>5. Ordered(out')
        <3> SUFFICES ASSUME NEW m \in 1..Len(out'), NEW n \in 1..Len(out'), m < n,
                            NEW j \in out'[m], NEW k \in out'[n]
                     PROVE  j < k
            BY DEF Ordered
        <3>1. m \in 1..Len(out) /\ j \in out[m]
            BY <1>0, <2>1, <2>2
        <3>2. CASE n \in 1..Len(out)
            BY <2>1, <3>1, <3>2 DEF SplitInv, OutInv, Ordered
        <3>3. CASE n = Len(out) + 1
            <4>1. PICK e \in Closed : out[m] = Segment(e)
                BY <3>1 DEF SplitInv, OutInv
            <4>2. e \in 1..i - 1 /\ Cuts(e) /\ j < e /\ j \in Nat
                BY <1>0, <3>1, <4>1 DEF Closed, Segment
            <4>3. k \in Segment(i)
                BY <1>1, <2>1, <3>3
            <4>4. k \in 1..Len(text) /\ e \notin k..i - 1
                BY <4>2, <4>3 DEF Segment
            <4> QED BY <1>0, <4>2, <4>4
        <3> QED BY <2>2, <3>2, <3>3
    <2>6. OutInv'
        <3>1. (\A n \in 1..Len(out) : ~Blanks(out[n]) /\ \E e \in Closed : out[n] = Segment(e))'
            BY <2>3, SegmentFrame DEF Blanks
        <3>2. (\A e \in Closed : Blanks(Segment(e)) \/ \E n \in 1..Len(out) : out[n] = Segment(e))'
            BY <2>4, SegmentFrame DEF Blanks
        <3>3. Ordered(out)'
            BY <2>5 DEF Ordered
        <3> QED BY <3>1, <3>2, <3>3 DEF OutInv
    <2> QED BY <2>1, <2>6
<1> QED BY <1>2, <1>3

----------------------------------------------------------------------------
(* The steps of split_statements() *)

LEMMA ReadingTypes ==
    ASSUME TypeInv, SplitInv, Reading
    PROVE  /\ ~split /\ IsText /\ Len(text) \in Nat /\ i \in 1..Len(text) /\ text[i] \in Tokens
           /\ dollar \in Tags \cup {None} /\ Seen[i] = IF dollar = None THEN "plain" ELSE dollar
           /\ Seen[i + 1] = Sees(Seen[i], text[i])
           /\ i <= Len(text) /\ ~(i > Len(text))
<1>1. ~split /\ IsText /\ Len(text) \in Nat /\ i \in 1..Len(text) /\ text[i] \in Tokens
    BY TextTypes DEF TypeInv, Reading
<1>2. i <= Len(text) /\ ~(i > Len(text))
    BY <1>1
<1> QED BY <1>1, <1>2, SeenProperties DEF TypeInv, SplitInv, PlaceInv

(* One token, which belongs to the statement. *)
LEMMA TokenTaken ==
    ASSUME TypeInv, SplitInv, Reading, Take(i), ~Cuts(i), ~Dropped(i),
           UNCHANGED <<text, contract, out, split, ran>>, dollar' \in Tags \cup {None},
           Sees(Seen[i], text[i]) = IF dollar' = None THEN "plain" ELSE dollar'
    PROVE  TypeInv' /\ SplitInv'
<1>1. /\ ~split /\ Len(text) \in Nat /\ i \in 1..Len(text)
      /\ Seen[i + 1] = IF dollar' = None THEN "plain" ELSE dollar'
    BY ReadingTypes
<1>2. i \in i..Len(text) /\ i' = i + 1 /\ \A f \in i..i : ~Cuts(f)
    BY <1>1 DEF Take
<1>3. buf' = buf \cup {f \in i..i : ~Dropped(f)}
    <2>1. i..i = {i}
        BY <1>1
    <2> QED BY <2>1 DEF Take
<1> QED BY <1>1, <1>2, <1>3, Advance

LEMMA BodyRead ==
    ASSUME TypeInv, SplitInv, CloseBody \/ OpenBody
    PROVE  TypeInv' /\ SplitInv'
<1>1. CASE CloseBody
    <2>0. Reading /\ text[i] = dollar /\ dollar \in Tags
        BY <1>1, ReadingTypes DEF CloseBody
    <2>1. Seen[i] = dollar /\ dollar \notin {"plain", "comment"} /\ i <= Len(text)
        BY <2>0, ReadingTypes, NoneAssumption, QuoteTokens
    <2>2. Sees(Seen[i], text[i]) = "plain"
        BY <2>0, <2>1 DEF Sees, After, Known
    <2>3. ~Cuts(i) /\ ~Dropped(i)
        BY <2>0, <2>1, ReadingTypes DEF Cuts, Dropped
    <2> QED BY <1>1, <2>0, <2>2, <2>3, TokenTaken DEF CloseBody
<1>2. CASE OpenBody
    <2>0. Reading /\ dollar = None /\ text[i] \in Tags
        BY <1>2 DEF OpenBody
    <2>1. Seen[i] = "plain" /\ i <= Len(text)
        BY <2>0, ReadingTypes
    <2>2. text[i] \notin CommentStart /\ text[i] # ";"
        BY <2>0, QuoteTokens
    <2>3. Sees(Seen[i], text[i]) = text[i] /\ text[i] # None
        BY <2>0, <2>1, <2>2, NoneAssumption DEF Sees, After, Known
    <2>4. ~Cuts(i) /\ ~Dropped(i)
        BY <2>1, <2>2, ReadingTypes, <2>0 DEF Cuts, Dropped
    <2> QED BY <1>2, <2>0, <2>3, <2>4, TokenTaken DEF OpenBody
<1> QED BY <1>1, <1>2

LEMMA CharacterRead ==
    ASSUME TypeInv, SplitInv, CopyCharacter
    PROVE  TypeInv' /\ SplitInv'
<1>0. /\ Reading /\ text[i] # dollar
      /\ dollar = None => text[i] \notin CommentStart \cup Tags \cup {"'", ";"}
    BY DEF CopyCharacter
<1>1. i <= Len(text) /\ ~(i > Len(text))
    BY <1>0, ReadingTypes
<1>2. CASE dollar = None
    <2>1. Seen[i] = "plain" /\ Sees("plain", text[i]) = "plain"
        BY <1>0, <1>2, ReadingTypes DEF Sees, After, Known
    <2>2. ~Cuts(i) /\ ~Dropped(i)
        BY <1>0, <1>1, <1>2, <2>1 DEF Cuts, Dropped
    <2> QED BY <1>0, <1>2, <2>1, <2>2, TokenTaken DEF CopyCharacter
<1>3. CASE dollar # None
    <2>1. Seen[i] = dollar /\ dollar \in Tags /\ dollar \notin {"plain", "comment"}
        BY <1>0, <1>3, ReadingTypes, QuoteTokens
    <2>2. Sees(Seen[i], text[i]) = dollar
        BY <1>0, <2>1 DEF Sees, After, Known
    <2>3. ~Cuts(i) /\ ~Dropped(i)
        BY <1>1, <2>1 DEF Cuts, Dropped
    <2> QED BY <1>0, <1>3, <2>1, <2>2, <2>3, TokenTaken DEF CopyCharacter
<1> QED BY <1>2, <1>3

(* To the quote that closes the literal, or to the end of the text.         *)
LEMMA LiteralRead ==
    ASSUME TypeInv, SplitInv, CopyLiteral
    PROVE  TypeInv' /\ SplitInv'
<1>0. Reading /\ dollar = None /\ text[i] = "'"
    BY DEF CopyLiteral
<1>1. /\ ~split /\ IsText /\ Len(text) \in Nat /\ i \in 1..Len(text)
      /\ Seen[i] = "plain" /\ Seen[i + 1] = "'"
    BY <1>0, ReadingTypes, CommentTokens DEF Sees, After, Known
<1> DEFINE end == Find({"'"}, i + 1)
           b == IF end > Len(text) THEN Len(text) ELSE end
<1>2. /\ end \in i + 1..Len(text) + 1
      /\ end > Len(text) \/ text[end] = "'"
      /\ \A j \in i + 1..end - 1 : text[j] # "'"
    <2>1. i + 1 \in 1..Len(text) + 1
        BY <1>1
    <2>2. /\ Find({"'"}, i + 1) \in i + 1..Len(text) + 1
          /\ Find({"'"}, i + 1) > Len(text) \/ text[Find({"'"}, i + 1)] \in {"'"}
          /\ \A j \in i + 1..Find({"'"}, i + 1) - 1 : text[j] \notin {"'"}
        BY <1>1, <2>1, FindProperties
    <2> QED BY <2>2
<1>3. Take(b) /\ UNCHANGED <<text, contract, dollar, out, split, ran>>
    BY DEF CopyLiteral
<1> HIDE DEF end
<1>4. \A f \in i + 1..end : Seen[f] = "'"
    <2>1. i + 1 \in 1..Len(text) + 1 /\ end \in i + 1..Len(text) + 1
        BY <1>1, <1>2
    <2>2. \A k \in i + 1..end - 1 : Sees("'", text[k]) = "'"
        BY <1>2 DEF Sees, After, Known
    <2> QED BY <1>1, <2>1, <2>2, SeenStays
<1>5. b \in i..Len(text) /\ b + 1 \in 1..Len(text) + 1
    BY <1>1, <1>2
<1>6. \A f \in i..b : ~Cuts(f) /\ ~Dropped(f)
    <2>1. TAKE f \in i..b
    <2>2. ~(f > Len(text)) /\ (f = i \/ f \in i + 1..end)
        BY <1>1, <1>2, <1>5
    <2>3. CASE f = i
        BY <1>0, <1>1, <2>2, <2>3, CommentTokens DEF Cuts, Dropped
    <2>4. CASE f \in i + 1..end
        BY <1>4, <2>2, <2>4 DEF Cuts, Dropped
    <2> QED BY <2>2, <2>3, <2>4
<1>7. b < Len(text) => Seen[b + 1] = "plain"
    <2> SUFFICES ASSUME b < Len(text) PROVE Seen[b + 1] = "plain"
        OBVIOUS
    <2>1. b = end /\ end \in 1..Len(text) /\ end \in i + 1..end /\ text[end] = "'"
        BY <1>1, <1>2
    <2>2. Seen[end] = "'" /\ Seen[end + 1] = Sees(Seen[end], text[end])
        BY <1>1, <1>4, <2>1, SeenProperties
    <2> QED BY <2>1, <2>2 DEF Sees, After, Known
<1>8. buf' = buf \cup {f \in i..b : ~Dropped(f)} /\ i' = b + 1
    BY <1>3, <1>6 DEF Take
<1> HIDE DEF b
<1> QED BY <1>0, <1>1, <1>3, <1>5, <1>6, <1>7, <1>8, Advance

(* To the end of the line, or to the end of the text. *)
LEMMA CommentRead ==
    ASSUME TypeInv, SplitInv, SkipComment
    PROVE  TypeInv' /\ SplitInv'
<1>0. Reading /\ dollar = None /\ text[i] \in CommentStart
    BY DEF SkipComment
<1>1. /\ ~split /\ IsText /\ Len(text) \in Nat /\ i \in 1..Len(text)
      /\ Seen[i] = "plain" /\ Seen[i + 1] = "comment"
    BY <1>0, ReadingTypes DEF Sees, After, Known
<1>2. text[i] # "nl" /\ text[i] # ";"
    BY <1>0, CommentTokens
<1> DEFINE end == Find({"nl"}, i)
           b == IF end > Len(text) THEN Len(text) ELSE end
<1>3. /\ end \in i + 1..Len(text) + 1
      /\ end > Len(text) \/ text[end] = "nl"
      /\ \A j \in i..end - 1 : text[j] # "nl"
    <2>1. /\ Find({"nl"}, i) \in i..Len(text) + 1
          /\ Find({"nl"}, i) > Len(text) \/ text[Find({"nl"}, i)] \in {"nl"}
          /\ \A j \in i..Find({"nl"}, i) - 1 : text[j] \notin {"nl"}
        <3>1. i \in 1..Len(text) + 1
            BY <1>1
        <3> QED BY <1>1, <3>1, FindProperties
    <2> DEFINE e == Find({"nl"}, i)
    <2>2. e \in i..Len(text) + 1 /\ \A j \in i..e - 1 : text[j] # "nl"
        BY <2>1
    <2>3. e > Len(text) \/ text[e] = "nl"
        BY <2>1
    <2> HIDE DEF e
    <2>4. e # i
        <3>1. ~(i > Len(text))
            BY <1>0, ReadingTypes
        <3> QED BY <1>2, <2>3, <3>1
    <2>5. e \in i + 1..Len(text) + 1
        BY <1>1, <2>2, <2>4
    <2> QED BY <2>2, <2>3, <2>5 DEF e
<1>4. i' = (IF end > Len(text) THEN end ELSE end + 1) /\ UNCHANGED <<text, contract, dollar, buf, out, split, ran>>
    BY DEF SkipComment
<1> HIDE DEF end
<1>5. \A f \in i + 1..end : Seen[f] = "comment"
    <2>1. i + 1 \in 1..Len(text) + 1 /\ end \in i + 1..Len(text) + 1
        BY <1>1, <1>3
    <2>2. \A k \in i + 1..end - 1 : Sees("comment", text[k]) = "comment"
        BY <1>1, <1>3 DEF Sees, After, Known
    <2> QED BY <1>1, <2>1, <2>2, SeenStays
<1>6. b \in i..Len(text) /\ b + 1 \in 1..Len(text) + 1 /\ i' = b + 1
    BY <1>1, <1>3, <1>4
<1>7. \A f \in i..b : ~Cuts(f) /\ Dropped(f)
    <2>1. TAKE f \in i..b
    <2>2. ~(f > Len(text)) /\ (f = i \/ f \in i + 1..end)
        BY <1>1, <1>3, <1>6
    <2>3. CASE f = i
        BY <1>0, <1>1, <1>2, <2>2, <2>3 DEF Cuts, Dropped
    <2>4. CASE f \in i + 1..end
        BY <1>5, <2>2, <2>4 DEF Cuts, Dropped
    <2> QED BY <2>2, <2>3, <2>4
<1>8. b < Len(text) => Seen[b + 1] = "plain"
    <2> SUFFICES ASSUME b < Len(text) PROVE Seen[b + 1] = "plain"
        OBVIOUS
    <2>1. b = end /\ end \in 1..Len(text) /\ end \in i + 1..end /\ text[end] = "nl"
        BY <1>1, <1>3
    <2>2. Seen[end] = "comment" /\ Seen[end + 1] = Sees(Seen[end], text[end])
        BY <1>1, <1>5, <2>1, SeenProperties
    <2> QED BY <2>1, <2>2 DEF Sees, After, Known
<1>9. buf' = buf \cup {f \in i..b : ~Dropped(f)}
    BY <1>4, <1>7
<1> HIDE DEF b
<1> QED BY <1>0, <1>1, <1>4, <1>6, <1>7, <1>8, <1>9, Advance

LEMMA EndRead ==
    ASSUME TypeInv, SplitInv, EndStatement \/ Finish
    PROVE  TypeInv' /\ SplitInv'
<1>0. ~split /\ split \in BOOLEAN /\ IsText /\ Len(text) \in Nat /\ i \in 1..Len(text) + 1
    BY TextTypes DEF TypeInv, EndStatement, Finish, Reading
<1>1. CASE EndStatement
    <2>0. i' = i + 1 /\ text' = text /\ split' = split
        BY <1>1 DEF EndStatement
    <2>1. /\ Reading /\ text[i] = ";" /\ Seen[i] = "plain" /\ Seen[i + 1] = "plain" /\ i \in 1..Len(text)
          /\ i' = i + 1 /\ buf' = {} /\ out' = out \o Statement(buf)
          /\ UNCHANGED <<text, contract, dollar, split, at, ran>> /\ dollar = None
        BY <1>1, ReadingTypes, CommentTokens DEF EndStatement, Sees, After, Known, Tags
    <2>2. Cuts(i)
        BY <2>1 DEF Cuts
    <2>3. Closed' = Closed \cup {i}
        <3>1. Closed = {e \in 1..i - 1 : Cuts(e)}
            BY <1>0 DEF Closed
        <3>2. Closed' = {e \in 1..i : Cuts(e)}
            <4>1. (IF split' THEN i' ELSE i' - 1) = i
                BY <1>0, <2>0
            <4> QED BY <2>1, <4>1, SegmentFrame DEF Closed
        <3>3. \A e \in 1..i : e \in 1..i - 1 \/ e = i
            BY <1>0
        <3>4. 1..i - 1 \subseteq 1..i /\ i \in 1..i
            BY <1>0
        <3> QED BY <2>2, <3>1, <3>2, <3>3, <3>4
    <2>4. OutInv' /\ out' \in Seq(SUBSET Nat)
        BY <1>0, <2>1, <2>2, <2>3, CloseStatement
    <2>5. buf' = Segment(i)'
        <3>1. Segment(i + 1) = {}
            BY <1>0, <2>1, <2>2, SegmentStarts
        <3>2. Segment(i)' = Segment(i + 1)
            BY <2>1, TextFrame DEF Segment, Cuts, Dropped
        <3> QED BY <2>1, <3>1, <3>2
    <2>6. PlaceInv'
        BY <2>1, TextFrame DEF PlaceInv
    <2>7. TypeInv'
        <3>1. i' \in 1..Len(text') + 1
            <4>1. i \in 1..Len(text)
                BY <2>1
            <4> QED BY <1>0, <2>0, <4>1
        <3>2. IsText'
            BY <2>1 DEF TypeInv, IsText
        <3> QED BY <1>0, <2>1, <2>4, <3>1, <3>2 DEF TypeInv
    <2> QED BY <1>0, <2>1, <2>4, <2>5, <2>6, <2>7 DEF SplitInv
<1>2. CASE Finish
    <2>1. /\ ~contract /\ i = Len(text) + 1 /\ split' = TRUE /\ buf' = {} /\ out' = out \o Statement(buf)
          /\ UNCHANGED <<text, contract, i, dollar, at, ran>>
        BY <1>0, <1>2 DEF Finish
    <2>2. Cuts(i)
        <3>1. i > Len(text)
            <4>1. i = Len(text) + 1
                BY <2>1
            <4> QED BY <1>0, <4>1
        <3> QED BY <3>1 DEF Cuts
    <2>3. Closed' = Closed \cup {i}
        <3>1. Closed = {e \in 1..i - 1 : Cuts(e)}
            BY <1>0 DEF Closed
        <3>2. Closed' = {e \in 1..i : Cuts(e)}
            BY <2>1, SegmentFrame DEF Closed
        <3>3. \A e \in 1..i : e \in 1..i - 1 \/ e = i
            BY <1>0
        <3>4. 1..i - 1 \subseteq 1..i /\ i \in 1..i
            BY <1>0
        <3> QED BY <2>2, <3>1, <3>2, <3>3, <3>4
    <2>4. OutInv' /\ out' \in Seq(SUBSET Nat)
        BY <1>0, <2>1, <2>2, <2>3, CloseStatement
    <2>5. PlaceInv'
        BY <2>1, TextFrame DEF SplitInv, PlaceInv
    <2>6. TypeInv'
        <3>1. IsText'
            BY <2>1 DEF TypeInv, IsText
        <3> QED BY <1>0, <2>1, <2>4, <3>1 DEF TypeInv
    <2> QED BY <2>1, <2>4, <2>5, <2>6 DEF SplitInv
<1> QED BY <1>1, <1>2

----------------------------------------------------------------------------
(* The invariant *)

(* While the text is read, nothing is executed. *)
LEMMA ReadingWaits ==
    ASSUME TypeInv, RanInv, ~split, UNCHANGED <<text, at, ran>>, out' \in Seq(SUBSET Nat)
    PROVE  RanInv'
<1>1. at = 0 /\ Len(out') \in Nat /\ 1..0 = {}
    BY LenProperties DEF RanInv
<1>2. \A n \in 1..Len(ran) : FALSE
    BY <1>1 DEF RanInv
<1>3. at' \in 0..Len(out')
    BY <1>1
<1>4. (\A n \in 1..Len(ran) : \E m \in 1..at : ran[n] = out[m] /\ Kept(out[m]))'
    BY <1>2
<1>5. (\A m \in 1..at : Kept(out[m]) => \E n \in 1..Len(ran) : ran[n] = out[m])'
    BY <1>1
<1>6. Ordered(ran)'
    BY <1>2 DEF Ordered
<1> QED BY <1>1, <1>3, <1>4, <1>5, <1>6 DEF RanInv

LEMMA LoopStep ==
    ASSUME IInv, Execute \/ Skip
    PROVE  IInv'
<1>0. /\ split /\ at \in Nat /\ at < Len(out) /\ at' = at + 1 /\ UNCHANGED <<text, contract, i, dollar, buf, out, split>>
      /\ Len(out) \in Nat /\ out \in Seq(SUBSET Nat) /\ ran \in Seq(SUBSET Nat) /\ Len(ran) \in Nat
    BY LenProperties DEF Execute, Skip, Due, IInv, TypeInv, RanInv
<1>1. at + 1 \in 1..Len(out) /\ out[at + 1] \in SUBSET Nat /\ \A m \in 1..at' : m \in 1..at \/ m = at + 1
    BY <1>0, ElementOfSeq
<1>2. SplitInv'
    <2>1. Closed' = Closed
        BY <1>0, SegmentFrame DEF Closed
    <2>2. PlaceInv' /\ (buf = (IF split THEN {} ELSE Segment(i)))'
        BY <1>0, TextFrame DEF IInv, SplitInv, PlaceInv
    <2>3. (\A n \in 1..Len(out) : ~Blanks(out[n]) /\ \E e \in Closed : out[n] = Segment(e))'
        BY <1>0, <2>1, SegmentFrame DEF IInv, SplitInv, OutInv, Blanks
    <2>4. (\A e \in Closed : Blanks(Segment(e)) \/ \E n \in 1..Len(out) : out[n] = Segment(e))'
        BY <1>0, <2>1, SegmentFrame DEF IInv, SplitInv, OutInv, Blanks
    <2>5. Ordered(out)'
        BY <1>0 DEF IInv, SplitInv, OutInv, Ordered
    <2> QED BY <2>2, <2>3, <2>4, <2>5 DEF SplitInv, OutInv
<1>3. at' \in 0..Len(out') /\ split'
    BY <1>0
<1>4. \A s : Kept(s)' <=> Kept(s)
    BY <1>0 DEF Kept, StartsWithHeader, TransactionControl, Blanks
<1>5. ASSUME ran' \in Seq(SUBSET Nat),
             \A n \in 1..Len(ran') : \E m \in 1..at' : ran'[n] = out[m] /\ Kept(out[m]),
             \A m \in 1..at' : Kept(out[m]) => \E n \in 1..Len(ran') : ran'[n] = out[m],
             Ordered(ran')
      PROVE  IInv'
    <2>1. TypeInv'
        BY <1>0, <1>5 DEF IInv, TypeInv, IsText
    <2>2. (\A n \in 1..Len(ran) : \E m \in 1..at : ran[n] = out[m] /\ Kept(out[m]))'
        BY <1>0, <1>4, <1>5
    <2>3. (\A m \in 1..at : Kept(out[m]) => \E n \in 1..Len(ran) : ran[n] = out[m])'
        BY <1>0, <1>4, <1>5
    <2>4. Ordered(ran)'
        BY <1>5 DEF Ordered
    <2> QED BY <1>2, <1>3, <2>1, <2>2, <2>3, <2>4 DEF IInv, RanInv
<1>6. CASE Skip
    <2>1. ran' = ran /\ ~Kept(out[at + 1])
        BY <1>6 DEF Skip, Kept
    <2>2. 1..at \subseteq 1..at'
        BY <1>0
    <2> QED BY <1>0, <1>1, <1>5, <2>1, <2>2 DEF IInv, RanInv
<1>7. CASE Execute
    <2> DEFINE s == out[at + 1]
    <2>1. ran' = Append(ran, s) /\ Kept(s)
        BY <1>7 DEF Execute, Kept
    <2>2. /\ Append(ran, s) \in Seq(SUBSET Nat) /\ Len(Append(ran, s)) = Len(ran) + 1
          /\ \A n \in 1..Len(ran) : Append(ran, s)[n] = ran[n]
          /\ Append(ran, s)[Len(ran) + 1] = s
        BY <1>0, <1>1, AppendProperties
    <2>3. /\ ran' \in Seq(SUBSET Nat) /\ Len(ran') = Len(ran) + 1
          /\ \A n \in 1..Len(ran) : ran'[n] = ran[n]
          /\ ran'[Len(ran) + 1] = s
        BY <2>1, <2>2
    <2> HIDE DEF s
    <2>4. \A n \in 1..Len(ran') : n \in 1..Len(ran) \/ n = Len(ran) + 1
        BY <1>0, <2>3
    <2>5. 1..at \subseteq 1..at' /\ at + 1 \in 1..at' /\ 1..Len(ran) \subseteq 1..Len(ran') /\ Len(ran) + 1 \in 1..Len(ran')
        BY <1>0, <2>3
    <2>6. ASSUME NEW n \in 1..Len(ran')
          PROVE  \E m \in 1..at' : ran'[n] = out[m] /\ Kept(out[m])
        <3>1. CASE n \in 1..Len(ran)
            BY <2>3, <2>5, <3>1 DEF IInv, RanInv
        <3>2. CASE n = Len(ran) + 1
            BY <2>1, <2>3, <2>5, <3>2 DEF s
        <3> QED BY <2>4, <3>1, <3>2
    <2>7. ASSUME NEW m \in 1..at', Kept(out[m])
          PROVE  \E n \in 1..Len(ran') : ran'[n] = out[m]
        <3>1. CASE m \in 1..at
            <4>1. PICK n \in 1..Len(ran) : ran[n] = out[m]
                BY <2>7, <3>1 DEF IInv, RanInv
            <4> QED BY <2>3, <2>5, <4>1
        <3>2. CASE m = at + 1
            BY <2>3, <2>5, <3>2 DEF s
        <3> QED BY <1>1, <3>1, <3>2
    <2>8. Ordered(ran')
        <3> SUFFICES ASSUME NEW m \in 1..Len(ran'), NEW n \in 1..Len(ran'), m < n,
                            NEW j \in ran'[m], NEW k \in ran'[n]
                     PROVE  j < k
            BY DEF Ordered
        <3>1. m \in 1..Len(ran) /\ j \in ran[m]
            BY <1>0, <2>3, <2>4
        <3>2. CASE n \in 1..Len(ran)
            BY <2>3, <3>1, <3>2 DEF IInv, RanInv, Ordered
        <3>3. CASE n = Len(ran) + 1
            <4>1. PICK q \in 1..at : ran[m] = out[q]
                BY <3>1 DEF IInv, RanInv
            <4>2. q \in 1..Len(out) /\ at + 1 \in 1..Len(out) /\ q < at + 1
                BY <1>0, <1>1
            <4>3. j \in out[q] /\ k \in out[at + 1]
                BY <2>3, <3>1, <3>3, <4>1 DEF s
            <4> QED BY <4>2, <4>3 DEF IInv, SplitInv, OutInv, Ordered
        <3> QED BY <2>4, <3>2, <3>3
    <2> QED BY <1>5, <2>3, <2>6, <2>7, <2>8
<1> QED BY <1>6, <1>7

LEMMA InitHolds == Init => IInv
<1> SUFFICES ASSUME Init PROVE IInv
    OBVIOUS
<1>0. i = 1 /\ dollar = None /\ buf = {} /\ out = <<>> /\ ~split /\ split = FALSE
      /\ at = 0 /\ ran = <<>> /\ contract \in BOOLEAN
    BY DEF Init
<1>1. IsText /\ Len(text) \in Nat
    <2>0. PICK input \in Inputs : \E n \in 0..input.length : text \in [1..n -> input.alphabet]
        BY Zenon DEF Init
    <2>1. PICK n \in 0..input.length : text \in [1..n -> input.alphabet]
        BY <2>0
    <2>2. input.alphabet \subseteq Tokens /\ n \in Nat
        BY <2>1, InputAssumption
    <2>3. text \in [1..n -> Tokens]
        BY <2>1, <2>2
    <2>4. IsText
        BY <2>2, <2>3, IsASeq DEF IsText
    <2> QED BY <2>4, TextTypes
<1>2. out \in Seq(SUBSET Nat) /\ Len(out) = 0 /\ ran \in Seq(SUBSET Nat) /\ Len(ran) = 0 /\ 1..0 = {} /\ 1..1 - 1 = {}
    BY <1>0
<1>3. TypeInv
    <2>1. i \in 1..Len(text) + 1 /\ (split => i = Len(text) + 1)
        BY <1>0, <1>1
    <2>2. split \in BOOLEAN /\ (contract => ~split) /\ dollar \in Tags \cup {None}
        BY <1>0
    <2> QED BY <1>0, <1>1, <1>2, <2>1, <2>2 DEF TypeInv
<1>4. PlaceInv
    BY <1>0, <1>1, SeenProperties DEF PlaceInv
<1>5. Segment(i) = {} /\ Closed = {}
    BY <1>0, <1>1, <1>2 DEF Segment, Closed
<1>6. OutInv /\ RanInv
    BY <1>0, <1>2, <1>5 DEF OutInv, RanInv, Ordered
<1> QED BY <1>0, <1>3, <1>4, <1>5, <1>6 DEF IInv, SplitInv

LEMMA NextHolds == IInv /\ [Next]_vars => IInv'
<1> SUFFICES ASSUME IInv, [Next]_vars PROVE IInv'
    OBVIOUS
<1> USE DEF IInv
<1>1. CASE CloseBody \/ SkipComment \/ CopyLiteral \/ OpenBody \/ EndStatement \/ CopyCharacter \/ Finish
    <2>1. TypeInv' /\ SplitInv'
        BY <1>1, BodyRead, CharacterRead, LiteralRead, CommentRead, EndRead
    <2>2. ~split /\ UNCHANGED <<text, at, ran>>
        BY <1>1 DEF CloseBody, SkipComment, CopyLiteral, OpenBody, EndStatement, CopyCharacter, Finish, Reading
    <2> QED BY <2>1, <2>2, ReadingWaits DEF TypeInv
<1>2. CASE Execute \/ Skip
    BY <1>2, LoopStep
<1>3. CASE UNCHANGED vars
    <2>1. UNCHANGED <<text, contract, i, dollar, buf, out, split, at, ran>>
        BY <1>3 DEF vars
    <2>2. TypeInv'
        BY <2>1 DEF TypeInv, IsText
    <2>3. Closed' = Closed
        BY <2>1, SegmentFrame DEF Closed
    <2>4. PlaceInv' /\ (buf = (IF split THEN {} ELSE Segment(i)))'
        BY <2>1, TextFrame DEF SplitInv, PlaceInv, Segment, Cuts, Dropped
    <2>5. (\A n \in 1..Len(out) : ~Blanks(out[n]) /\ \E e \in Closed : out[n] = Segment(e))'
        BY <2>1, <2>3, SegmentFrame DEF SplitInv, OutInv, Blanks
    <2>6. (\A e \in Closed : Blanks(Segment(e)) \/ \E n \in 1..Len(out) : out[n] = Segment(e))'
        BY <2>1, <2>3, SegmentFrame DEF SplitInv, OutInv, Blanks
    <2>7. \A s : Kept(s)' <=> Kept(s)
        BY <2>1 DEF Kept, StartsWithHeader, TransactionControl, Blanks
    <2>8. Ordered(out)' /\ Ordered(ran)'
        BY <2>1 DEF SplitInv, OutInv, RanInv, Ordered
    <2>9. RanInv'
        BY <2>1, <2>7, <2>8 DEF RanInv
    <2> QED BY <2>2, <2>4, <2>5, <2>6, <2>8, <2>9 DEF SplitInv, OutInv
<1> QED BY <1>1, <1>2, <1>3 DEF Next

LEMMA Invariance == Spec => []IInv
BY InitHolds, NextHolds, PTL DEF Spec

----------------------------------------------------------------------------
(* Each variable keeps its type; a statement is never empty and lies before *)
(* the splitter's position (split_statements), and only statements that     *)
(* were split off are executed (apply_file).                                *)
THEOREM TypeCorrect == Spec => []TypeOK
<1>1. IInv => TypeOK
    <2> SUFFICES ASSUME IInv PROVE TypeOK
        OBVIOUS
    <2>0. /\ Len(text) \in Nat /\ IsText /\ i \in 1..Len(text) + 1 /\ split \in BOOLEAN
          /\ out \in Seq(SUBSET Nat) /\ ran \in Seq(SUBSET Nat) /\ DOMAIN out = 1..Len(out) /\ DOMAIN ran = 1..Len(ran)
          /\ Len(out) \in Nat /\ Len(ran) \in Nat /\ at \in 0..Len(out)
        BY TextTypes, LenProperties DEF IInv, TypeInv, RanInv
    <2>1. \A e \in 1..i : Segment(e) \subseteq 1..i - 1
        BY <2>0 DEF Segment
    <2>2. buf \subseteq 1..i - 1
        <3>1. i \in 1..i
            BY <2>0
        <3> QED BY <2>1, <3>1 DEF IInv, SplitInv
    <2>3. \A n \in 1..Len(out) : out[n] \subseteq 1..i - 1 /\ out[n] # {}
        <3>1. TAKE n \in 1..Len(out)
        <3>2. PICK e \in Closed : out[n] = Segment(e)
            BY DEF IInv, SplitInv, OutInv
        <3>3. e \in 1..i
            <4>1. Closed \subseteq 1..i
                BY <2>0 DEF Closed
            <4> QED BY <4>1
        <3>4. ~Blanks(out[n])
            BY DEF IInv, SplitInv, OutInv
        <3>5. out[n] # {}
            BY <3>4 DEF Blanks
        <3> QED BY <2>1, <3>2, <3>3, <3>5
    <2>4. \A n \in 1..Len(ran) : \E m \in 1..Len(out) : ran[n] = out[m]
        <3>1. 1..at \subseteq 1..Len(out)
            BY <2>0
        <3> QED BY <3>1 DEF IInv, RanInv
    <2>5. \A s \in Range(out) : s \subseteq 1..i - 1 /\ s # {}
        BY <2>0, <2>3 DEF Range
    <2>6. Range(ran) \subseteq Range(out)
        BY <2>0, <2>4 DEF Range
    <2> QED BY <2>0, <2>2, <2>5, <2>6 DEF TypeOK, IInv, TypeInv, IsText
<1> QED BY <1>1, Invariance, PTL

----------------------------------------------------------------------------
(* When the runner is done *)

(* It has executed the segments before the ends that are not blank and not  *)
(* left out.                                                                *)
LEMMA WhatRan ==
    ASSUME IInv, Done
    PROVE  /\ IsText /\ Len(text) \in Nat /\ ~contract
           /\ \A s : s \in Range(ran) <=>
                \E e \in 1..Len(text) + 1 : Cuts(e) /\ s = Segment(e) /\ ~Blanks(s) /\ Kept(s)
<1>0. /\ split /\ at = Len(out) /\ i = Len(text) + 1 /\ IsText /\ ~contract /\ Len(text) \in Nat
      /\ DOMAIN ran = 1..Len(ran) /\ \A e : e \in Closed <=> e \in 1..Len(text) + 1 /\ Cuts(e)
    BY TextTypes, LenProperties DEF Done, IInv, TypeInv, Closed
<1>1. \A s : s \in Range(ran) <=> \E n \in 1..Len(ran) : s = ran[n]
    BY <1>0 DEF Range
<1>2. ASSUME NEW n \in 1..Len(ran)
      PROVE  \E e \in 1..Len(text) + 1 : Cuts(e) /\ ran[n] = Segment(e) /\ ~Blanks(ran[n]) /\ Kept(ran[n])
    <2>1. PICK m \in 1..Len(out) : ran[n] = out[m] /\ Kept(out[m])
        BY <1>0 DEF IInv, RanInv
    <2> QED BY <1>0, <2>1 DEF IInv, SplitInv, OutInv
<1>3. ASSUME NEW e \in 1..Len(text) + 1, Cuts(e), ~Blanks(Segment(e)), Kept(Segment(e))
      PROVE  \E n \in 1..Len(ran) : ran[n] = Segment(e)
    <2>1. PICK m \in 1..Len(out) : out[m] = Segment(e)
        BY <1>0, <1>3 DEF IInv, SplitInv, OutInv
    <2> QED BY <1>0, <1>3, <2>1 DEF IInv, RanInv
<1> QED BY <1>0, <1>1, <1>2, <1>3

(* A segment with what PostgreSQL finds there. *)
LEMMA SegmentIsStatement ==
    ASSUME IsText, Familiar, NEW e \in 1..Len(text) + 1
    PROVE  /\ UpTo(e) = Segment(e) \cap Meaning
           /\ Blanks(Segment(e)) <=> UpTo(e) = {}
           /\ TransactionControl(Segment(e)) <=> \E k \in UpTo(e) : UpTo(e) = {k} /\ text[k] = "BEGIN"
<1>0. /\ Len(text) \in Nat /\ Meaning = Says
      /\ \A f \in 1..Len(text) + 1 : Ends(f) <=> Cuts(f)
    BY TextTypes, Agreement
<1>1. UpTo(e) = Segment(e) \cap Meaning
    <2>1. ASSUME NEW k \in 1..Len(text), k < e
          PROVE  (\A f \in k..e - 1 : ~Ends(f)) <=> (\A f \in k..e - 1 : ~Cuts(f))
        <3>1. k..e - 1 \subseteq 1..Len(text) + 1
            BY <1>0, <2>1
        <3> QED BY <1>0, <3>1
    <2>2. Says \subseteq 1..Len(text) /\ \A k \in Says : ~Dropped(k)
        BY DEF Says
    <2> QED BY <1>0, <2>1, <2>2 DEF UpTo, Segment
<1>2. \A k \in Segment(e) : text[k] \notin Blank => k \in UpTo(e)
    BY <1>0, <1>1, SegmentMeaning
<1>3. \A k \in UpTo(e) : text[k] \in Blank =>
        \E j \in UpTo(e) : text[j] # "BEGIN" /\ text[j] \notin Blank
    <2>1. TAKE k \in UpTo(e)
    <2>2. HAVE text[k] \in Blank
    <2>3. PICK j \in Segment(e) : text[j] \in Tags \cup {"'"}
        BY <1>0, <1>1, <2>2, SegmentMeaning
    <2>4. text[j] \notin Blank /\ text[j] # "BEGIN"
        BY <2>3, QuoteTokens DEF Words
    <2> QED BY <1>2, <2>4
<1>4. Blanks(Segment(e)) <=> UpTo(e) = {}
    BY <1>1, <1>2, <1>3 DEF Blanks
<1>5. ASSUME TransactionControl(Segment(e))
      PROVE  \E k \in UpTo(e) : UpTo(e) = {k} /\ text[k] = "BEGIN"
    <2>1. PICK k \in Segment(e) : text[k] = "BEGIN" /\ Blanks(Segment(e) \ {k})
        BY <1>5 DEF TransactionControl
    <2>2. k \in UpTo(e)
        BY <1>2, <2>1 DEF Blank
    <2>3. ASSUME NEW j \in UpTo(e), j # k PROVE FALSE
        <3>1. text[j] \in Blank
            BY <1>1, <2>1, <2>3 DEF Blanks
        <3>2. PICK q \in UpTo(e) : text[q] # "BEGIN" /\ text[q] \notin Blank
            BY <1>3, <3>1
        <3> QED BY <1>1, <2>1, <3>2 DEF Blanks
    <2> QED BY <2>1, <2>2, <2>3
<1>6. ASSUME NEW k \in UpTo(e), UpTo(e) = {k}, text[k] = "BEGIN"
      PROVE  TransactionControl(Segment(e))
    BY <1>1, <1>2, <1>6 DEF TransactionControl, Blanks
<1> QED BY <1>1, <1>4, <1>5, <1>6

(* Only comments lie between two neighbours of a segment, and the first of  *)
(* them follows a blank.                                                    *)
LEMMA GapAfterBlank ==
    ASSUME IsText, CommentsStandApart, NEW e \in 1..Len(text) + 1,
           NEW k \in Segment(e), NEW m \in Following(Segment(e), k), m # k + 1
    PROVE  text[k] \in Blank
<1>0. /\ Len(text) \in Nat /\ k \in 1..Len(text) /\ m \in 1..Len(text) /\ k < m /\ m < e
      /\ ~Dropped(k) /\ \A f \in k..e - 1 : ~Cuts(f)
    BY TextTypes DEF Segment, Following
<1>1. k + 1 \in 1..Len(text) /\ k + 1 < m /\ k + 1 < e /\ (k + 1) - 1 = k /\ k \in k..e - 1
    BY <1>0
<1>2. k + 1 \notin Segment(e)
    BY <1>0, <1>1 DEF Following
<1>3. Dropped(k + 1)
    <2>1. \A f \in k + 1..e - 1 : ~Cuts(f)
        BY <1>0
    <2> QED BY <1>1, <1>2, <2>1 DEF Segment
<1>4. Seen[k + 1] = Sees(Seen[k], text[k]) /\ Seen[k] # "comment"
    BY <1>0, SeenProperties DEF Dropped
<1>5. Seen[k + 1] # "comment" /\ text[k + 1] \in CommentStart
    <2>1. Seen[k + 1] # "comment"
        BY <1>0, <1>4, QuoteTokens DEF Sees, After, Known, Dropped
    <2> QED BY <1>3, <2>1 DEF Dropped
<1>6. text[k] \in Blank \cup CommentStart \cup {";"}
    <2>1. k + 1 \in 2..Len(text)
        BY <1>0, <1>1
    <2> QED BY <1>1, <1>5, <2>1 DEF CommentsStandApart
<1>7. CASE Seen[k] = "plain"
    BY <1>0, <1>1, <1>6, <1>7 DEF Dropped, Cuts
<1>8. CASE Seen[k] # "plain"
    <2>1. Seen[k] \in Tags \cup {"'"}
        <3>1. k \in 1..Len(text) + 1
            BY <1>0
        <3>2. Seen[k] \in Known \cup {"plain", "comment"}
            BY <3>1, SeenProperties
        <3> QED BY <1>4, <1>8, <3>2 DEF Known
    <2>2. Seen[k + 1] = "plain"
        BY <1>3, <1>5 DEF Dropped
    <2>3. text[k] = Seen[k]
        BY <1>4, <1>8, <2>2 DEF Sees, After, Known
    <2> QED BY <1>6, <2>1, <2>3, QuoteTokens
<1> QED BY <1>7, <1>8

(* split_statements() and apply_file() execute the statements PostgreSQL    *)
(* finds in a file whose quotes the splitter knows, each as written and in  *)
(* order, and leave out only the file's BEGIN and COMMIT, for files of any  *)
(* length; no words are joined where each comment follows a blank.          *)
THEOREM FileRunsAsWritten == Spec => []RunsWhatIsWritten
<1>1. IInv => RunsWhatIsWritten
    <2> SUFFICES ASSUME IInv, Done, Familiar PROVE RunsWhatIsWritten
        BY DEF RunsWhatIsWritten
    <2> DEFINE control(s) == \E k \in s : s = {k} /\ text[k] = "BEGIN"
    <2>0. /\ IsText /\ Len(text) \in Nat
          /\ \A e \in 1..Len(text) + 1 : Ends(e) <=> Cuts(e)
        BY WhatRan, Agreement
    <2>1. \A s : s \in Range(ran) <=>
                \E e \in 1..Len(text) + 1 : Cuts(e) /\ s = Segment(e) /\ ~Blanks(s) /\ Kept(s)
        BY WhatRan
    <2>2. \A e \in 1..Len(text) + 1 :
            /\ UpTo(e) = Segment(e) \cap Meaning
            /\ Blanks(Segment(e)) <=> UpTo(e) = {}
            /\ Kept(Segment(e)) <=> StartsWithHeader \/ ~control(UpTo(e))
        BY <2>0, SegmentIsStatement DEF Kept
    <2>3. {s \cap Meaning : s \in Range(ran)} = {s \in Statements : StartsWithHeader \/ ~control(s)}
        <3> HIDE DEF control
        <3>1. ASSUME NEW s \in Range(ran)
              PROVE  s \cap Meaning \in Statements /\ (StartsWithHeader \/ ~control(s \cap Meaning))
            <4>1. PICK e \in 1..Len(text) + 1 : Cuts(e) /\ s = Segment(e) /\ ~Blanks(s) /\ Kept(s)
                BY <2>1
            <4>2. s \cap Meaning = UpTo(e) /\ UpTo(e) # {} /\ (StartsWithHeader \/ ~control(UpTo(e)))
                BY <2>2, <4>1
            <4> QED BY <2>0, <4>1, <4>2 DEF Statements
        <3>2. ASSUME NEW t \in Statements, StartsWithHeader \/ ~control(t)
              PROVE  \E s \in Range(ran) : t = s \cap Meaning
            <4>1. PICK e \in 1..Len(text) + 1 : Cuts(e) /\ t = UpTo(e) /\ t # {}
                BY <2>0 DEF Statements
            <4>2. ~Blanks(Segment(e)) /\ Kept(Segment(e)) /\ t = Segment(e) \cap Meaning
                BY <2>2, <3>2, <4>1
            <4> QED BY <2>1, <4>1, <4>2
        <3> QED BY <3>1, <3>2
    <2>4. \A m, n \in 1..Len(ran) : m < n => \A j \in ran[m], k \in ran[n] : j < k
        BY DEF IInv, RanInv, Ordered
    <2>5. CommentsStandApart => \A s \in Range(ran) : Apart(s)
        BY <2>0, <2>1, GapAfterBlank DEF Apart
    <2> QED BY <2>3, <2>4, <2>5 DEF RunsWhatIsWritten
<1> QED BY <1>1, Invariance, PTL

----------------------------------------------------------------------------
(* What the lint removes *)

(* Outside of quotes a `--` makes a comment of the rest of its line.        *)
LEMMA LineIsComment ==
    ASSUME IsText, NEW c \in 1..Len(text), text[c] \in CommentStart, ~Inside(c),
           NEW k \in c..Len(text), \A j \in c..k : text[j] # "nl"
    PROVE  Dropped(k)
<1>0. Len(text) \in Nat
    BY TextTypes
<1>1. CASE k = c
    BY <1>1 DEF Dropped, Inside
<1>2. CASE k # c
    <2>1. Seen[c + 1] = Sees(Seen[c], text[c]) /\ text[c] # "nl"
        BY <1>0, SeenProperties
    <2>2. Seen[c + 1] = "comment"
        BY <2>1 DEF Sees, After, Known, Inside
    <2>3. c + 1 \in 1..Len(text) + 1 /\ k \in c + 1..Len(text) + 1 /\ c + 1..k - 1 \subseteq c..k /\ k \in c + 1..k
        BY <1>0, <1>2
    <2>4. \A j \in c + 1..k - 1 : Sees("comment", text[j]) = "comment"
        BY <2>3 DEF Sees, After, Known
    <2>5. Seen[k] = "comment"
        BY <2>2, <2>3, <2>4, SeenStays
    <2> QED BY <2>5 DEF Dropped
<1> QED BY <1>1, <1>2

(* What is read and is neither blank nor BEGIN is executed.                 *)
LEMMA WordsRun ==
    ASSUME IInv, Done, NEW k \in 1..Len(text), ~Dropped(k), ~Cuts(k),
           text[k] \notin Blank, text[k] # "BEGIN"
    PROVE  \E s \in Range(ran) : k \in s
<1>0. /\ IsText /\ Len(text) \in Nat
      /\ \A s : s \in Range(ran) <=>
            \E e \in 1..Len(text) + 1 : Cuts(e) /\ s = Segment(e) /\ ~Blanks(s) /\ Kept(s)
    BY WhatRan
<1> DEFINE I == {e \in k..Len(text) + 1 : Cuts(e)}
<1>1. PICK e \in I : \A y \in I : e <= y
    <2>1. Cuts(Len(text) + 1)
        <3>1. Len(text) + 1 > Len(text)
            BY <1>0
        <3> QED BY <3>1 DEF Cuts
    <2>2. I \in SUBSET Nat /\ Len(text) + 1 \in I
        BY <1>0, <2>1
    <2> HIDE DEF I
    <2> QED BY <2>2, LeastPosition
<1>2. e \in 1..Len(text) + 1 /\ Cuts(e) /\ k < e
    <2>1. e # k
        BY <1>1
    <2> QED BY <1>0, <1>1, <2>1
<1>3. \A f \in k..e - 1 : ~Cuts(f)
    <2>1. TAKE f \in k..e - 1
    <2>2. f \in k..Len(text) + 1 /\ ~(e <= f)
        BY <1>0, <1>2
    <2> QED BY <1>1, <2>2
<1>4. k \in Segment(e)
    BY <1>2, <1>3 DEF Segment
<1>5. ~Blanks(Segment(e)) /\ Kept(Segment(e))
    BY <1>4 DEF Blanks, Kept, TransactionControl
<1> QED BY <1>0, <1>2, <1>4, <1>5

(* So of what the splitter reads, the lint misses only what is hidden.      *)
LEMMA MissedIsHidden ==
    ASSUME IInv, Done, NEW k \in 1..Len(text), ~Dropped(k), text[k] \notin CommentStart, k \notin StripComments
    PROVE  Hidden(k)
<1>0. IsText /\ Len(text) \in Nat
    BY WhatRan
<1>1. PICK c \in 1..k : text[c] \in CommentStart /\ \A j \in c..k : text[j] # "nl"
    BY DEF StripComments
<1>2. c \in 1..Len(text) /\ k \in c..Len(text) /\ c # k
    BY <1>0, <1>1
<1>3. Inside(c)
    BY <1>0, <1>1, <1>2, LineIsComment
<1>4. ~Dropped(c) /\ ~Cuts(c)
    <2>1. ~(c > Len(text))
        BY <1>0, <1>2
    <2> QED BY <1>3, <2>1 DEF Inside, Dropped, Cuts
<1>5. text[c] \notin Blank /\ text[c] # "BEGIN"
    BY <1>1, CommentTokens DEF Blank
<1>6. c < k
    BY <1>0, <1>2
<1>7. \E s \in Range(ran) : c \in s
    BY <1>2, <1>4, <1>5, WordsRun
<1> QED BY <1>1, <1>6, <1>7 DEF Hidden

(* And what it sees is read, but for the ends of lines. *)
LEMMA SeenIsRead ==
    ASSUME IsText, NEW k \in StripComments, text[k] # "nl"
    PROVE  k \in 1..Len(text) /\ ~Dropped(k)
<1>0. Len(text) \in Nat /\ k \in 1..Len(text)
    BY TextTypes DEF StripComments
<1>1. ASSUME NEW c \in 1..k, text[c] \in CommentStart, \A j \in c..k : text[j] # "nl"
      PROVE  FALSE
    BY <1>1 DEF StripComments
<1>2. ASSUME Seen[k] = "comment" PROVE FALSE
    <2>1. PICK c \in 1..k - 1 : /\ Seen[c] = "plain" /\ Sees("plain", text[c]) = "comment"
                                /\ \A j \in c + 1..k : Seen[j] = "comment"
        <3>1. k \in 1..Len(text) + 1
            BY <1>0
        <3> QED BY <1>2, <3>1, SeenEntered
    <2>2. text[c] \in CommentStart
        BY <2>1, QuoteTokens DEF Sees, After, Known
    <2>3. ASSUME NEW j \in c..k PROVE text[j] # "nl"
        <3>1. CASE j = c
            BY <2>2, <3>1, CommentTokens
        <3>2. CASE j # c /\ j # k
            <4>1. j \in c + 1..k /\ j + 1 \in c + 1..k /\ j \in 1..Len(text)
                BY <1>0, <3>2
            <4>2. Seen[j] = "comment" /\ Seen[j + 1] = "comment" /\ Seen[j + 1] = Sees(Seen[j], text[j])
                BY <2>1, <4>1, SeenProperties
            <4> QED BY <4>2 DEF Sees, After, Known
        <3> QED BY <3>1, <3>2
    <2>4. c \in 1..k
        BY <1>0
    <2> QED BY <1>1, <2>2, <2>3, <2>4
<1>3. text[k] \notin CommentStart
    <2>1. k \in 1..k /\ k..k = {k}
        BY <1>0
    <2> QED BY <1>1, <2>1
<1> QED BY <1>0, <1>2, <1>3 DEF Dropped

(* The rules of a file without errors. *)
LEMMA NoErrors ==
    ASSUME ~contract, Errors = {}
    PROVE  /\ \A rule \in Rules : Allowed(rule) \/ ~Matches(StripComments, rule)
           /\ Allowed("baseline") \/ \E k \in StripComments : text[k] = "lock_timeout"
           /\ StartsWithHeader \/ \A k \in StripComments : text[k] # "concurrently"
BY DEF Errors, HeaderFound

(* ADD COLUMN with NOT NULL in a statement, where the lint looks.           *)
Rewriting(s, k) ==
    /\ text[k] = "add column"
    /\ \E m \in s : /\ k < m /\ text[m] = "not null" /\ ~Hidden(m)
                    /\ \A j \in s : k < j /\ j < m => text[j] # ";"

(* It is an error: what the lint sees between the two is in the statement.  *)
LEMMA RewritingIsSeen ==
    ASSUME IInv, Done, NEW e \in 1..Len(text) + 1, NEW k \in Segment(e),
           Rewriting(Segment(e), k), k \in StripComments
    PROVE  Matches(StripComments, "rewriting")
<1>0. IsText /\ Len(text) \in Nat
    BY WhatRan
<1>1. PICK m \in Segment(e) : /\ k < m /\ text[m] = "not null" /\ ~Hidden(m)
                               /\ \A j \in Segment(e) : k < j /\ j < m => text[j] # ";"
    BY DEF Rewriting
<1>2. /\ k \in 1..Len(text) /\ m \in 1..Len(text) /\ m < e /\ ~Dropped(m)
      /\ \A f \in k..e - 1 : ~Cuts(f)
    BY DEF Segment
<1>3. m \in StripComments
    BY <1>1, <1>2, MissedIsHidden, CommentTokens
<1>4. ASSUME NEW j \in StripComments, k < j, j < m, text[j] = ";"
      PROVE  FALSE
    <2>1. j \in 1..Len(text) /\ ~Dropped(j)
        BY <1>0, <1>4, SeenIsRead
    <2>2. j < e /\ j..e - 1 \subseteq k..e - 1
        <3>1. e \in Int
            BY <1>0
        <3>2. k \in Int /\ m \in Int /\ j \in Int /\ m < e
            BY <1>0, <1>2, <2>1
        <3>3. k < j /\ j < m
            BY <1>4
        <3> QED BY <3>1, <3>2, <3>3
    <2>3. j \in Segment(e)
        BY <1>2, <2>1, <2>2 DEF Segment
    <2> QED BY <1>1, <1>4, <2>3
<1> QED BY <1>1, <1>3, <1>4 DEF Rewriting, Matches

(* CREATE INDEX without CONCURRENTLY in a statement. *)
Blocking(s, k) ==
    /\ text[k] = "create index" /\ k + 1 \in s /\ text[k + 1] \in Blank
    /\ \A m \in Following({j \in s : text[j] \notin Blank}, k) : text[m] # "concurrently"

(* CREATE INDEX that blocks writers, where the lint looks, is an error.     *)
LEMMA BlockingIsSeen ==
    ASSUME IsText, NEW e \in 1..Len(text) + 1, Cuts(e), NEW k \in 1..Len(text), k \in Segment(e),
           Blocking(Segment(e), k), k \in StripComments
    PROVE  Matches(StripComments, "blocking")
<1> DEFINE sql == StripComments
<1>0. Len(text) \in Nat
    BY TextTypes
<1>1. k + 1 \in 1..Len(text) /\ k + 1 < e
    BY DEF Blocking, Segment
<1>2. ~Dropped(k + 1) /\ \A f \in k..e - 1 : ~Cuts(f)
    BY DEF Blocking, Segment
<1>3. text[k + 1] \in Blank /\ text[k + 1] \notin CommentStart
    BY CommentTokens DEF Blocking, Blank
<1>4. sql \subseteq 1..Len(text)
    BY DEF StripComments
<1>5. \A j \in 1..Len(text) : j \notin sql <=> \E c \in 1..j : text[c] \in CommentStart /\ \A q \in c..j : text[q] # "nl"
    BY DEF StripComments
<1>6. k + 1 \in sql
    <2>1. ASSUME NEW c \in 1..k + 1, text[c] \in CommentStart, \A q \in c..k + 1 : text[q] # "nl" PROVE FALSE
        <3>1. c # k + 1
            BY <1>3, <2>1
        <3>2. c \in 1..k /\ c..k \subseteq c..k + 1
            BY <1>0, <3>1
        <3> QED BY <1>5, <2>1, <3>2
    <2> QED BY <1>1, <1>5, <2>1
<1> HIDE DEF sql
<1>7. k + 1 \in Following(sql, k)
    <2>1. k < k + 1 /\ \A j \in 1..Len(text) : k < j => k + 1 <= j
        BY <1>0
    <2> QED BY <1>4, <1>6, <2>1 DEF Following
<1>8. ASSUME NEW m \in 1..Len(text), m \in Following(sql, k + 1), text[m] = "concurrently" PROVE FALSE
    <2>1. m \in sql /\ k + 1 < m /\ \A j \in sql : k + 1 < j => m <= j
        BY <1>8 DEF Following
    <2>2. CASE m # k + 2
        <3>1. m - 1 \in 1..Len(text) /\ k + 1 < m - 1 /\ ~(m <= m - 1)
            BY <1>0, <2>1, <2>2
        <3>2. PICK c \in 1..m - 1 : text[c] \in CommentStart /\ \A q \in c..m - 1 : text[q] # "nl"
            BY <1>5, <2>1, <3>1
        <3>3. ASSUME NEW q \in c..m PROVE text[q] # "nl"
            <4>1. q \in c..m - 1 \/ q = m
                BY <1>0
            <4> QED BY <1>8, <3>2, <4>1
        <3>4. c \in 1..m
            BY <1>0
        <3> QED BY <1>5, <2>1, <3>2, <3>3, <3>4
    <2>3. CASE m = k + 2
        <3>1. k + 2 \in 1..Len(text) /\ (k + 1) + 1 = k + 2 /\ ~(k + 2 > Len(text))
            BY <1>0, <2>3
        <3>2. text[k + 2] \notin Blank /\ text[k + 2] # ";" /\ text[k + 2] \notin CommentStart
            BY <1>8, <2>3, CommentTokens DEF Blank
        <3>3. ~Cuts(k + 2)
            BY <3>1, <3>2 DEF Cuts
        <3>4. k + 2 < e
            <4>1. e # k + 2
                BY <3>3
            <4> QED BY <1>0, <1>1, <4>1
        <3>5. Seen[k + 2] = Sees(Seen[k + 1], text[k + 1]) /\ Seen[k + 1] # "comment"
            BY <1>1, <1>2, <3>1, SeenProperties DEF Dropped
        <3>6. Seen[k + 2] # "comment"
            BY <1>3, <3>5, QuoteTokens DEF Sees, After, Known
        <3>7. ~Dropped(k + 2)
            BY <3>2, <3>6 DEF Dropped
        <3>8. k + 2 \in Segment(e)
            <4>1. k + 2..e - 1 \subseteq k..e - 1
                BY <1>0
            <4> QED BY <1>2, <3>1, <3>4, <3>7, <4>1 DEF Segment
        <3>9. k + 2 \in Following({j \in Segment(e) : text[j] \notin Blank}, k)
            <4>1. ASSUME NEW j \in 1..Len(text), text[j] \notin Blank, k < j PROVE k + 2 <= j
                <5>1. j # k + 1
                    BY <1>3, <4>1
                <5> QED BY <1>0, <4>1, <5>1
            <4>2. k < k + 2 /\ Segment(e) \subseteq 1..Len(text)
                BY <1>0 DEF Segment
            <4> QED BY <3>2, <3>8, <4>1, <4>2 DEF Following
        <3> QED BY <1>8, <2>3, <3>9 DEF Blocking
    <2> QED BY <2>2, <2>3
<1>9. Following(sql, k + 1) \subseteq 1..Len(text)
    BY <1>4 DEF Following
<1> QED BY <1>7, <1>8, <1>9 DEF Matches, Blocking, sql

(* lint_migrations.py: a file it passes does nothing destructive, rewrites  *)
(* no table and locks out no writers when it is run, unless it asks to by   *)
(* lint:allow or hides it, and it sets lock_timeout, unless it is the       *)
(* baseline; for files of any length.                                       *)
THEOREM LintIsRight == Spec => []LintSeesWhatRuns
<1>1. IInv => LintSeesWhatRuns
    <2> SUFFICES ASSUME IInv, Done, Errors = {} PROVE LintSeesWhatRuns
        BY DEF LintSeesWhatRuns
    <2>0. IsText /\ Len(text) \in Nat /\ ~contract
        BY WhatRan
    <2>1. \A s : s \in Range(ran) <=>
                \E e \in 1..Len(text) + 1 : Cuts(e) /\ s = Segment(e) /\ ~Blanks(s) /\ Kept(s)
        BY WhatRan
    <2>2. ASSUME NEW s \in Range(ran), NEW k \in s, ~Hidden(k)
          PROVE  /\ text[k] = "drop" => Allowed("destructive")
                 /\ Rewriting(s, k) => Allowed("rewriting")
                 /\ Blocking(s, k) => Allowed("blocking")
        <3>1. PICK e \in 1..Len(text) + 1 : Cuts(e) /\ s = Segment(e)
            BY <2>1
        <3>2. k \in Segment(e) /\ k \in 1..Len(text) /\ ~Dropped(k)
            BY <3>1 DEF Segment
        <3>3. text[k] \notin CommentStart => k \in StripComments
            BY <2>2, <3>2, MissedIsHidden
        <3>4. CASE text[k] = "drop"
            <4>1. Matches(StripComments, "destructive")
                BY <3>3, <3>4, CommentTokens DEF Matches
            <4> QED BY <2>0, <3>4, <4>1, NoErrors DEF Rules, Rewriting, Blocking
        <3>5. CASE Rewriting(s, k)
            <4>1. text[k] = "add column"
                BY <3>5 DEF Rewriting
            <4>2. k \in StripComments
                BY <3>3, <4>1, CommentTokens
            <4>3. Matches(StripComments, "rewriting")
                BY <3>1, <3>2, <3>5, <4>2, RewritingIsSeen
            <4> QED BY <2>0, <4>1, <4>3, NoErrors DEF Rules, Blocking
        <3>6. CASE Blocking(s, k)
            <4>1. text[k] = "create index"
                BY <3>6 DEF Blocking
            <4>2. k \in StripComments
                BY <3>3, <4>1, CommentTokens
            <4>3. Matches(StripComments, "blocking")
                BY <2>0, <3>1, <3>2, <3>6, <4>2, BlockingIsSeen
            <4> QED BY <2>0, <4>1, <4>3, NoErrors DEF Rules, Rewriting
        <3> QED BY <3>4, <3>5, <3>6
    <2>3. Allowed("baseline") \/ \E s \in Range(ran) : \E k \in s : text[k] = "lock_timeout"
        <3> SUFFICES ASSUME ~Allowed("baseline")
                     PROVE  \E s \in Range(ran) : \E k \in s : text[k] = "lock_timeout"
            OBVIOUS
        <3>1. PICK k \in StripComments : text[k] = "lock_timeout"
            BY <2>0, NoErrors
        <3>2. k \in 1..Len(text) /\ ~Dropped(k) /\ ~(k > Len(text))
            BY <2>0, <3>1, SeenIsRead
        <3>3. ~Cuts(k) /\ text[k] \notin Blank /\ text[k] # "BEGIN"
            BY <3>1, <3>2 DEF Cuts, Blank
        <3> QED BY <3>1, <3>2, <3>3, WordsRun
    <2> QED BY <2>2, <2>3 DEF LintSeesWhatRuns, Blocking, Rewriting
<1> QED BY <1>1, Invariance, PTL

(* migrate.py runs a file without the header in a transaction, where        *)
(* CONCURRENTLY fails; the lint lets no such file pass, of any length,      *)
(* unless a `--` that is executed hides the word.                           *)
THEOREM ConcurrentlyHasHeader == Spec => []ConcurrentlyOutsideTransaction
<1>1. IInv => ConcurrentlyOutsideTransaction
    <2> SUFFICES ASSUME IInv, Done, Errors = {}, ~StartsWithHeader,
                        NEW s \in Range(ran), NEW k \in s, text[k] = "concurrently"
                 PROVE  Hidden(k)
        BY DEF ConcurrentlyOutsideTransaction
    <2>1. IsText /\ ~contract /\ \E e \in 1..Len(text) + 1 : s = Segment(e)
        BY WhatRan
    <2>2. k \in 1..Len(text) /\ ~Dropped(k)
        BY <2>1 DEF Segment
    <2>3. k \notin StripComments /\ text[k] \notin CommentStart
        BY <2>1, NoErrors, CommentTokens
    <2> QED BY <2>2, <2>3, MissedIsHidden
<1> QED BY <1>1, Invariance, PTL
=============================================================================
