----------------------- MODULE WorkflowInstanceProofs -----------------------
(***************************************************************************)
(* The safety properties of WorkflowInstance, for any branches, waits,      *)
(* callers, workers and faults.                                             *)
(*                                                                          *)
(* The inductive invariant has a part for each question a property asks:    *)
(* where the tokens are and what their handlers are about (PlaceInv), what  *)
(* cannot have happened before the fork was left (YoungInv), what a read    *)
(* still says of a token nobody else wrote (ReadInv), which waits a token   *)
(* has behind it (HonourInv), what the join and a failed branch leave       *)
(* (JoinInv, FailInv), how many completed rows a task has (AnswerInv), and  *)
(* who has the work that has begun (WorkInv).                               *)
(***************************************************************************)
EXTENDS WorkflowInstance, FiniteSetTheorems, SequenceTheorems, TLAPS

-----------------------------------------------------------------------------
(* The invariant *)

\* Where a branch may be, and where its cursor stands when it is over.
Lane(b) == {Fork, Join} \cup {<<b, k>> : k \in 1..Len(Waits[b])}
Placed(row) == \A b \in Branches : /\ row[b].at \in Lane(b)
                                   /\ row[b].status = "COMPLETED" => row[b].at = Join

\* What a handler is about, from the step it is at.
Engaged(h) ==
    /\ hs[h].pc \in {"submit", "reassign"} =>
          Slot(h) \in Slots /\ hs[h].row \in DOMAIN tasks[Slot(h)]
    /\ hs[h].pc = "submit" => hs[h].seen \in Open
    /\ hs[h].pc \in {"answered", "wake", "release", "advance"} => Slot(h) \in happened
    /\ hs[h].pc = "answered" => hs[h].row # 0
    /\ hs[h].pc = "wake" => hs[h].tok # Root
    /\ hs[h].pc \in {"release", "advance", "cancel"} => hs[h].tok = Root
    /\ hs[h].pc \in {"release", "advance"} => hs[h].from \notin {Start, End}
    /\ hs[h].pc = "wake" /\ hs[h].row = 0 => KindOf(hs[h].at) # "task"
    /\ h \in Workers /\ hs[h].pc # "idle" => KindOf(hs[h].at) = "timer"
TimersOnly == \A s \in Slots : timers[s] > 0 => KindOf(s[2]) = "timer"
PlaceInv == Placed(br) /\ TimersOnly /\ \A h \in Handlers : Engaged(h)

\* The root token has no wait before the fork is left, so nobody is about one.
Young == inst.at \in {Start, Fork}
Untouched(w) == tasks[<<Root, w>>] = <<>> /\ timers[<<Root, w>>] = 0 /\ <<Root, w>> \notin happened
Unengaged(h) == hs[h].tok = Root =>
    /\ hs[h].pc \notin {"submit", "reassign", "answered", "release", "advance"}
    /\ h \in Workers => hs[h].pc = "idle"
YoungInv ==
    /\ inst.status = "FORKED" => inst.at = Fork /\ joined = 0
    /\ inst.at = Start => joined = 0
    /\ Young => (\A w \in Rests : Untouched(w)) /\ (\A h \in Handlers : Unengaged(h))

Sound == TypeOK /\ PlaceInv /\ YoungInv

\* What a handler read still holds, or somebody wrote the token since.
StillSo(h) ==
    /\ hs[h].pc = "wake" /\ hs[h].tok \notin stale =>
          br[hs[h].tok].status = "PAUSED" /\ br[hs[h].tok].at = hs[h].at
    /\ hs[h].pc \in {"release", "advance"} /\ Root \notin stale =>
          inst.at = hs[h].from /\ inst.at = hs[h].at
    /\ hs[h].pc = "cancel" /\ Root \notin stale => inst.status \in {"RUNNING", "PAUSED"}
ReadInv ==
    /\ \A h \in Handlers : StillSo(h)
    /\ inst.status = "COMPLETED" /\ Root \notin stale => inst.at = End

\* An active branch at a wait has had the event of that wait too.
HonourInv ==
    /\ WaitsHonoured
    /\ \A b \in Branches \ stale : br[b].status = "ACTIVE" /\ br[b].at \in Rests => <<b, br[b].at>> \in happened

\* The fork is left by the join, unless a failed run was driven on from it.
JoinInv ==
    /\ joined \in {0, 1}
    /\ joined = 1 => \A b \in Branches \ stale : Before(b, Join) \subseteq happened
    /\ ~Young => joined = 1 \/ revived \/ Root \in stale
    /\ inst.at = Fork /\ inst.status = "RUNNING" => revived

\* A retry of a run that failed at the fork finds it as the failure left it.
FailInv == inst.at = Fork /\ inst.status \in {"RUNNING", "FAILED"} =>
     \A b \in Branches \ stale : br[b].status \notin {"ACTIVE", "PAUSED"}

\* The completed rows of a task.
Done(s) == {i \in DOMAIN tasks[s] : tasks[s][i] = "COMPLETED"}
AnswerInv == \A s \in Slots \ reopened : answers[s] <= Cardinality(Done(s))

\* Each active branch has a driver of its own, and a run at a wait whose pause was
\* lifted has the handler that lifted it.
Answered(b) ==
    /\ inst.status = "FORKED" /\ Sleeping(b) /\ KindOf(br[b].at) = "task" /\ Last(<<b, br[b].at>>) = "COMPLETED"
    => \E h \in Handlers : Slot(h) = <<b, br[b].at>> /\ hs[h].pc \in {"answered", "wake"}
WorkInv ==
    /\ inst.status = "FORKED" => \A b \in Active(br) \ dropped : \E h \in Handlers : hs[h].pc = "drive" /\ hs[h].tok = b
    /\ inst.status = "RUNNING" /\ Root \notin dropped
         => \E h \in Handlers : hs[h].tok = Root /\ hs[h].pc \in {"advance", "drive"}
    /\ inst.status \in {"RUNNING", "FAILED"} /\ inst.at \in Rests /\ Root \notin dropped
         => \E h \in Handlers : hs[h].tok = Root /\ hs[h].pc = "advance"
    /\ \A b \in Branches \ (dropped \cup stale) : Answered(b)

-----------------------------------------------------------------------------
(* Places and slots *)

LEMMA LaneLengths ==
  ASSUME NEW lane \in Tokens
  PROVE  Len(Waits[lane]) \in Nat /\ Len(Waits[lane]) >= 1 /\ Waits[lane] \in Seq(Kinds)
  <1>1. Waits[lane] \in Seq(Kinds) /\ Waits[lane] # <<>>  BY InstanceAssumption
  <1> QED  BY <1>1, EmptySeq, LenProperties

LEMMA RestFacts ==
  ASSUME NEW w \in Rests
  PROVE  /\ w[1] \in Tokens /\ w[2] \in 1..Len(Waits[w[1]]) /\ w = <<w[1], w[2]>>
         /\ w \notin Marks /\ w \in Places /\ KindOf(w) \in Kinds
  <1>1. PICK lane \in Tokens : \E k \in 1..Len(Waits[lane]) : w = <<lane, k>>  BY DEF Rests
  <1>2. PICK k \in 1..Len(Waits[lane]) : w = <<lane, k>>  BY <1>1
  <1>3. w[1] = lane /\ w[2] = k  BY <1>2
  <1>4. Len(Waits[lane]) \in Nat /\ Waits[lane] \in Seq(Kinds)  BY LaneLengths
  <1>5. k # 0 /\ k \in Nat  BY <1>4
  <1>6. w \notin Marks  BY <1>2, <1>5 DEF Marks, Start, Fork, Join, End
  <1>7. Waits[lane][k] \in Kinds  BY <1>4, ElementOfSeq
  <1>8. KindOf(w) \in Kinds  BY <1>3, <1>7 DEF KindOf
  <1> QED  BY <1>2, <1>3, <1>6, <1>8 DEF Places

LEMMA RestIntro ==
  ASSUME NEW lane \in Tokens, NEW k \in 1..Len(Waits[lane])
  PROVE  <<lane, k>> \in Rests
  BY DEF Rests

LEMMA MarkFacts ==
  /\ Start # Fork /\ Start # Join /\ Start # End /\ Fork # Join /\ Fork # End /\ Join # End
  /\ {Start, Fork, Join, End} \subseteq Places /\ Rests \subseteq Places
  /\ Start \notin Rests /\ Fork \notin Rests /\ Join \notin Rests /\ End \notin Rests
  /\ \A p \in Places : p \in Rests \/ p \in {Start, Fork, Join, End}
  /\ \A p \in Places \ Rests : KindOf(p) = "none"
  <1>1. /\ Start # Fork /\ Start # Join /\ Start # End /\ Fork # Join /\ Fork # End /\ Join # End
    BY DEF Start, Fork, Join, End
  <1>2. Start \notin Rests /\ Fork \notin Rests /\ Join \notin Rests /\ End \notin Rests
    BY RestFacts DEF Marks
  <1> QED  BY <1>1, <1>2 DEF Places, Marks, KindOf

LEMMA TokenFacts ==
  /\ Root \in Tokens /\ Branches \subseteq Tokens /\ Root \notin Branches /\ FirstBranch \in Branches
  /\ \A t \in Tokens : t = Root \/ t \in Branches
  /\ Branches # {}
  BY InstanceAssumption DEF Tokens

\* A slot is a token and a wait of its own lane, or the root token and any wait.
LEMMA SlotFacts ==
  /\ \A s \in Slots : s[1] \in Tokens /\ s[2] \in Rests /\ s = <<s[1], s[2]>>
  /\ \A tok, w : <<tok, w>> \in Slots <=> w \in Rests /\ (tok = Root \/ tok = w[1])
  <1>1. ASSUME NEW s \in Slots
        PROVE  s[1] \in Tokens /\ s[2] \in Rests /\ s = <<s[1], s[2]>>
    <2>1. CASE s \in {<<Root, w>> : w \in Rests}
      <3>1. PICK w \in Rests : s = <<Root, w>>  BY <2>1
      <3> QED  BY <3>1, TokenFacts
    <2>2. CASE s \in {<<w[1], w>> : w \in Rests}
      <3>1. PICK w \in Rests : s = <<w[1], w>>  BY <2>2
      <3> QED  BY <3>1, RestFacts
    <2> QED  BY <2>1, <2>2 DEF Slots
  <1>2. ASSUME NEW tok, NEW w
        PROVE  <<tok, w>> \in Slots <=> w \in Rests /\ (tok = Root \/ tok = w[1])
    <2>1. ASSUME <<tok, w>> \in Slots  PROVE w \in Rests /\ (tok = Root \/ tok = w[1])
      <3>1. CASE <<tok, w>> \in {<<Root, v>> : v \in Rests}
        <4>1. PICK v \in Rests : <<tok, w>> = <<Root, v>>  BY <3>1
        <4> QED  BY <4>1
      <3>2. CASE <<tok, w>> \in {<<v[1], v>> : v \in Rests}
        <4>1. PICK v \in Rests : <<tok, w>> = <<v[1], v>>  BY <3>2
        <4> QED  BY <4>1
      <3> QED  BY <2>1, <3>1, <3>2 DEF Slots
    <2>2. ASSUME w \in Rests, tok = Root \/ tok = w[1]  PROVE <<tok, w>> \in Slots
      BY <2>2 DEF Slots
    <2> QED  BY <2>1, <2>2
  <1> QED  BY <1>1, <1>2

\* A branch only meets the waits of its own lane.
LEMMA LaneFacts ==
  ASSUME NEW b \in Branches
  PROVE  /\ Lane(b) \subseteq Places /\ Fork \in Lane(b) /\ Join \in Lane(b)
         /\ \A w \in Lane(b) : w \in Rests \/ w = Fork \/ w = Join
         /\ \A w \in Rests : w \in Lane(b) <=> w[1] = b
         /\ \A w \in Rests : w \in Lane(b) <=> <<b, w>> \in Slots
         /\ Start \notin Lane(b) /\ End \notin Lane(b)
  <1>t. b \in Tokens /\ b # Root  BY TokenFacts
  <1>1. \A k \in 1..Len(Waits[b]) : <<b, k>> \in Rests  BY <1>t, RestIntro
  <1>2. \A w \in Rests : w \in Lane(b) <=> w[1] = b
    <2> TAKE w \in Rests
    <2>1. w[2] \in 1..Len(Waits[w[1]]) /\ w = <<w[1], w[2]>> /\ w # Fork /\ w # Join
      BY RestFacts DEF Marks
    <2>2. w[1] = b => w \in Lane(b)  BY <2>1 DEF Lane
    <2>3. ASSUME w \in Lane(b)  PROVE w[1] = b
      <3>1. PICK k \in 1..Len(Waits[b]) : w = <<b, k>>  BY <2>1, <2>3 DEF Lane
      <3> QED  BY <3>1
    <2> QED  BY <2>2, <2>3
  <1>3. \A w \in Lane(b) : w \in Rests \/ w = Fork \/ w = Join  BY <1>1 DEF Lane
  <1>4. \A w \in Rests : w \in Lane(b) <=> <<b, w>> \in Slots  BY <1>t, <1>2, SlotFacts
  <1> QED  BY <1>2, <1>3, <1>4, MarkFacts DEF Lane

LEMMA BeforeBranchWait ==
  ASSUME NEW b \in Branches, NEW k \in 1..Len(Waits[b])
  PROVE  Before(b, <<b, k>>) = {<<b, <<b, j>>>> : j \in 1..(k - 1)}
  BY TokenFacts, RestIntro DEF Before

\* Where a branch goes next, and that only the wait it leaves comes to lie behind it.
LEMMA LaneNext ==
  ASSUME NEW b \in Branches, NEW at \in Lane(b), at # Join
  PROVE  /\ Following(at, b) \in Lane(b) \ {Fork}
         /\ \A s \in Before(b, Following(at, b)) : s \in Before(b, at) \/ (at \in Rests /\ s = <<b, at>>)
  <1>t. b \in Tokens /\ b # Root  BY TokenFacts
  <1>n. Len(Waits[b]) \in Nat /\ Len(Waits[b]) >= 1  BY <1>t, LaneLengths
  <1>1. CASE at = Fork
    <2>1. Following(at, b) = <<b, 1>>  BY <1>1, <1>t, MarkFacts DEF Following
    <2>2. 1 \in 1..Len(Waits[b])  BY <1>n
    <2>3. Before(b, <<b, 1>>) = {}  BY <2>2, BeforeBranchWait
    <2>4. <<b, 1>> \in Lane(b)  BY <2>2 DEF Lane
    <2>5. <<b, 1>> # Fork  BY <1>t DEF Fork
    <2> QED  BY <2>1, <2>3, <2>4, <2>5
  <1>2. CASE at # Fork
    <2>1. PICK k \in 1..Len(Waits[b]) : at = <<b, k>>  BY <1>2 DEF Lane
    <2>2. at \in Rests /\ at[1] = b /\ at[2] = k /\ k \in Nat /\ k # 0  BY <1>t, <1>n, <2>1, RestIntro
    <2>3. at # Fork /\ at # Join  BY <2>2, MarkFacts
    <2>4. Before(b, at) = {<<b, <<b, j>>>> : j \in 1..(k - 1)}  BY <2>1, BeforeBranchWait
    <2>5. CASE k < Len(Waits[b])
      <3>1. Following(at, b) = <<b, k + 1>>  BY <2>2, <2>3, <2>5 DEF Following
      <3>2. k + 1 \in 1..Len(Waits[b]) /\ (k + 1) - 1 = k  BY <1>n, <2>2, <2>5
      <3>3. Before(b, <<b, k + 1>>) = {<<b, <<b, j>>>> : j \in 1..k}
        BY <3>2, BeforeBranchWait
      <3>4. <<b, k + 1>> \in Lane(b)  BY <3>2 DEF Lane
      <3>5. <<b, k + 1>> \in Rests  BY <3>2, <1>t, RestIntro
      <3>6. <<b, k + 1>> # Fork  BY <3>5, MarkFacts
      <3>7. ASSUME NEW s \in Before(b, <<b, k + 1>>)  PROVE s \in Before(b, at) \/ s = <<b, at>>
        <4>1. PICK j \in 1..k : s = <<b, <<b, j>>>>  BY <3>3
        <4>2. j = k \/ j \in 1..(k - 1)  BY <2>2
        <4> QED  BY <4>1, <4>2, <2>1, <2>4
      <3> QED  BY <3>1, <3>4, <3>6, <3>7, <2>2
    <2>6. CASE k = Len(Waits[b])
      <3>1. Following(at, b) = Join  BY <1>t, <2>2, <2>3, <2>6 DEF Following
      <3>2. Before(b, Join) = {s \in Slots : s[1] = b /\ s[2][1] = b}
        BY <1>t, MarkFacts DEF Before
      <3>3. ASSUME NEW s \in Before(b, Join)  PROVE s \in Before(b, at) \/ s = <<b, at>>
        <4>1. s = <<s[1], s[2]>> /\ s[2] \in Rests /\ s[1] = b /\ s[2][1] = b  BY <3>2, SlotFacts
        <4>2. s[2][2] \in 1..k /\ s[2] = <<b, s[2][2]>>  BY <4>1, <2>6, RestFacts
        <4>3. s = <<b, <<b, s[2][2]>>>>  BY <4>1, <4>2
        <4>4. \A j \in 1..k : j = k \/ j \in 1..(k - 1)  BY <2>2
        <4> QED  BY <4>2, <4>3, <4>4, <2>1, <2>4
      <3> QED  BY <3>1, <3>3, <2>2, LaneFacts, MarkFacts
    <2> QED  BY <2>5, <2>6, <2>2, <1>n
  <1> QED  BY <1>1, <1>2

LEMMA BeforeRootWait ==
  ASSUME NEW lane \in Tokens, NEW k \in 1..Len(Waits[lane])
  PROVE  Before(Root, <<lane, k>>) = {<<Root, <<lane, j>>>> : j \in 1..(k - 1)}
  BY RestIntro DEF Before

\* The same for the root, which meets the waits of a branch when a failed run takes it there.
LEMMA RootNext ==
  ASSUME NEW at \in Places, at # Start, at # End
  PROVE  /\ Following(at, Root) \in Rests \cup {Join, End}
         /\ at \in {Fork, Join} => Following(at, Root) \in Rests
         /\ \A s \in Before(Root, Following(at, Root)) : s \in Before(Root, at) \/ (at \in Rests /\ s = <<Root, at>>)
         /\ Following(Join, Root) = <<Root, 1>> /\ <<Root, 1>> \in Rests /\ Before(Root, <<Root, 1>>) = {}
  <1>j. Following(Join, Root) = <<Root, 1>> /\ <<Root, 1>> \in Rests /\ Before(Root, <<Root, 1>>) = {}
    <2>1. 1 \in 1..Len(Waits[Root])  BY TokenFacts, LaneLengths
    <2>2. Before(Root, <<Root, 1>>) = {}  BY <2>1, TokenFacts, BeforeRootWait
    <2>3. Following(Join, Root) = <<Root, 1>>  BY MarkFacts DEF Following
    <2> QED  BY <2>1, <2>2, <2>3, TokenFacts, RestIntro
  <1>1. CASE at = Fork
    <2>1. Following(at, Root) = <<FirstBranch, 1>>  BY <1>1, MarkFacts DEF Following
    <2>2. 1 \in 1..Len(Waits[FirstBranch]) /\ FirstBranch \in Tokens  BY TokenFacts, LaneLengths
    <2>3. Before(Root, <<FirstBranch, 1>>) = {}  BY <2>2, BeforeRootWait
    <2> QED  BY <2>1, <2>2, <2>3, <1>j, RestIntro
  <1>2. CASE at = Join  BY <1>2, <1>j
  <1>3. CASE at \in Rests
    <2> DEFINE lane == at[1]
    <2> DEFINE k == at[2]
    <2>1. lane \in Tokens /\ k \in 1..Len(Waits[lane]) /\ at = <<lane, k>>  BY <1>3, RestFacts
    <2>2. at # Fork /\ at # Join  BY <1>3, MarkFacts
    <2>n. Len(Waits[lane]) \in Nat /\ Len(Waits[lane]) >= 1 /\ k \in Nat  BY <2>1, LaneLengths
    <2>4. Before(Root, at) = {<<Root, <<lane, j>>>> : j \in 1..(k - 1)}  BY <2>1, BeforeRootWait
    <2>5. CASE k < Len(Waits[lane])
      <3>1. Following(at, Root) = <<lane, k + 1>>  BY <1>3, <2>2, <2>5 DEF Following
      <3>2. k + 1 \in 1..Len(Waits[lane]) /\ (k + 1) - 1 = k  BY <2>n, <2>5
      <3>3. Before(Root, <<lane, k + 1>>) = {<<Root, <<lane, j>>>> : j \in 1..k}
        BY <2>1, <3>2, BeforeRootWait
      <3>5. <<lane, k + 1>> \in Rests  BY <3>2, <2>1, RestIntro
      <3>7. ASSUME NEW s \in Before(Root, <<lane, k + 1>>)  PROVE s \in Before(Root, at) \/ s = <<Root, at>>
        <4>1. PICK j \in 1..k : s = <<Root, <<lane, j>>>>  BY <3>3
        <4>2. j = k \/ j \in 1..(k - 1)  BY <2>n
        <4> QED  BY <4>1, <4>2, <2>1, <2>4
      <3> QED  BY <3>1, <3>5, <3>7, <1>3, <1>j, <2>2
    <2>6. CASE k = Len(Waits[lane]) /\ lane # Root
      <3>1. Following(at, Root) = Join  BY <1>3, <2>2, <2>6, <2>n DEF Following
      <3>2. Before(Root, Join) = {}  BY MarkFacts DEF Before
      <3> QED  BY <3>1, <3>2, <1>3, <1>j, <2>2
    <2>7. CASE k = Len(Waits[lane]) /\ lane = Root
      <3>1. Following(at, Root) = End  BY <1>3, <2>2, <2>7, <2>n DEF Following
      <3>3. ASSUME NEW s \in Before(Root, End)  PROVE s \in Before(Root, at) \/ s = <<Root, at>>
        <4>1. s \in Slots /\ s[1] = Root /\ s[2][1] = Root  BY MarkFacts DEF Before
        <4>2. s = <<Root, s[2]>> /\ s[2] \in Rests  BY <4>1, SlotFacts
        <4>3. s[2][2] \in 1..k /\ s[2] = <<Root, s[2][2]>>  BY <4>1, <4>2, <2>7, RestFacts
        <4>4. \A j \in 1..k : j = k \/ j \in 1..(k - 1)  BY <2>n
        <4> QED  BY <4>2, <4>3, <4>4, <2>1, <2>4, <2>7
      <3> QED  BY <3>1, <3>3, <1>3, <1>j, <2>2
    <2> QED  BY <2>1, <2>5, <2>6, <2>7, <2>n
  <1> QED  BY <1>1, <1>2, <1>3, MarkFacts

LEMMA BeforeMarks ==
  /\ Before(Root, Start) = {} /\ Before(Root, Fork) = {} /\ Before(Root, Join) = {}
  /\ \A b \in Branches : Before(b, Fork) = {}
  BY MarkFacts, TokenFacts DEF Before

-----------------------------------------------------------------------------
(* Types, and what a handler does to its own record *)

InstRecords == [status : InstStatus, at : Places]
BranchRecords == [status : BranchStatus, at : Places]
Seens == InstStatus \cup TaskStatus \cup {"none"}
HandlerRecords == [pc : Pcs, tok : Tokens, at : Places, from : Places, row : Nat, seen : Seens]

LEMMA TypeFacts ==
  ASSUME TypeOK
  PROVE  /\ inst \in InstRecords /\ br \in [Branches -> BranchRecords]
         /\ tasks \in [Slots -> Seq(TaskStatus)] /\ timers \in [Slots -> Nat]
         /\ hs \in [Handlers -> HandlerRecords]
         /\ joined \in Nat /\ answers \in [Slots -> Nat]
         /\ happened \subseteq Slots /\ reopened \subseteq Slots
         /\ stale \subseteq Tokens /\ dropped \subseteq Tokens /\ revived \in BOOLEAN
  BY DEF TypeOK, InstRecords, BranchRecords, HandlerRecords, Seens

LEMMA HandlerFacts ==
  ASSUME TypeOK, NEW h \in Handlers
  PROVE  /\ hs[h] \in HandlerRecords /\ hs[h].pc \in Pcs /\ hs[h].tok \in Tokens /\ hs[h].at \in Places
         /\ hs[h].from \in Places /\ hs[h].row \in Nat /\ hs[h].seen \in Seens
         /\ Slot(h) = <<hs[h].tok, hs[h].at>>
  BY TypeFacts DEF HandlerRecords, Slot

LEMMA IdleFacts ==
  /\ Idle \in HandlerRecords /\ Idle.pc = "idle" /\ Idle.tok = Root /\ Idle.row = 0
  /\ Idle.at = Start /\ Idle.from = Start
  BY MarkFacts, TokenFacts DEF Idle, HandlerRecords, Pcs, Seens

\* Only the record of the handler that acts changes.
Alone(h) == hs' \in [Handlers -> HandlerRecords] /\ \A g \in Handlers \ {h} : hs'[g] = hs[g]
\* The handler goes on about what it was about, or is done.
KeepsTo(h, pc) ==
    /\ Alone(h) /\ hs'[h].pc = pc /\ hs'[h].tok = hs[h].tok /\ hs'[h].at = hs[h].at
    /\ hs'[h].from = hs[h].from /\ hs'[h].row = hs[h].row /\ hs'[h].seen = hs[h].seen
Ends(h) == Alone(h) /\ hs'[h].pc = "idle" /\ hs'[h].tok = Root /\ hs'[h].row = 0
Starts(h, pc, tok, at) ==
    /\ hs[h].pc = "idle"
    /\ Alone(h) /\ hs'[h].pc = pc /\ hs'[h].tok = tok /\ hs'[h].at = at

LEMMA GotoEffect ==
  ASSUME TypeOK, NEW h \in Handlers, NEW pc \in Pcs, Goto(h, pc)
  PROVE  KeepsTo(h, pc)
  <1>1. PICK k : k = [hs[h] EXCEPT !.pc = pc]  OBVIOUS
  <1>2. k \in HandlerRecords /\ k.pc = pc /\ k.tok = hs[h].tok /\ k.at = hs[h].at
        /\ k.from = hs[h].from /\ k.row = hs[h].row /\ k.seen = hs[h].seen
    BY <1>1, HandlerFacts DEF HandlerRecords
  <1>3. hs' = [hs EXCEPT ![h] = k]  BY <1>1 DEF Goto
  <1> QED  BY <1>2, <1>3, TypeFacts DEF KeepsTo, Alone

LEMMA RestEffect ==
  ASSUME TypeOK, NEW h \in Handlers, Rest(h)
  PROVE  Ends(h)
  BY TypeFacts, IdleFacts DEF Rest, Ends, Alone

LEMMA BeginEffect ==
  ASSUME TypeOK, NEW h \in Handlers, NEW pc \in Pcs, NEW tok \in Tokens, NEW at \in Places, Begin(h, pc, tok, at)
  PROVE  /\ pc # "idle" => Starts(h, pc, tok, at) /\ hs'[h].row = 0
         /\ pc = "idle" => Ends(h) /\ hs[h].pc = "idle"
  <1>1. PICK k : k = [Idle EXCEPT !.pc = pc, !.tok = tok, !.at = at]  OBVIOUS
  <1>2. k \in HandlerRecords /\ k.pc = pc /\ k.tok = tok /\ k.at = at /\ k.row = 0
    BY <1>1, IdleFacts DEF HandlerRecords
  <1>3. hs[h].pc = "idle" /\ hs' = [hs EXCEPT ![h] = IF pc = "idle" THEN Idle ELSE k]
    BY <1>1 DEF Begin
  <1> QED  BY <1>2, <1>3, IdleFacts, TypeFacts DEF Starts, Ends, Alone

LEMMA ReadRowEffect ==
  ASSUME TypeOK, NEW h \in Handlers, NEW pc \in Pcs, NEW statuses \in SUBSET TaskStatus, ReadRow(h, pc, statuses)
  PROVE  \E s \in Slots : \E i \in DOMAIN tasks[s] :
            /\ h \in Callers /\ tasks[s][i] \in statuses
            /\ Starts(h, pc, s[1], s[2]) /\ hs'[h].row = i /\ hs'[h].seen = tasks[s][i]
  <1>1. PICK s \in Slots : \E i \in DOMAIN tasks[s] :
          /\ h \in Callers /\ hs[h].pc = "idle" /\ tasks[s][i] \in statuses
          /\ hs' = [hs EXCEPT ![h] = [Idle EXCEPT !.pc = pc, !.tok = s[1], !.at = s[2], !.row = i,
                                                  !.seen = tasks[s][i]]]
    BY DEF ReadRow
  <1>2. PICK i \in DOMAIN tasks[s] :
          /\ h \in Callers /\ hs[h].pc = "idle" /\ tasks[s][i] \in statuses
          /\ hs' = [hs EXCEPT ![h] = [Idle EXCEPT !.pc = pc, !.tok = s[1], !.at = s[2], !.row = i,
                                                  !.seen = tasks[s][i]]]
    BY <1>1
  <1>3. PICK k : k = [Idle EXCEPT !.pc = pc, !.tok = s[1], !.at = s[2], !.row = i, !.seen = tasks[s][i]]
    OBVIOUS
  <1>4. s[1] \in Tokens /\ s[2] \in Places  BY SlotFacts, MarkFacts
  <1>5. i \in Nat /\ tasks[s][i] \in Seens
    <2>1. tasks[s] \in Seq(TaskStatus)  BY TypeFacts
    <2> QED  BY <1>2, <2>1, LenProperties DEF Seens
  <1>6. k \in HandlerRecords /\ k.pc = pc /\ k.tok = s[1] /\ k.at = s[2] /\ k.row = i /\ k.seen = tasks[s][i]
    BY <1>3, <1>4, <1>5, IdleFacts DEF HandlerRecords
  <1>7. hs' = [hs EXCEPT ![h] = k]  BY <1>2, <1>3
  <1> QED  BY <1>2, <1>6, <1>7, TypeFacts DEF Starts, Alone

\* A handler that begins to wake the root notes what it read of it.
LEMMA ReleaseEffect ==
  ASSUME TypeOK, NEW h \in Handlers, NEW at \in Places, hs[h].pc = "idle",
         hs' = [hs EXCEPT ![h] = [Idle EXCEPT !.pc = "release", !.at = at, !.seen = inst.status, !.from = inst.at]]
  PROVE  Starts(h, "release", Root, at) /\ hs'[h].from = inst.at /\ hs'[h].row = 0 /\ hs'[h].seen = inst.status
  <1>1. PICK k : k = [Idle EXCEPT !.pc = "release", !.at = at, !.seen = inst.status, !.from = inst.at]
    OBVIOUS
  <1>2. /\ k \in HandlerRecords /\ k.pc = "release" /\ k.tok = Root /\ k.at = at /\ k.from = inst.at
        /\ k.row = 0 /\ k.seen = inst.status
    BY <1>1, IdleFacts, TypeFacts DEF HandlerRecords, InstRecords, Pcs, Seens
  <1>3. hs' = [hs EXCEPT ![h] = k]  BY <1>1
  <1> QED  BY <1>2, <1>3, TypeFacts DEF Starts, Alone

\* Whoever else has read a token that is written, and will write it, makes it stale.
Holding == {"wake", "release", "advance", "cancel"}
Overruns(h, t) == t \notin stale' => \A g \in Handlers \ {h} : hs[g].tok = t => hs[g].pc \notin Holding
Grows == stale \subseteq stale' /\ stale' \subseteq Tokens

LEMMA WritesEffect ==
  ASSUME TypeOK, NEW h \in Handlers, NEW written \in SUBSET Tokens, Writes(h, written)
  PROVE  Grows /\ \A t \in written : Overruns(h, t)
  <1>1. stale' = stale \cup Overtaken(h, written)  BY DEF Writes
  <1>2. Overtaken(h, written) \subseteq written  BY DEF Overtaken
  <1>3. ASSUME NEW t \in written  PROVE Overruns(h, t)
    <2>1. t \notin stale' => Holders(h, t) = {}  BY <1>1 DEF Overtaken
    <2> QED  BY <2>1 DEF Holders, Overruns, Holding
  <1> QED  BY <1>1, <1>2, <1>3, TypeFacts DEF Grows

-----------------------------------------------------------------------------
(* Task rows and timer jobs *)

LastNow(s) == tasks'[s][Len(tasks'[s])]
\* No row is lost and none becomes, or ceases to be, completed.
TasksKept ==
    /\ tasks' \in [Slots -> Seq(TaskStatus)]
    /\ \A s \in Slots : DOMAIN tasks[s] \subseteq DOMAIN tasks'[s] /\ Done(s)' = Done(s)
TimersKept == timers' \in [Slots -> Nat] /\ TimersOnly'
RootKept == \A w \in Rests : tasks'[<<Root, w>>] = tasks[<<Root, w>>] /\ timers'[<<Root, w>>] = timers[<<Root, w>>]

LEMMA SameTasks ==
  ASSUME TypeOK, tasks' = tasks
  PROVE  TasksKept
  BY TypeFacts DEF TasksKept, Done

LEMMA SameTimers ==
  ASSUME TypeOK, TimersOnly, timers' = timers
  PROVE  TimersKept
  BY TypeFacts DEF TimersKept, TimersOnly

LEMMA TaskRowsEffect ==
  ASSUME TypeOK, NEW entered, tasks' = TaskRows(entered)
  PROVE  /\ TasksKept
         /\ \A s \in Slots : s \notin entered => tasks'[s] = tasks[s]
         /\ \A s \in Slots : s \in entered /\ KindOf(s[2]) = "task" => LastNow(s) = "PENDING"
  <1>1. ASSUME NEW s \in Slots
        PROVE  /\ tasks'[s] \in Seq(TaskStatus)
               /\ DOMAIN tasks[s] \subseteq DOMAIN tasks'[s] /\ Done(s)' = Done(s)
               /\ s \notin entered => tasks'[s] = tasks[s]
               /\ s \in entered /\ KindOf(s[2]) = "task" => LastNow(s) = "PENDING"
    <2>t. tasks[s] \in Seq(TaskStatus) /\ "PENDING" \in TaskStatus  BY TypeFacts DEF TaskStatus
    <2>1. CASE s \in entered /\ KindOf(s[2]) = "task"
      <3>1. tasks'[s] = Append(tasks[s], "PENDING")  BY <2>1 DEF TaskRows
      <3>2. /\ tasks'[s] \in Seq(TaskStatus) /\ Len(tasks'[s]) = Len(tasks[s]) + 1
            /\ \A i \in 1..Len(tasks[s]) : tasks'[s][i] = tasks[s][i]
            /\ tasks'[s][Len(tasks[s]) + 1] = "PENDING"
        BY <3>1, <2>t, AppendProperties
      <3>3. DOMAIN tasks[s] = 1..Len(tasks[s]) /\ DOMAIN tasks'[s] = 1..(Len(tasks[s]) + 1) /\ Len(tasks[s]) \in Nat
        BY <3>2, <2>t, LenProperties
      <3>4. Done(s)' = Done(s)  BY <3>2, <3>3 DEF Done
      <3> QED  BY <3>2, <3>3, <3>4, <2>1 DEF LastNow
    <2>2. CASE ~(s \in entered /\ KindOf(s[2]) = "task")
      <3>1. tasks'[s] = tasks[s]  BY <2>2 DEF TaskRows
      <3>2. Done(s)' = Done(s)  BY <3>1 DEF Done
      <3> QED  BY <3>1, <3>2, <2>2, <2>t
    <2> QED  BY <2>1, <2>2
  <1>2. tasks' \in [Slots -> Seq(TaskStatus)]  BY <1>1 DEF TaskRows
  <1> QED  BY <1>1, <1>2 DEF TasksKept

LEMMA TimerJobsEffect ==
  ASSUME TypeOK, TimersOnly, NEW entered, timers' = TimerJobs(entered)
  PROVE  /\ TimersKept
         /\ \A s \in Slots : s \notin entered => timers'[s] = timers[s]
  <1>1. \A s \in Slots : timers[s] \in Nat  BY TypeFacts
  <1>2. \A s \in Slots : /\ timers'[s] = timers[s] + (IF s \in entered /\ KindOf(s[2]) = "timer" THEN 1 ELSE 0)
    BY DEF TimerJobs
  <1>3. timers' = [s \in Slots |-> timers'[s]]  BY DEF TimerJobs
  <1> QED  BY <1>1, <1>2, <1>3 DEF TimersKept, TimersOnly

-----------------------------------------------------------------------------
(* The drive of the branches, with the rows it finds or opens *)

Moves(row) == \A b \in Branches :
    \/ br'[b].at = row[b].at
    \/ row[b].status = "ACTIVE" /\ br'[b].at = NextOf(row, b)
Spared(h, row) == \A b \in Branches : Overruns(h, b) \/ (row[b].status # "ACTIVE" /\ br'[b] = row[b])
ToldWaiting(row) == \A b \in Branches :
    \/ br'[b].status = "PAUSED" /\ KindOf(br'[b].at) = "task" => LastNow(<<b, br'[b].at>>) = "PENDING"
    \/ /\ row[b].status # "ACTIVE" /\ br'[b] = row[b]
       /\ \A w \in Rests : <<b, w>> \in Slots => tasks'[<<b, w>>] = tasks[<<b, w>>]
AllOver == \A b \in Branches : br'[b].status = "COMPLETED"

Sweeps(h, row) ==
    /\ br' \in [Branches -> BranchRecords] /\ Placed(br)'
    /\ \A b \in Branches : br'[b].status # "ACTIVE"
    /\ Moves(row) /\ Spared(h, row)
    /\ Grows /\ Overruns(h, Root)
    /\ TasksKept /\ TimersKept
    /\ faults' \in 0..MaxFaults
    /\ \/ inst' = [status |-> "PAUSED", at |-> <<Root, 1>>] /\ joined' = joined + 1 /\ AllOver
       \/ /\ inst' = [status |-> "FORKED", at |-> Fork] /\ joined' = joined
          /\ RootKept /\ ToldWaiting(row)
       \/ inst' = [status |-> "FAILED", at |-> Join] /\ joined' = joined + 1 /\ AllOver
       \/ /\ inst' = [status |-> "FAILED", at |-> Fork] /\ joined' = joined
          /\ RootKept /\ \A b \in Branches : br'[b].status # "PAUSED"

LEMMA NextOfFacts ==
  ASSUME NEW row \in [Branches -> BranchRecords], Placed(row), NEW b \in Branches
  PROVE  /\ NextOf(row, b) \in Lane(b) /\ NextOf(row, b) \in Places
         /\ NextOf(row, b) # Join => <<b, NextOf(row, b)>> \in Slots
         /\ \A s \in Before(b, NextOf(row, b)) :
               s \in Before(b, row[b].at) \/ (row[b].at \in Rests /\ s = <<b, row[b].at>>)
  <1>1. row[b].at \in Lane(b)  BY DEF Placed
  <1>2. NextOf(row, b) \in Lane(b) /\ NextOf(row, b) # Fork
    BY <1>1, LaneNext, LaneFacts, MarkFacts DEF NextOf
  <1>3. \A s \in Before(b, NextOf(row, b)) :
               s \in Before(b, row[b].at) \/ (row[b].at \in Rests /\ s = <<b, row[b].at>>)
    BY <1>1, LaneNext DEF NextOf
  <1> QED  BY <1>2, <1>3, LaneFacts

\* Branches that step come to rest, on their next wait or over.
LEMMA SteppedFacts ==
  ASSUME NEW row \in [Branches -> BranchRecords], Placed(row), NEW moving \in SUBSET Branches
  PROVE  /\ Stepped(row, moving) \in [Branches -> BranchRecords] /\ Placed(Stepped(row, moving))
         /\ \A b \in Branches \ moving : Stepped(row, moving)[b] = row[b]
         /\ \A b \in moving : /\ Stepped(row, moving)[b].at = NextOf(row, b)
                              /\ Stepped(row, moving)[b].status \in {"COMPLETED", "PAUSED"}
                              /\ Stepped(row, moving)[b].status = "PAUSED" => NextOf(row, b) # Join
         /\ EnteredBy(row, moving) \subseteq Slots
         /\ \A s \in EnteredBy(row, moving) : s[1] \in moving
         /\ \A b \in moving : NextOf(row, b) # Join => <<b, NextOf(row, b)>> \in EnteredBy(row, moving)
  <1> DEFINE st == Stepped(row, moving)
  <1>1. ASSUME NEW b \in Branches
        PROVE  /\ st[b] \in BranchRecords /\ st[b].at \in Lane(b)
               /\ st[b].status = "COMPLETED" => st[b].at = Join
               /\ b \notin moving => st[b] = row[b]
               /\ b \in moving => /\ st[b].at = NextOf(row, b) /\ st[b].status \in {"COMPLETED", "PAUSED"}
                                  /\ st[b].status = "PAUSED" => NextOf(row, b) # Join
    <2>1. CASE b \notin moving
      <3>1. st[b] = row[b]  BY <2>1 DEF Stepped
      <3> QED  BY <2>1, <3>1 DEF Placed
    <2>2. CASE b \in moving
      <3>1. st[b] = [status |-> IF NextOf(row, b) = Join THEN "COMPLETED" ELSE "PAUSED", at |-> NextOf(row, b)]
        BY <2>2 DEF Stepped
      <3>2. NextOf(row, b) \in Lane(b) /\ NextOf(row, b) \in Places  BY NextOfFacts
      <3> HIDE DEF st
      <3>3. CASE NextOf(row, b) = Join
        <4>1. st[b] = [status |-> "COMPLETED", at |-> Join]  BY <3>1, <3>3
        <4> QED  BY <2>2, <3>2, <3>3, <4>1 DEF BranchRecords, BranchStatus
      <3>4. CASE NextOf(row, b) # Join
        <4>1. st[b] = [status |-> "PAUSED", at |-> NextOf(row, b)]  BY <3>1, <3>4
        <4> QED  BY <2>2, <3>2, <3>4, <4>1 DEF BranchRecords, BranchStatus
      <3> QED  BY <3>3, <3>4
    <2> QED  BY <2>1, <2>2
  <1>2. st = [b \in Branches |-> st[b]]  BY DEF Stepped
  <1>3. st \in [Branches -> BranchRecords] /\ Placed(st)  BY <1>1, <1>2 DEF Placed
  <1>4. ASSUME NEW s \in EnteredBy(row, moving)  PROVE s \in Slots /\ s[1] \in moving
    <2>1. PICK b \in moving : NextOf(row, b) # Join /\ s = <<b, NextOf(row, b)>>  BY DEF EnteredBy
    <2> QED  BY <2>1, NextOfFacts
  <1>5. \A b \in moving : NextOf(row, b) # Join => <<b, NextOf(row, b)>> \in EnteredBy(row, moving)
    BY DEF EnteredBy
  <1> QED  BY <1>1, <1>3, <1>4, <1>5

LEMMA ActiveFacts ==
  ASSUME NEW row
  PROVE  /\ Active(row) \in SUBSET Branches /\ Active(row) \cup {Root} \in SUBSET Tokens
         /\ \A b \in Branches : b \in Active(row) <=> row[b].status = "ACTIVE"
  BY TokenFacts DEF Active

\* All the active branches step together.
LEMMA AllStepEffect ==
  ASSUME TypeOK, NEW row \in [Branches -> BranchRecords], Placed(row), NEW h \in Handlers,
         br' = Stepped(row, Active(row)), Writes(h, Active(row) \cup {Root})
  PROVE  /\ br' \in [Branches -> BranchRecords] /\ Placed(br)'
         /\ \A b \in Branches : br'[b].status # "ACTIVE"
         /\ Moves(row) /\ Spared(h, row) /\ Grows /\ Overruns(h, Root)
  <1>1. /\ br' \in [Branches -> BranchRecords] /\ Placed(br)'
        /\ \A b \in Branches \ Active(row) : br'[b] = row[b]
        /\ \A b \in Active(row) : br'[b].at = NextOf(row, b) /\ br'[b].status \in {"COMPLETED", "PAUSED"}
    BY ActiveFacts, SteppedFacts DEF Placed
  <1>2. Grows /\ \A t \in Active(row) \cup {Root} : Overruns(h, t)  BY ActiveFacts, WritesEffect
  <1> QED  BY <1>1, <1>2, ActiveFacts DEF Moves, Spared

LEMMA AdvanceBranchesEffect ==
  ASSUME TypeOK, TimersOnly, NEW row \in [Branches -> BranchRecords], Placed(row), NEW h \in Handlers,
         AdvanceBranches(h, row)
  PROVE  Sweeps(h, row)
  <1> DEFINE entered == EnteredBy(row, Active(row))
                          \cup (IF AllArrived(br') THEN {<<Root, Following(Join, Root)>>} ELSE {})
  <1>1. /\ br' = Stepped(row, Active(row)) /\ Writes(h, Active(row) \cup {Root})
        /\ tasks' = TaskRows(entered) /\ timers' = TimerJobs(entered) /\ faults' = faults
        /\ inst' = IF AllArrived(br') THEN [status |-> "PAUSED", at |-> Following(Join, Root)]
                   ELSE [status |-> "FORKED", at |-> Fork]
        /\ joined' = joined + (IF AllArrived(br') THEN 1 ELSE 0)
    BY DEF AdvanceBranches
  <1>2. /\ br' \in [Branches -> BranchRecords] /\ Placed(br)'
        /\ \A b \in Branches : br'[b].status # "ACTIVE"
        /\ Moves(row) /\ Spared(h, row) /\ Grows /\ Overruns(h, Root)
    BY <1>1, AllStepEffect
  <1>3. /\ TasksKept /\ \A s \in Slots : s \notin entered => tasks'[s] = tasks[s]
        /\ \A s \in Slots : s \in entered /\ KindOf(s[2]) = "task" => LastNow(s) = "PENDING"
    BY <1>1, TaskRowsEffect
  <1>4. TimersKept /\ \A s \in Slots : s \notin entered => timers'[s] = timers[s]
    BY <1>1, TimerJobsEffect
  <1>5. faults' \in 0..MaxFaults  BY <1>1 DEF TypeOK
  <1>6. CASE AllArrived(br')
    <2>1. Following(Join, Root) = <<Root, 1>>  BY RootNext, MarkFacts
    <2>2. inst' = [status |-> "PAUSED", at |-> <<Root, 1>>] /\ joined' = joined + 1  BY <1>1, <1>6, <2>1
    <2>3. AllOver  BY <1>6 DEF AllArrived, AllOver
    <2> QED  BY <1>2, <1>3, <1>4, <1>5, <2>2, <2>3 DEF Sweeps
  <1>7. CASE ~AllArrived(br')
    <2>1. inst' = [status |-> "FORKED", at |-> Fork] /\ joined' = joined
      BY <1>1, <1>7, TypeFacts
    <2>2. entered = EnteredBy(row, Active(row))  BY <1>7
    <2>3. /\ \A s \in entered : s[1] \in Active(row)
          /\ \A b \in Active(row) : NextOf(row, b) # Join => <<b, NextOf(row, b)>> \in entered
          /\ \A b \in Branches \ Active(row) : br'[b] = row[b]
          /\ \A b \in Active(row) : br'[b].at = NextOf(row, b) /\ (br'[b].status = "PAUSED" => NextOf(row, b) # Join)
      BY <1>1, <2>2, ActiveFacts, SteppedFacts
    <2> HIDE DEF entered
    <2>4. RootKept
      <3>1. \A w \in Rests : <<Root, w>> \in Slots /\ <<Root, w>> \notin entered
        BY <2>3, ActiveFacts, TokenFacts, SlotFacts
      <3> QED  BY <3>1, <1>3, <1>4 DEF RootKept
    <2>5. ToldWaiting(row)
      <3>1. ASSUME NEW b \in Active(row), br'[b].status = "PAUSED", KindOf(br'[b].at) = "task"
            PROVE  LastNow(<<b, br'[b].at>>) = "PENDING"
        <4>1. <<b, br'[b].at>> \in entered /\ b \in Branches  BY <3>1, <2>3, ActiveFacts
        <4>2. <<b, br'[b].at>> \in Slots  BY <4>1, <3>1, <2>3, NextOfFacts
        <4> QED  BY <4>1, <4>2, <3>1, <1>3
      <3>2. ASSUME NEW b \in Branches \ Active(row), NEW w \in Rests, <<b, w>> \in Slots
            PROVE  tasks'[<<b, w>>] = tasks[<<b, w>>]
        BY <3>2, <2>3, <1>3
      <3> QED  BY <3>1, <3>2, <2>3, ActiveFacts DEF ToldWaiting
    <2> QED  BY <1>2, <1>3, <1>4, <1>5, <2>1, <2>4, <2>5 DEF Sweeps
  <1> QED  BY <1>6, <1>7

LEMMA JoinRejectedEffect ==
  ASSUME TypeOK, TimersOnly, NEW row \in [Branches -> BranchRecords], Placed(row), NEW h \in Handlers,
         JoinRejected(h, row)
  PROVE  Sweeps(h, row)
  <1>1. /\ br' = Stepped(row, Active(row)) /\ Writes(h, Active(row) \cup {Root})
        /\ tasks' = tasks /\ timers' = timers /\ AllArrived(br')
        /\ inst' = [status |-> "FAILED", at |-> Join] /\ joined' = joined + 1
        /\ faults < MaxFaults /\ faults' = faults + 1
    BY DEF JoinRejected, Fault
  <1>2. /\ br' \in [Branches -> BranchRecords] /\ Placed(br)'
        /\ \A b \in Branches : br'[b].status # "ACTIVE"
        /\ Moves(row) /\ Spared(h, row) /\ Grows /\ Overruns(h, Root)
    BY <1>1, AllStepEffect
  <1>3. TasksKept /\ TimersKept  BY <1>1, SameTasks, SameTimers
  <1>4. faults' \in 0..MaxFaults  BY <1>1, InstanceAssumption DEF TypeOK
  <1>5. AllOver  BY <1>1 DEF AllArrived, AllOver
  <1> QED  BY <1>1, <1>2, <1>3, <1>4, <1>5 DEF Sweeps

LEMMA FailBranchEffect ==
  ASSUME TypeOK, TimersOnly, NEW row \in [Branches -> BranchRecords], Placed(row), NEW h \in Handlers,
         FailBranch(h, row)
  PROVE  Sweeps(h, row)
  <1>1. PICK failing \in Active(row) : \E before \in SUBSET (Active(row) \ {failing}) :
          LET stepped == Stepped(row, before)
              cancelled == Siblings(stepped, failing)
              rows == TaskRows(EnteredBy(row, before))
          IN  /\ br' = [b \in Branches |-> IF b = failing THEN [row[b] EXCEPT !.status = "FAILED"]
                          ELSE IF b \in cancelled THEN [stepped[b] EXCEPT !.status = "CANCELLED"]
                          ELSE stepped[b]]
              /\ tasks' = [s \in Slots |-> IF s[1] \notin cancelled THEN rows[s]
                             ELSE [i \in DOMAIN rows[s] |->
                                     IF rows[s][i] = "PENDING" THEN "CANCELLED" ELSE rows[s][i]]]
              /\ timers' = TimerJobs(EnteredBy(row, before))
    BY DEF FailBranch
  <1>2. PICK before \in SUBSET (Active(row) \ {failing}) :
          LET stepped == Stepped(row, before)
              cancelled == Siblings(stepped, failing)
              rows == TaskRows(EnteredBy(row, before))
          IN  /\ br' = [b \in Branches |-> IF b = failing THEN [row[b] EXCEPT !.status = "FAILED"]
                          ELSE IF b \in cancelled THEN [stepped[b] EXCEPT !.status = "CANCELLED"]
                          ELSE stepped[b]]
              /\ tasks' = [s \in Slots |-> IF s[1] \notin cancelled THEN rows[s]
                             ELSE [i \in DOMAIN rows[s] |->
                                     IF rows[s][i] = "PENDING" THEN "CANCELLED" ELSE rows[s][i]]]
              /\ timers' = TimerJobs(EnteredBy(row, before))
    BY <1>1
  <1> DEFINE stepped == Stepped(row, before)
  <1> DEFINE cancelled == Siblings(stepped, failing)
  <1> DEFINE rows == TaskRows(EnteredBy(row, before))
  <1>f. /\ inst' = [status |-> "FAILED", at |-> Fork] /\ joined' = joined /\ Writes(h, Branches \cup {Root})
        /\ faults < MaxFaults /\ faults' = faults + 1
    BY DEF FailBranch, Fault
  <1>b. before \in SUBSET Branches /\ before \in SUBSET Active(row) /\ failing \in Branches /\ failing \notin before
    BY ActiveFacts
  <1>s. /\ stepped \in [Branches -> BranchRecords] /\ Placed(stepped)
        /\ \A b \in Branches \ before : stepped[b] = row[b]
        /\ \A b \in before : /\ stepped[b].at = NextOf(row, b)
                             /\ stepped[b].status \in {"COMPLETED", "PAUSED"}
        /\ \A s \in EnteredBy(row, before) : s[1] \in before
    BY <1>b, SteppedFacts
  <1>c. cancelled \in SUBSET Branches /\ failing \notin cancelled /\ Root \notin cancelled
        /\ \A b \in Branches \ {failing} : b \in cancelled <=> stepped[b].status \in {"ACTIVE", "PAUSED"}
    BY TokenFacts DEF Siblings
  <1>3. br' = [b \in Branches |-> IF b = failing THEN [row[b] EXCEPT !.status = "FAILED"]
                          ELSE IF b \in cancelled THEN [stepped[b] EXCEPT !.status = "CANCELLED"]
                          ELSE stepped[b]]
    BY <1>2
  <1>4. tasks' = [s \in Slots |-> IF s[1] \notin cancelled THEN rows[s]
                             ELSE [i \in DOMAIN rows[s] |->
                                     IF rows[s][i] = "PENDING" THEN "CANCELLED" ELSE rows[s][i]]]
    BY <1>2
  <1>5. timers' = TimerJobs(EnteredBy(row, before))  BY <1>2
  <1> HIDE DEF stepped, cancelled, rows
  <1>6. ASSUME NEW b \in Branches
        PROVE  /\ br'[b] \in BranchRecords /\ br'[b].at \in Lane(b)
               /\ br'[b].status = "COMPLETED" => br'[b].at = Join
               /\ br'[b].status \notin {"ACTIVE", "PAUSED"}
               /\ br'[b].at = row[b].at \/ (row[b].status = "ACTIVE" /\ br'[b].at = NextOf(row, b))
    <2>1. CASE b = failing
      <3>1. br'[b] = [row[b] EXCEPT !.status = "FAILED"]  BY <1>3, <2>1
      <3>2. br'[b].status = "FAILED" /\ br'[b].at = row[b].at /\ br'[b] \in BranchRecords
        BY <3>1 DEF BranchRecords, BranchStatus
      <3> QED  BY <3>2 DEF Placed
    <2>2. CASE b \in cancelled
      <3>1. br'[b] = [stepped[b] EXCEPT !.status = "CANCELLED"]  BY <1>3, <1>c, <2>2
      <3>2. br'[b].status = "CANCELLED" /\ br'[b].at = stepped[b].at /\ br'[b] \in BranchRecords
        BY <3>1, <1>s DEF BranchRecords, BranchStatus
      <3> QED  BY <3>2, <1>s, <1>b, ActiveFacts DEF Placed
    <2>3. CASE b # failing /\ b \notin cancelled
      <3>1. br'[b] = stepped[b]  BY <1>3, <2>3
      <3> QED  BY <3>1, <1>s, <1>b, <1>c, <2>3, ActiveFacts DEF Placed
    <2> QED  BY <2>1, <2>2, <2>3
  <1>7. br' \in [Branches -> BranchRecords] /\ Placed(br)'  BY <1>3, <1>6 DEF Placed
  <1>8. Grows /\ \A t \in Branches \cup {Root} : Overruns(h, t)
    <2>1. Branches \cup {Root} \in SUBSET Tokens  BY TokenFacts
    <2> QED  BY <2>1, <1>f, WritesEffect
  <1>9. ASSUME NEW s \in Slots
        PROVE  /\ tasks'[s] \in Seq(TaskStatus)
               /\ DOMAIN tasks[s] \subseteq DOMAIN tasks'[s] /\ Done(s)' = Done(s)
               /\ s[1] = Root => tasks'[s] = tasks[s]
    <2> DEFINE old == tasks[s]
    <2> DEFINE new == rows[s]
    <2>1. /\ new \in Seq(TaskStatus) /\ DOMAIN old \subseteq DOMAIN new
          /\ {i \in DOMAIN new : new[i] = "COMPLETED"} = {i \in DOMAIN old : old[i] = "COMPLETED"}
          /\ s \notin EnteredBy(row, before) => new = old
      <3>t. old \in Seq(TaskStatus) /\ "PENDING" \in TaskStatus  BY TypeFacts DEF TaskStatus
      <3>1. CASE s \in EnteredBy(row, before) /\ KindOf(s[2]) = "task"
        <4>1. new = Append(old, "PENDING")  BY <3>1 DEF rows, TaskRows
        <4> HIDE DEF new, old
        <4>2. /\ new \in Seq(TaskStatus) /\ Len(new) = Len(old) + 1
              /\ \A i \in 1..Len(old) : new[i] = old[i]
              /\ new[Len(old) + 1] = "PENDING"
          BY <4>1, <3>t, AppendProperties
        <4>3. DOMAIN old = 1..Len(old) /\ DOMAIN new = 1..(Len(old) + 1) /\ Len(old) \in Nat
          BY <4>2, <3>t, LenProperties
        <4> QED  BY <4>2, <4>3, <3>1
      <3>2. CASE ~(s \in EnteredBy(row, before) /\ KindOf(s[2]) = "task")
        <4>1. new = old  BY <3>2 DEF rows, TaskRows
        <4> QED  BY <4>1, <3>t
      <3> QED  BY <3>1, <3>2
    <2>2. CASE s[1] \notin cancelled
      <3>1. tasks'[s] = new  BY <1>4, <2>2
      <3>2. s[1] = Root => s \notin EnteredBy(row, before)  BY <1>s, <1>b, TokenFacts
      <3> QED  BY <2>1, <3>1, <3>2 DEF Done
    <2>3. CASE s[1] \in cancelled
      <3>1. tasks'[s] = [i \in DOMAIN new |-> IF new[i] = "PENDING" THEN "CANCELLED" ELSE new[i]]
        BY <1>4, <2>3
      <3> HIDE DEF new, old
      <3>2. DOMAIN tasks'[s] = DOMAIN new
            /\ \A i \in DOMAIN new : tasks'[s][i] = IF new[i] = "PENDING" THEN "CANCELLED" ELSE new[i]
        BY <3>1
      <3>3. {i \in DOMAIN tasks'[s] : tasks'[s][i] = "COMPLETED"} = {i \in DOMAIN new : new[i] = "COMPLETED"}
        BY <3>2
      <3>4. Done(s)' = Done(s)  BY <2>1, <3>3 DEF Done, old
      <3>5. tasks'[s] \in Seq(TaskStatus)
        <4>1. DOMAIN new = 1..Len(new) /\ Len(new) \in Nat /\ \A i \in 1..Len(new) : new[i] \in TaskStatus
          BY <2>1, LenProperties, ElementOfSeq
        <4>2. \A i \in 1..Len(new) : tasks'[s][i] \in TaskStatus  BY <4>1, <3>2 DEF TaskStatus
        <4>3. tasks'[s] \in [1..Len(new) -> TaskStatus]  BY <3>1, <4>1, <4>2
        <4> QED  BY <4>1, <4>3, SeqDef
      <3> QED  BY <2>1, <2>3, <3>2, <3>4, <3>5, <1>c DEF old
    <2> QED  BY <2>2, <2>3
  <1>10. TasksKept  BY <1>4, <1>9 DEF TasksKept
  <1>11. TimersKept /\ \A s \in Slots : s \notin EnteredBy(row, before) => timers'[s] = timers[s]
    BY <1>5, TimerJobsEffect
  <1>12. RootKept
    <2>1. \A w \in Rests : <<Root, w>> \in Slots /\ <<Root, w>>[1] = Root /\ <<Root, w>> \notin EnteredBy(row, before)
      BY <1>s, <1>b, TokenFacts, SlotFacts
    <2> QED  BY <2>1, <1>9, <1>11 DEF RootKept
  <1>13. faults' \in 0..MaxFaults  BY <1>f, InstanceAssumption DEF TypeOK
  <1>14. Moves(row) /\ Spared(h, row)  BY <1>6, <1>8 DEF Moves, Spared
  <1> QED  BY <1>6, <1>7, <1>8, <1>10, <1>11, <1>12, <1>13, <1>14, <1>f DEF Sweeps

-----------------------------------------------------------------------------
(* What each action does *)

\* The step of a driver through the branches, which it finds active or has just opened.
SweepStep(h) == \E row \in [Branches -> BranchRecords] :
    /\ hs[h].pc = "drive" /\ Ends(h) /\ Sweeps(h, row)
    /\ Young /\ joined = 0
    /\ \/ row = br /\ inst.status = "FORKED"
       \/ \A b \in Branches : row[b].status = "ACTIVE" /\ row[b].at = Fork
    /\ (revived => revived') /\ revived' \in BOOLEAN
    /\ UNCHANGED <<orders, happened, answers, reopened, dropped>>

LEMMA DriveBranchesEffect ==
  ASSUME Sound, NEW h \in Handlers, DriveBranches(h)
  PROVE  SweepStep(h)
  <1>t. TypeOK /\ TimersOnly /\ Placed(br) /\ br \in [Branches -> BranchRecords]
    BY TypeFacts DEF Sound, PlaceInv
  <1>1. hs[h].pc = "drive" /\ Ends(h)  BY <1>t, RestEffect DEF DriveBranches, Drives
  <1>2. Sweeps(h, br)
    BY <1>t, AdvanceBranchesEffect, JoinRejectedEffect, FailBranchEffect DEF DriveBranches
  <1>3. Young /\ joined = 0 /\ inst.status = "FORKED"  BY DEF DriveBranches, Sound, YoungInv, Young
  <1> QED  BY <1>t, <1>1, <1>2, <1>3, TypeFacts DEF DriveBranches, SweepStep

LEMMA DriveStartEffect ==
  ASSUME Sound, NEW h \in Handlers, DriveStart(h)
  PROVE  SweepStep(h)
  <1>t. TypeOK /\ TimersOnly  BY DEF Sound, PlaceInv
  <1>1. hs[h].pc = "drive" /\ Ends(h)  BY <1>t, RestEffect DEF DriveStart, Drives
  <1> DEFINE row == [b \in Branches |-> [status |-> "ACTIVE", at |-> Fork]]
  <1>2. AdvanceBranches(h, row) \/ FailBranch(h, row)  BY DEF DriveStart
  <1>3. \A b \in Branches : row[b].status = "ACTIVE" /\ row[b].at = Fork /\ row[b].at \in Lane(b)
    BY LaneFacts
  <1>4. row \in [Branches -> BranchRecords]  BY MarkFacts DEF BranchRecords, BranchStatus
  <1> HIDE DEF row
  <1>5. Placed(row)  BY <1>3 DEF Placed
  <1>6. Sweeps(h, row)  BY <1>t, <1>2, <1>4, <1>5, AdvanceBranchesEffect, FailBranchEffect
  <1>7. Young /\ joined = 0 /\ (revived => revived') /\ revived' \in BOOLEAN
        /\ UNCHANGED <<orders, happened, answers, reopened, dropped>>
    BY DEF DriveStart, Sound, YoungInv, Young
  <1> QED  BY <1>1, <1>3, <1>4, <1>6, <1>7 DEF SweepStep

LEMMA DriveIdlesEffect ==
  ASSUME Sound, NEW h \in Handlers, DriveIdles(h)
  PROVE  /\ hs[h].pc = "drive" /\ Ends(h)
         /\ inst.status \in {"COMPLETED", "CANCELLED", "PAUSED"} \/ inst.at \in Rests
         /\ UNCHANGED <<inst, br, tasks, timers, faults, orders, joined, happened, answers, stale, reopened,
                        dropped, revived>>
  BY RestEffect DEF Sound, DriveIdles, Drives, hist

LEMMA DriveRootEffect ==
  ASSUME Sound, NEW h \in Handlers, DriveRoot(h)
  PROVE  /\ hs[h].pc = "drive" /\ Ends(h)
         /\ inst.at \in {Fork, Join} /\ inst.status \in {"RUNNING", "FAILED"}
         /\ inst'.status = "PAUSED" /\ inst'.at = Following(inst.at, Root) /\ inst' \in InstRecords
         /\ inst'.at \in Rests
         /\ revived' = (revived \/ inst.status = "FAILED")
         /\ TasksKept /\ TimersKept /\ Grows /\ Overruns(h, Root)
         /\ \A b \in Branches : \A w \in Rests : <<b, w>> \in Slots => tasks'[<<b, w>>] = tasks[<<b, w>>]
         /\ UNCHANGED <<br, faults, orders, joined, happened, answers, reopened, dropped>>
  <1>t. TypeOK /\ TimersOnly  BY DEF Sound, PlaceInv
  <1> DEFINE next == Following(inst.at, Root)
  <1>1. inst.at \in {Fork, Join} /\ inst.status \in {"RUNNING", "FAILED"} /\ hs[h].pc = "drive" /\ Rest(h)
    BY DEF DriveRoot, Drives, Runs
  <1>2. next \in Rests  BY <1>1, MarkFacts, RootNext
  <1>3. inst' = [status |-> "PAUSED", at |-> next] /\ tasks' = TaskRows({<<Root, next>>})
        /\ timers' = TimerJobs({<<Root, next>>}) /\ Writes(h, {Root})
        /\ revived' = (revived \/ inst.status = "FAILED")
        /\ UNCHANGED <<br, faults, orders, joined, happened, answers, reopened, dropped>>
    BY DEF DriveRoot
  <1> HIDE DEF next
  <1>4. inst'.status = "PAUSED" /\ inst'.at = next /\ inst' \in InstRecords
    BY <1>2, <1>3, MarkFacts DEF InstRecords, InstStatus
  <1>5. TasksKept /\ \A s \in Slots : s \notin {<<Root, next>>} => tasks'[s] = tasks[s]
    BY <1>t, <1>3, TaskRowsEffect
  <1>6. TimersKept  BY <1>t, <1>3, TimerJobsEffect
  <1>7. Grows /\ Overruns(h, Root)  BY <1>t, <1>3, TokenFacts, WritesEffect
  <1>8. \A b \in Branches : \A w \in Rests : <<b, w>> \in Slots => tasks'[<<b, w>>] = tasks[<<b, w>>]
    BY <1>5, TokenFacts
  <1> QED  BY <1>t, <1>1, <1>2, <1>3, <1>4, <1>5, <1>6, <1>7, <1>8, RestEffect DEF next

LEMMA DriveEndEffect ==
  ASSUME Sound, NEW h \in Handlers, DriveEnd(h)
  PROVE  /\ hs[h].pc = "drive" /\ Ends(h) /\ inst.at = End /\ inst.status # "COMPLETED"
         /\ inst'.status = "COMPLETED" /\ inst'.at = End /\ inst' \in InstRecords
         /\ revived' = (revived \/ inst.status = "FAILED")
         /\ Grows /\ Overruns(h, Root)
         /\ UNCHANGED <<br, tasks, timers, faults, orders, joined, happened, answers, reopened, dropped>>
  <1>t. TypeOK /\ inst \in InstRecords  BY TypeFacts DEF Sound
  <1>1. Grows /\ Overruns(h, Root)  BY <1>t, TokenFacts, WritesEffect DEF DriveEnd
  <1> QED  BY <1>t, <1>1, RestEffect DEF DriveEnd, Drives, Runs, InstRecords, InstStatus

LEMMA DriveRejectedEffect ==
  ASSUME Sound, NEW h \in Handlers, DriveRejected(h)
  PROVE  /\ hs[h].pc = "drive" /\ Ends(h) /\ inst.at \in {Start, Fork, Join}
         /\ inst.status \in {"RUNNING", "FAILED"}
         /\ inst'.status = "FAILED" /\ inst'.at = inst.at /\ inst' \in InstRecords
         /\ faults' \in 0..MaxFaults /\ Grows /\ Overruns(h, Root)
         /\ UNCHANGED <<br, tasks, timers, orders, joined, happened, answers, reopened, dropped, revived>>
  <1>t. TypeOK /\ inst \in InstRecords  BY TypeFacts DEF Sound
  <1>1. Grows /\ Overruns(h, Root)  BY <1>t, TokenFacts, WritesEffect DEF DriveRejected
  <1>2. faults' \in 0..MaxFaults  BY <1>t, InstanceAssumption DEF TypeOK, DriveRejected, Fault
  <1> QED  BY <1>t, <1>1, <1>2, RestEffect DEF DriveRejected, Drives, Runs, InstRecords, InstStatus

LEMMA DriveRollsBackEffect ==
  ASSUME Sound, NEW h \in Handlers, DriveRollsBack(h)
  PROVE  /\ hs[h].pc = "drive" /\ Ends(h)
         /\ inst.status \in {"RUNNING", "FORKED", "FAILED"}
         /\ inst'.status = (IF inst.status = "RUNNING" THEN "FAILED" ELSE inst.status) /\ inst'.at = inst.at
         /\ inst' \in InstRecords /\ dropped' = dropped \cup {hs[h].tok}
         /\ faults' \in 0..MaxFaults /\ Grows /\ Overruns(h, Root)
         /\ UNCHANGED <<br, tasks, timers, orders, joined, happened, answers, reopened, revived>>
  <1>t. TypeOK /\ inst \in InstRecords  BY TypeFacts DEF Sound
  <1>1. Grows /\ Overruns(h, Root)  BY <1>t, TokenFacts, WritesEffect DEF DriveRollsBack
  <1>2. faults' \in 0..MaxFaults  BY <1>t, InstanceAssumption DEF TypeOK, DriveRollsBack, Fault
  <1>3. hs[h].pc = "drive" /\ Ends(h)  BY <1>t, RestEffect DEF DriveRollsBack, Drives
  <1>4. inst' = [inst EXCEPT !.status = IF @ = "RUNNING" THEN "FAILED" ELSE @]
        /\ inst.status \in {"RUNNING", "FORKED", "FAILED"}
    BY DEF DriveRollsBack
  <1>5. inst'.status = (IF inst.status = "RUNNING" THEN "FAILED" ELSE inst.status) /\ inst'.at = inst.at
        /\ inst' \in InstRecords
    <2>1. CASE inst.status = "RUNNING"
      <3>1. inst' = [inst EXCEPT !.status = "FAILED"]  BY <1>4, <2>1
      <3> QED  BY <1>t, <2>1, <3>1 DEF InstRecords, InstStatus
    <2>2. CASE inst.status # "RUNNING"
      <3>1. inst' = [inst EXCEPT !.status = inst.status]  BY <1>4, <2>2
      <3> QED  BY <1>t, <2>2, <3>1 DEF InstRecords
    <2> QED  BY <2>1, <2>2
  <1> QED  BY <1>1, <1>2, <1>3, <1>4, <1>5 DEF DriveRollsBack

\* Writing a branch ACTIVE.
LEMMA WakeBranchEffect ==
  ASSUME Sound, NEW h \in Handlers, WakeBranch(h)
  PROVE  /\ hs[h].pc = "wake" /\ KeepsTo(h, "drive") /\ hs[h].tok \in Branches
         /\ br' \in [Branches -> BranchRecords]
         /\ \A b \in Branches : b # hs[h].tok => br'[b] = br[b]
         /\ br'[hs[h].tok].status = "ACTIVE" /\ br'[hs[h].tok].at = br[hs[h].tok].at
         /\ Slot(h) \in happened
         /\ Grows /\ Overruns(h, hs[h].tok)
         /\ UNCHANGED <<inst, tasks, timers, faults, orders, joined, happened, answers, reopened, dropped, revived>>
  <1>t. TypeOK /\ br \in [Branches -> BranchRecords] /\ hs[h].tok \in Tokens /\ "drive" \in Pcs
    BY TypeFacts, HandlerFacts DEF Sound, Pcs
  <1>1. hs[h].pc = "wake" /\ KeepsTo(h, "drive")  BY <1>t, GotoEffect DEF WakeBranch
  <1>2. hs[h].tok \in Branches /\ Slot(h) \in happened  BY <1>t, <1>1, TokenFacts DEF Sound, PlaceInv, Engaged
  <1>3. Grows /\ Overruns(h, hs[h].tok)  BY <1>t, WritesEffect DEF WakeBranch
  <1>4. br' = [br EXCEPT ![hs[h].tok].status = "ACTIVE"]  BY DEF WakeBranch
  <1>5. PICK b \in Branches : b = hs[h].tok  BY <1>2
  <1>6. br' = [br EXCEPT ![b] = [br[b] EXCEPT !.status = "ACTIVE"]]  BY <1>4, <1>5
  <1>7. br'[b] = [br[b] EXCEPT !.status = "ACTIVE"] /\ \A c \in Branches : c # b => br'[c] = br[c]
    BY <1>t, <1>6
  <1>8. br'[b].status = "ACTIVE" /\ br'[b].at = br[b].at /\ br'[b] \in BranchRecords
    BY <1>t, <1>7 DEF BranchRecords, BranchStatus
  <1>9. br' \in [Branches -> BranchRecords]  BY <1>t, <1>6, <1>8
  <1> QED  BY <1>1, <1>2, <1>3, <1>5, <1>7, <1>8, <1>9 DEF WakeBranch

\* The job of a branch timer is taken: a paused branch is about to be woken.
LEMMA FireBranchTimerEffect ==
  ASSUME Sound, NEW h \in Handlers, FireBranchTimer(h)
  PROVE  \E b \in Branches : \E w \in Rests :
         /\ h \in Workers /\ <<b, w>> \in Slots /\ KindOf(w) = "timer"
         /\ hs[h].pc = "idle"
         /\ \/ /\ Sleeping(b) /\ Starts(h, "wake", b, w) /\ hs'[h].row = 0
               /\ b \notin stale' => w = br[b].at
            \/ Ends(h)
         /\ timers' \in [Slots -> Nat] /\ TimersOnly'
         /\ \A s \in Slots : s # <<b, w>> => timers'[s] = timers[s]
         /\ happened' = happened \cup {<<b, w>>} /\ happened' \subseteq Slots
         /\ Grows
         /\ UNCHANGED <<inst, br, tasks, faults, orders, joined, answers, reopened, dropped, revived>>
  <1>t. TypeOK /\ TimersOnly /\ timers \in [Slots -> Nat] /\ stale \subseteq Tokens /\ happened \subseteq Slots
    BY TypeFacts DEF Sound, PlaceInv
  <1>1. PICK b \in Branches : \E w \in Rests :
          /\ h \in Workers
          /\ <<b, w>> \in Slots /\ timers[<<b, w>>] > 0
          /\ Begin(h, IF Sleeping(b) THEN "wake" ELSE "idle", b, w)
          /\ timers' = [timers EXCEPT ![<<b, w>>] = @ - 1]
          /\ happened' = happened \cup {<<b, w>>}
          /\ stale' = stale \cup (IF Sleeping(b) THEN Late(b, w, br[b].at) ELSE {})
          /\ UNCHANGED <<inst, br, tasks, faults, orders, joined, answers, reopened, dropped, revived>>
    BY DEF FireBranchTimer
  <1>2. PICK w \in Rests :
          /\ h \in Workers
          /\ <<b, w>> \in Slots /\ timers[<<b, w>>] > 0
          /\ Begin(h, IF Sleeping(b) THEN "wake" ELSE "idle", b, w)
          /\ timers' = [timers EXCEPT ![<<b, w>>] = @ - 1]
          /\ happened' = happened \cup {<<b, w>>}
          /\ stale' = stale \cup (IF Sleeping(b) THEN Late(b, w, br[b].at) ELSE {})
          /\ UNCHANGED <<inst, br, tasks, faults, orders, joined, answers, reopened, dropped, revived>>
    BY <1>1
  <1>3. b \in Tokens /\ w \in Places /\ {"wake", "idle"} \subseteq Pcs  BY TokenFacts, MarkFacts DEF Pcs
  <1>4. <<b, w>>[2] = w  OBVIOUS
  <1>5. KindOf(w) = "timer"  BY <1>t, <1>2, <1>4 DEF TimersOnly
  <1>6. \/ Sleeping(b) /\ Starts(h, "wake", b, w) /\ hs'[h].row = 0 /\ (b \notin stale' => w = br[b].at)
        \/ Ends(h)
    <2>1. CASE Sleeping(b)
      <3>1. Begin(h, "wake", b, w)  BY <1>2, <2>1
      <3>2. "wake" \in Pcs /\ "wake" # "idle"  BY DEF Pcs
      <3> QED  BY <3>1, <3>2, <2>1, <1>t, <1>2, <1>3, BeginEffect DEF Late
    <2>2. CASE ~Sleeping(b)
      <3>1. Begin(h, "idle", b, w)  BY <1>2, <2>2
      <3> QED  BY <3>1, <1>t, <1>3, BeginEffect
    <2> QED  BY <2>1, <2>2
  <1>7. hs[h].pc = "idle"  BY <1>2 DEF Begin
  <1>8. /\ timers' \in [Slots -> Nat] /\ \A s \in Slots : s # <<b, w>> => timers'[s] = timers[s]
        /\ timers'[<<b, w>>] = timers[<<b, w>>] - 1
    <2>1. timers[<<b, w>>] - 1 \in Nat  BY <1>t, <1>2
    <2> QED  BY <2>1, <1>t, <1>2
  <1>9. TimersOnly'  BY <1>8, <1>2, <1>t, <1>5, <1>4 DEF TimersOnly
  <1>10. Grows  BY <1>2, <1>t, <1>3 DEF Grows, Late
  <1> QED  BY <1>2, <1>5, <1>6, <1>7, <1>8, <1>9, <1>10, <1>t

LEMMA SignalBranchEffect ==
  ASSUME Sound, NEW h \in Handlers, SignalBranch(h)
  PROVE  \E b \in Branches :
         /\ h \in Callers /\ inst.status = "FORKED" /\ Sleeping(b) /\ KindOf(br[b].at) = "signal"
         /\ <<b, br[b].at>> \in Slots
         /\ Starts(h, "wake", b, br[b].at) /\ hs'[h].row = 0
         /\ happened' = happened \cup {<<b, br[b].at>>} /\ happened' \subseteq Slots
         /\ UNCHANGED <<inst, br, tasks, timers, faults, orders, joined, answers, stale, reopened, dropped, revived>>
  <1>t. TypeOK /\ br \in [Branches -> BranchRecords] /\ Placed(br) /\ happened \subseteq Slots
    BY TypeFacts DEF Sound, PlaceInv
  <1>1. PICK b \in Branches :
          /\ h \in Callers
          /\ inst.status = "FORKED"
          /\ Sleeping(b) /\ KindOf(br[b].at) = "signal"
          /\ Begin(h, "wake", b, br[b].at)
          /\ happened' = happened \cup {<<b, br[b].at>>}
          /\ UNCHANGED <<inst, br, tasks, timers, faults, orders, joined, answers, stale, reopened, dropped, revived>>
    BY DEF SignalBranch
  <1>2. br[b].at \in Lane(b) /\ br[b].at \in Places  BY <1>t, LaneFacts DEF Placed
  <1>3. br[b].at \in Rests  BY <1>1, <1>2, MarkFacts
  <1>4. <<b, br[b].at>> \in Slots  BY <1>2, <1>3, LaneFacts
  <1>5. "wake" \in Pcs /\ "wake" # "idle" /\ b \in Tokens  BY TokenFacts DEF Pcs
  <1>6. Starts(h, "wake", b, br[b].at) /\ hs'[h].row = 0  BY <1>t, <1>1, <1>2, <1>5, BeginEffect
  <1> QED  BY <1>t, <1>1, <1>4, <1>6

\* One row of one task changes its status.
RowSet(s, i, status) ==
    /\ tasks' \in [Slots -> Seq(TaskStatus)]
    /\ \A q \in Slots : DOMAIN tasks'[q] = DOMAIN tasks[q]
    /\ \A q \in Slots : q # s => tasks'[q] = tasks[q]
    /\ tasks'[s][i] = status /\ \A j \in DOMAIN tasks[s] : j # i => tasks'[s][j] = tasks[s][j]

LEMMA SetEffect ==
  ASSUME TypeOK, NEW s \in Slots, NEW i \in DOMAIN tasks[s], NEW status \in TaskStatus,
         tasks' = [tasks EXCEPT ![s][i] = status]
  PROVE  RowSet(s, i, status)
  <1>t. tasks \in [Slots -> Seq(TaskStatus)]  BY TypeFacts
  <1>1. PICK row : row = [tasks[s] EXCEPT ![i] = status]  OBVIOUS
  <1>2. tasks' = [tasks EXCEPT ![s] = row]  BY <1>1
  <1>3. tasks[s] \in Seq(TaskStatus)  BY <1>t
  <1>4. row \in Seq(TaskStatus) /\ DOMAIN row = DOMAIN tasks[s] /\ row[i] = status
        /\ \A j \in DOMAIN tasks[s] : j # i => row[j] = tasks[s][j]
    <2>1. DOMAIN tasks[s] = 1..Len(tasks[s]) /\ Len(tasks[s]) \in Nat
          /\ \A j \in 1..Len(tasks[s]) : tasks[s][j] \in TaskStatus
      BY <1>3, LenProperties, ElementOfSeq
    <2>2. row = [j \in 1..Len(tasks[s]) |-> IF j = i THEN status ELSE tasks[s][j]]
      BY <1>1, <1>3, <2>1
    <2>3. row \in [1..Len(tasks[s]) -> TaskStatus]  BY <2>1, <2>2
    <2> QED  BY <2>1, <2>2, <2>3, SeqDef
  <1>5. tasks'[s] = row /\ \A q \in Slots : q # s => tasks'[q] = tasks[q]  BY <1>t, <1>2
  <1> QED  BY <1>t, <1>2, <1>4, <1>5 DEF RowSet

LEMMA RowFacts ==
  ASSUME TypeOK, NEW s \in Slots, NEW i \in DOMAIN tasks[s]
  PROVE  tasks[s][i] \in TaskStatus /\ Last(s) \in TaskStatus /\ tasks[s] # <<>> /\ i \in Nat
         /\ i > 0 /\ Len(tasks[s]) \in DOMAIN tasks[s]
  <1>1. tasks[s] \in Seq(TaskStatus)  BY TypeFacts
  <1>2. DOMAIN tasks[s] = 1..Len(tasks[s]) /\ Len(tasks[s]) \in Nat
          /\ \A j \in 1..Len(tasks[s]) : tasks[s][j] \in TaskStatus
    BY <1>1, LenProperties, ElementOfSeq
  <1>3. Len(tasks[s]) \in DOMAIN tasks[s]  BY <1>2
  <1>4. tasks[s] # <<>>  BY <1>1, <1>2, EmptySeq
  <1> QED  BY <1>2, <1>3, <1>4 DEF Last

LEMMA ClaimTaskEffect ==
  ASSUME Sound, ClaimTask
  PROVE  \E s \in Slots : \E i \in DOMAIN tasks[s] :
         /\ tasks[s][i] = "PENDING" /\ RowSet(s, i, "IN_PROGRESS")
         /\ UNCHANGED <<inst, br, timers, hs, faults, orders, joined, happened, answers, stale, reopened,
                        dropped, revived>>
  <1>1. PICK s \in Slots : \E i \in DOMAIN tasks[s] :
          tasks[s][i] = "PENDING" /\ tasks' = [tasks EXCEPT ![s][i] = "IN_PROGRESS"]
    BY DEF ClaimTask
  <1>2. PICK i \in DOMAIN tasks[s] :
          tasks[s][i] = "PENDING" /\ tasks' = [tasks EXCEPT ![s][i] = "IN_PROGRESS"]
    BY <1>1
  <1>3. RowSet(s, i, "IN_PROGRESS")
    <2>1. "IN_PROGRESS" \in TaskStatus  BY DEF TaskStatus
    <2> QED  BY <2>1, <1>2, SetEffect DEF Sound
  <1> QED  BY <1>2, <1>3 DEF ClaimTask, hist

LEMMA ReadToCompleteEffect ==
  ASSUME Sound, NEW h \in Handlers, ReadToComplete(h)
  PROVE  \E s \in Slots : \E i \in DOMAIN tasks[s] :
         /\ h \in Callers /\ tasks[s][i] \in Open
         /\ Starts(h, "submit", s[1], s[2]) /\ hs'[h].row = i /\ hs'[h].seen = tasks[s][i]
         /\ UNCHANGED <<inst, br, tasks, timers, faults, orders, joined, happened, answers, stale, reopened,
                        dropped, revived>>
  <1>1. "submit" \in Pcs /\ Open \in SUBSET TaskStatus  BY DEF Pcs, Open, TaskStatus
  <1>2. ReadRow(h, "submit", Open)  BY DEF ReadToComplete
  <1> QED  BY <1>1, <1>2, ReadRowEffect DEF Sound, ReadToComplete, hist

LEMMA ReadToReassignEffect ==
  ASSUME Sound, NEW h \in Handlers, ReadToReassign(h)
  PROVE  \E s \in Slots : \E i \in DOMAIN tasks[s] :
         /\ h \in Callers
         /\ Starts(h, "reassign", s[1], s[2]) /\ hs'[h].row = i
         /\ orders' \in 0..MaxOrders
         /\ UNCHANGED <<inst, br, tasks, timers, faults, joined, happened, answers, stale, reopened,
                        dropped, revived>>
  <1>1. "reassign" \in Pcs /\ {"IN_PROGRESS"} \in SUBSET TaskStatus  BY DEF Pcs, TaskStatus
  <1>2. ReadRow(h, "reassign", {"IN_PROGRESS"})  BY DEF ReadToReassign
  <1>3. orders' \in 0..MaxOrders  BY InstanceAssumption DEF Sound, TypeOK, ReadToReassign, Order
  <1> QED  BY <1>1, <1>2, <1>3, ReadRowEffect DEF Sound, ReadToReassign, hist

LEMMA ReassignTaskEffect ==
  ASSUME Sound, NEW h \in Handlers, ReassignTask(h)
  PROVE  \E s \in Slots : \E i \in DOMAIN tasks[s] :
         /\ hs[h].pc = "reassign" /\ Slot(h) = s /\ Ends(h) /\ RowSet(s, i, "PENDING")
         /\ reopened' = reopened \cup (IF tasks[s][i] \in Open THEN {} ELSE {s}) /\ reopened' \subseteq Slots
         /\ UNCHANGED <<inst, br, timers, faults, orders, joined, happened, answers, stale, dropped, revived>>
  <1>1. hs[h].pc = "reassign" /\ Ends(h)  BY RestEffect DEF Sound, ReassignTask
  <1>2. Slot(h) \in Slots /\ hs[h].row \in DOMAIN tasks[Slot(h)]  BY <1>1 DEF Sound, PlaceInv, Engaged
  <1>3. tasks' = [tasks EXCEPT ![Slot(h)][hs[h].row] = "PENDING"]  BY DEF ReassignTask, SetRow
  <1>4. RowSet(Slot(h), hs[h].row, "PENDING")
    <2>1. "PENDING" \in TaskStatus  BY DEF TaskStatus
    <2> QED  BY <2>1, <1>2, <1>3, SetEffect DEF Sound
  <1>5. /\ reopened' = reopened \cup (IF tasks[Slot(h)][hs[h].row] \in Open THEN {} ELSE {Slot(h)})
        /\ reopened' \subseteq Slots
    BY <1>2, TypeFacts DEF ReassignTask, Row, Sound
  <1> QED  BY <1>1, <1>2, <1>4, <1>5 DEF ReassignTask

LEMMA CompleteTaskEffect ==
  ASSUME Sound, NEW h \in Handlers, CompleteTask(h)
  PROVE  /\ hs[h].pc = "submit"
         /\ \/ \E s \in Slots : \E i \in DOMAIN tasks[s] :
                 /\ Slot(h) = s /\ KeepsTo(h, "answered") /\ tasks[s][i] \in Open
                 /\ RowSet(s, i, "COMPLETED")
                 /\ happened' = happened \cup {s} /\ happened' \subseteq Slots
                 /\ answers' = [answers EXCEPT ![s] = @ + 1]
            \/ Ends(h) /\ UNCHANGED <<tasks, happened, answers>>
         /\ UNCHANGED <<inst, br, timers, faults, orders, joined, stale, reopened, dropped, revived>>
  <1>t. TypeOK  BY DEF Sound
  <1>1. hs[h].pc = "submit"  BY DEF CompleteTask
  <1>2. Slot(h) \in Slots /\ hs[h].row \in DOMAIN tasks[Slot(h)] /\ hs[h].seen \in Open
    BY <1>1 DEF Sound, PlaceInv, Engaged
  <1>3. CASE StillOwned(h)
    <2>1. tasks[Slot(h)][hs[h].row] \in Open  BY <1>2, <1>3 DEF StillOwned, Row
    <2>2. "answered" \in Pcs /\ "COMPLETED" \in TaskStatus  BY DEF Pcs, TaskStatus
    <2>3. KeepsTo(h, "answered")  BY <1>t, <1>3, <2>2, GotoEffect DEF CompleteTask
    <2>4. tasks' = [tasks EXCEPT ![Slot(h)][hs[h].row] = "COMPLETED"]  BY <1>3 DEF CompleteTask, SetRow
    <2>5. RowSet(Slot(h), hs[h].row, "COMPLETED")  BY <1>t, <1>2, <2>2, <2>4, SetEffect
    <2>6. happened' = happened \cup {Slot(h)} /\ happened' \subseteq Slots
          /\ answers' = [answers EXCEPT ![Slot(h)] = @ + 1]
      BY <1>t, <1>2, <1>3, TypeFacts DEF CompleteTask
    <2> QED  BY <1>1, <1>2, <2>1, <2>3, <2>5, <2>6 DEF CompleteTask
  <1>4. CASE ~StillOwned(h)
    <2>1. Ends(h) /\ UNCHANGED <<tasks, happened, answers>>  BY <1>t, <1>4, RestEffect DEF CompleteTask
    <2> QED  BY <1>1, <2>1 DEF CompleteTask
  <1> QED  BY <1>3, <1>4

LEMMA ContinueBranchEffect ==
  ASSUME Sound, NEW h \in Handlers, ContinueBranch(h)
  PROVE  /\ hs[h].pc = "answered" /\ hs[h].tok \in Branches /\ Slot(h) \in Slots /\ Slot(h) \in happened
         /\ \/ /\ Sleeping(hs[h].tok) /\ KeepsTo(h, "wake")
               /\ hs[h].tok \notin stale' => hs[h].at = br[hs[h].tok].at
            \/ ~Sleeping(hs[h].tok) /\ Ends(h)
         /\ Grows
         /\ UNCHANGED <<inst, br, tasks, timers, faults, orders, joined, happened, answers, reopened, dropped, revived>>
  <1>t. TypeOK /\ hs[h].tok \in Tokens /\ stale \subseteq Tokens /\ happened \subseteq Slots
    BY TypeFacts, HandlerFacts DEF Sound
  <1>1. hs[h].pc = "answered" /\ hs[h].tok \in Branches  BY <1>t, TokenFacts DEF ContinueBranch
  <1>2. Slot(h) \in happened  BY <1>1 DEF Sound, PlaceInv, Engaged
  <1>3. "wake" \in Pcs  BY DEF Pcs
  <1>4. stale' = stale \cup (IF Sleeping(hs[h].tok) THEN Late(hs[h].tok, hs[h].at, br[hs[h].tok].at) ELSE {})
    BY DEF ContinueBranch
  <1>5. Grows  BY <1>t, <1>4 DEF Grows, Late
  <1>6. CASE Sleeping(hs[h].tok)
    <2>1. KeepsTo(h, "wake")  BY <1>t, <1>3, <1>6, GotoEffect DEF ContinueBranch
    <2> QED  BY <1>t, <1>1, <1>2, <1>4, <1>5, <1>6, <2>1 DEF ContinueBranch, Late
  <1>7. CASE ~Sleeping(hs[h].tok)
    <2>1. Ends(h)  BY <1>t, <1>7, RestEffect DEF ContinueBranch
    <2> QED  BY <1>t, <1>1, <1>2, <1>5, <1>7, <2>1 DEF ContinueBranch
  <1> QED  BY <1>6, <1>7

LEMMA ContinueRootEffect ==
  ASSUME Sound, NEW h \in Handlers, ContinueRoot(h)
  PROVE  /\ hs[h].pc = "answered" /\ hs[h].tok = Root /\ Slot(h) \in happened
         /\ inst.at # Start
         /\ \/ inst.at = End /\ Ends(h)
            \/ /\ inst.at # End /\ Alone(h) /\ hs'[h].pc = "release" /\ hs'[h].tok = Root
               /\ hs'[h].at = hs[h].at /\ hs'[h].from = inst.at
         /\ Root \notin stale' => hs[h].at = inst.at
         /\ Grows
         /\ UNCHANGED <<inst, br, tasks, timers, faults, orders, joined, happened, answers, reopened, dropped, revived>>
  <1>t. TypeOK /\ hs[h] \in HandlerRecords /\ inst \in InstRecords /\ stale \subseteq Tokens
    BY TypeFacts, HandlerFacts DEF Sound
  <1>1. hs[h].pc = "answered" /\ hs[h].tok = Root  BY DEF ContinueRoot
  <1>2. Slot(h) \in happened  BY <1>1 DEF Sound, PlaceInv, Engaged
  <1>3. inst.at # Start  BY <1>1 DEF Sound, YoungInv, Young, Unengaged
  <1>4. stale' = stale \cup Late(Root, hs[h].at, inst.at)  BY DEF ContinueRoot
  <1>5. Grows /\ (Root \notin stale' => hs[h].at = inst.at)  BY <1>t, <1>4, TokenFacts DEF Grows, Late
  <1>6. CASE inst.at = End
    <2>1. Ends(h)  BY <1>t, <1>6, RestEffect DEF ContinueRoot
    <2> QED  BY <1>1, <1>2, <1>3, <1>5, <1>6, <2>1 DEF ContinueRoot
  <1>7. CASE inst.at # End
    <2>1. hs' = [hs EXCEPT ![h].pc = "release", ![h].seen = inst.status, ![h].from = inst.at]
      BY <1>7 DEF ContinueRoot
    <2>2. PICK k : k = [hs[h] EXCEPT !.pc = "release", !.seen = inst.status, !.from = inst.at]  OBVIOUS
    <2>3. /\ k \in HandlerRecords /\ k.pc = "release" /\ k.tok = hs[h].tok /\ k.at = hs[h].at /\ k.from = inst.at
      BY <2>2, <1>t DEF HandlerRecords, InstRecords, Pcs, Seens
    <2>4. hs' = [hs EXCEPT ![h] = k]  BY <2>1, <2>2, TypeFacts, <1>t
    <2>5. Alone(h) /\ hs'[h] = k  BY <2>3, <2>4, TypeFacts, <1>t DEF Alone
    <2> QED  BY <1>1, <1>2, <1>3, <1>5, <1>7, <2>3, <2>5 DEF ContinueRoot
  <1> QED  BY <1>6, <1>7

LEMMA FireRootTimerEffect ==
  ASSUME Sound, NEW h \in Handlers, FireRootTimer(h)
  PROVE  \E w \in Rests :
         /\ h \in Workers /\ <<Root, w>> \in Slots /\ KindOf(w) = "timer"
         /\ hs[h].pc = "idle" /\ ~Young
         /\ \/ /\ inst.status = "PAUSED" /\ inst.at \in Rests
               /\ Starts(h, "release", Root, w) /\ hs'[h].row = 0 /\ hs'[h].from = inst.at
               /\ Root \notin stale' => w = inst.at
            \/ hs' = hs
         /\ timers' \in [Slots -> Nat] /\ TimersOnly'
         /\ \A s \in Slots : s # <<Root, w>> => timers'[s] = timers[s]
         /\ happened' = happened \cup {<<Root, w>>} /\ happened' \subseteq Slots
         /\ Grows
         /\ UNCHANGED <<inst, br, tasks, faults, orders, joined, answers, reopened, dropped, revived>>
  <1>t. TypeOK /\ TimersOnly /\ timers \in [Slots -> Nat] /\ stale \subseteq Tokens /\ happened \subseteq Slots
        /\ inst \in InstRecords /\ inst.at \in Places
    BY TypeFacts DEF Sound, PlaceInv, InstRecords
  <1> DEFINE waits == inst.status = "PAUSED" /\ KindOf(inst.at) = "timer"
  <1>2. PICK w \in Rests :
          /\ h \in Workers
          /\ timers[<<Root, w>>] > 0
          /\ hs[h].pc = "idle"
          /\ IF waits THEN hs' = [hs EXCEPT ![h] = [Idle EXCEPT !.pc = "release", !.at = w,
                                                      !.seen = inst.status, !.from = inst.at]]
             ELSE UNCHANGED hs
          /\ stale' = stale \cup (IF waits THEN Late(Root, w, inst.at) ELSE {})
          /\ timers' = [timers EXCEPT ![<<Root, w>>] = @ - 1]
          /\ happened' = happened \cup {<<Root, w>>}
          /\ UNCHANGED <<inst, br, tasks, faults, orders, joined, answers, reopened, dropped, revived>>
    BY DEF FireRootTimer
  <1>3. <<Root, w>> \in Slots /\ <<Root, w>>[2] = w /\ w \in Places  BY SlotFacts, MarkFacts
  <1>4. KindOf(w) = "timer"  BY <1>t, <1>2, <1>3 DEF TimersOnly
  <1>5. ~Young  BY <1>2 DEF Sound, YoungInv, Untouched
  <1>6. \/ /\ inst.status = "PAUSED" /\ inst.at \in Rests
           /\ Starts(h, "release", Root, w) /\ hs'[h].row = 0 /\ hs'[h].from = inst.at
           /\ Root \notin stale' => w = inst.at
        \/ hs' = hs
    <2>1. CASE waits
      <3>1. inst.at \in Rests  BY <1>t, <2>1, MarkFacts
      <3>2. Starts(h, "release", Root, w) /\ hs'[h].row = 0 /\ hs'[h].from = inst.at
        BY <1>t, <1>2, <1>3, <2>1, ReleaseEffect
      <3>3. Root \notin stale' => w = inst.at  BY <1>2, <2>1 DEF Late
      <3> QED  BY <2>1, <3>1, <3>2, <3>3
    <2>2. CASE ~waits
      BY <1>2, <2>2
    <2> QED  BY <2>1, <2>2
  <1>8. /\ timers' \in [Slots -> Nat] /\ \A s \in Slots : s # <<Root, w>> => timers'[s] = timers[s]
    <2>1. timers[<<Root, w>>] - 1 \in Nat  BY <1>t, <1>2, <1>3
    <2> QED  BY <2>1, <1>t, <1>2, <1>3
  <1>9. TimersOnly'
    <2>1. ASSUME NEW s \in Slots  PROVE timers'[s] > 0 => KindOf(s[2]) = "timer"
      <3>1. CASE s = <<Root, w>>
        BY <3>1, <1>3, <1>4
      <3>2. CASE s # <<Root, w>>
        BY <3>2, <1>8, <1>t DEF TimersOnly
      <3> QED  BY <3>1, <3>2
    <2> QED  BY <2>1 DEF TimersOnly
  <1>10. Grows  BY <1>2, <1>t, TokenFacts DEF Grows, Late
  <1>11. happened' \subseteq Slots  BY <1>2, <1>3, <1>t
  <1>12. UNCHANGED <<inst, br, tasks, faults, orders, joined, answers, reopened, dropped, revived>>  BY <1>2
  <1>13. h \in Workers /\ hs[h].pc = "idle" /\ happened' = happened \cup {<<Root, w>>}  BY <1>2
  <1> HIDE DEF waits
  <1> QED  BY <1>3, <1>4, <1>5, <1>6, <1>8, <1>9, <1>10, <1>11, <1>12, <1>13

LEMMA SignalRootEffect ==
  ASSUME Sound, NEW h \in Handlers, SignalRoot(h)
  PROVE  /\ h \in Callers /\ inst.status = "PAUSED" /\ inst.at \in Rests
         /\ <<Root, inst.at>> \in Slots /\ KindOf(inst.at) = "signal"
         /\ Starts(h, "release", Root, inst.at) /\ hs'[h].row = 0 /\ hs'[h].from = inst.at
         /\ happened' = happened \cup {<<Root, inst.at>>} /\ happened' \subseteq Slots
         /\ UNCHANGED <<inst, br, tasks, timers, faults, orders, joined, answers, stale, reopened, dropped, revived>>
  <1>t. TypeOK /\ inst \in InstRecords /\ inst.at \in Places /\ happened \subseteq Slots
    BY TypeFacts DEF Sound, InstRecords
  <1>1. KindOf(inst.at) = "signal"  BY DEF SignalRoot
  <1>2. inst.at \in Rests  BY <1>t, <1>1, MarkFacts
  <1>3. <<Root, inst.at>> \in Slots  BY <1>2, SlotFacts
  <1>4. Starts(h, "release", Root, inst.at) /\ hs'[h].row = 0 /\ hs'[h].from = inst.at
    BY <1>t, ReleaseEffect DEF SignalRoot
  <1> QED  BY <1>t, <1>1, <1>2, <1>3, <1>4 DEF SignalRoot

LEMMA ReleaseStepEffect ==
  ASSUME Sound, NEW h \in Handlers, Release(h)
  PROVE  /\ hs[h].pc = "release" /\ KeepsTo(h, "advance") /\ hs[h].tok = Root /\ ~Young
         /\ hs[h].from \notin {Start, End} /\ Slot(h) \in happened
         /\ inst' \in InstRecords /\ inst'.at = inst.at
         /\ \/ inst'.status = "RUNNING" /\ Overruns(h, Root)
            \/ inst' = inst
         /\ Grows
         /\ UNCHANGED <<br, tasks, timers, faults, orders, joined, happened, answers, reopened, dropped, revived>>
  <1>t. TypeOK /\ inst \in InstRecords /\ stale \subseteq Tokens /\ "advance" \in Pcs
    BY TypeFacts DEF Sound, Pcs
  <1>1. hs[h].pc = "release" /\ KeepsTo(h, "advance")  BY <1>t, GotoEffect DEF Release
  <1>2. hs[h].tok = Root /\ hs[h].from \notin {Start, End} /\ Slot(h) \in happened
    BY <1>1 DEF Sound, PlaceInv, Engaged
  <1>3. ~Young  BY <1>1, <1>2 DEF Sound, YoungInv, Unengaged
  <1>4. CASE hs[h].seen = "PAUSED"
    <2>1. inst' = [inst EXCEPT !.status = "RUNNING"] /\ Writes(h, {Root})  BY <1>4 DEF Release
    <2>2. Grows /\ Overruns(h, Root)  BY <2>1, <1>t, TokenFacts, WritesEffect
    <2>3. inst' \in InstRecords /\ inst'.at = inst.at /\ inst'.status = "RUNNING"
      BY <2>1, <1>t DEF InstRecords, InstStatus
    <2> QED  BY <1>1, <1>2, <1>3, <2>2, <2>3 DEF Release
  <1>5. CASE hs[h].seen # "PAUSED"
    <2>1. inst' = inst /\ stale' = stale  BY <1>5 DEF Release
    <2>2. Grows  BY <2>1, <1>t DEF Grows
    <2> QED  BY <1>t, <1>1, <1>2, <1>3, <2>1, <2>2 DEF Release
  <1> QED  BY <1>4, <1>5

LEMMA AdvanceEffect ==
  ASSUME Sound, NEW h \in Handlers, Advance(h)
  PROVE  /\ hs[h].pc = "advance" /\ KeepsTo(h, "drive") /\ hs[h].tok = Root /\ ~Young
         /\ hs[h].from \in Places \ {Start, End} /\ Slot(h) \in happened
         /\ inst' \in InstRecords /\ inst'.at = Following(hs[h].from, Root)
         /\ inst'.at \in Rests \cup {Join, End}
         /\ inst'.status = IF inst'.at \in Rests THEN "PAUSED" ELSE inst.status
         /\ TasksKept /\ TimersKept /\ Grows /\ Overruns(h, Root)
         /\ \A b \in Branches : \A w \in Rests : <<b, w>> \in Slots => tasks'[<<b, w>>] = tasks[<<b, w>>]
         /\ UNCHANGED <<br, faults, orders, joined, happened, answers, reopened, dropped, revived>>
  <1>t. TypeOK /\ TimersOnly /\ inst \in InstRecords /\ "drive" \in Pcs /\ hs[h].from \in Places
    BY TypeFacts, HandlerFacts DEF Sound, PlaceInv, Pcs
  <1> DEFINE next == Following(hs[h].from, Root)
  <1>1. hs[h].pc = "advance" /\ KeepsTo(h, "drive")  BY <1>t, GotoEffect DEF Advance
  <1>2. hs[h].tok = Root /\ hs[h].from \notin {Start, End} /\ Slot(h) \in happened
    BY <1>1 DEF Sound, PlaceInv, Engaged
  <1>3. ~Young  BY <1>1, <1>2 DEF Sound, YoungInv, Unengaged
  <1>4. next \in Rests \cup {Join, End}  BY <1>t, <1>2, RootNext
  <1>5. /\ inst' = IF next \in Rests THEN [status |-> "PAUSED", at |-> next] ELSE [inst EXCEPT !.at = next]
        /\ tasks' = TaskRows({<<Root, next>>}) /\ timers' = TimerJobs({<<Root, next>>}) /\ Writes(h, {Root})
        /\ UNCHANGED <<br, faults, orders, joined, happened, answers, reopened, dropped, revived>>
    BY DEF Advance
  <1> HIDE DEF next
  <1>6. inst' \in InstRecords /\ inst'.at = next /\ inst'.status = IF next \in Rests THEN "PAUSED" ELSE inst.status
    <2>1. CASE next \in Rests
      BY <1>5, <2>1, MarkFacts DEF InstRecords, InstStatus
    <2>2. CASE next \notin Rests
      BY <1>t, <1>4, <1>5, <2>2, MarkFacts DEF InstRecords
    <2> QED  BY <2>1, <2>2
  <1>7. TasksKept /\ \A s \in Slots : s \notin {<<Root, next>>} => tasks'[s] = tasks[s]
    BY <1>t, <1>5, TaskRowsEffect
  <1>8. TimersKept  BY <1>t, <1>5, TimerJobsEffect
  <1>9. Grows /\ Overruns(h, Root)  BY <1>t, <1>5, TokenFacts, WritesEffect
  <1>10. \A b \in Branches : \A w \in Rests : <<b, w>> \in Slots => tasks'[<<b, w>>] = tasks[<<b, w>>]
    BY <1>7, TokenFacts
  <1> QED  BY <1>t, <1>1, <1>2, <1>3, <1>4, <1>5, <1>6, <1>7, <1>8, <1>9, <1>10 DEF next

LEMMA AdvanceRejectedEffect ==
  ASSUME Sound, NEW h \in Handlers, AdvanceRejected(h)
  PROVE  /\ hs[h].pc = "advance" /\ hs[h].tok = Root /\ Ends(h) /\ dropped' = dropped \cup {Root}
         /\ faults' \in 0..MaxFaults
         /\ UNCHANGED <<inst, br, tasks, timers, orders, joined, happened, answers, stale, reopened, revived>>
  <1>1. hs[h].pc = "advance" /\ Ends(h)  BY RestEffect DEF Sound, AdvanceRejected
  <1>2. hs[h].tok = Root  BY <1>1 DEF Sound, PlaceInv, Engaged
  <1>3. faults' \in 0..MaxFaults  BY InstanceAssumption DEF Sound, TypeOK, AdvanceRejected, Fault
  <1> QED  BY <1>1, <1>2, <1>3 DEF AdvanceRejected

LEMMA ReadForCancelEffect ==
  ASSUME Sound, NEW h \in Handlers, ReadForCancel(h)
  PROVE  /\ h \in Callers /\ inst.status \in {"RUNNING", "PAUSED"}
         /\ Starts(h, "cancel", Root, inst.at)
         /\ orders' \in 0..MaxOrders
         /\ UNCHANGED <<inst, br, tasks, timers, faults, joined, happened, answers, stale, reopened,
                        dropped, revived>>
  <1>1. "cancel" \in Pcs /\ "cancel" # "idle" /\ inst.at \in Places
    BY TypeFacts DEF Sound, InstRecords, Pcs
  <1>2. Starts(h, "cancel", Root, inst.at)  BY <1>1, TokenFacts, BeginEffect DEF Sound, ReadForCancel
  <1>3. orders' \in 0..MaxOrders  BY InstanceAssumption DEF Sound, TypeOK, ReadForCancel, Order
  <1> QED  BY <1>2, <1>3 DEF ReadForCancel, hist

LEMMA CancelEffect ==
  ASSUME Sound, NEW h \in Handlers, Cancel(h)
  PROVE  /\ hs[h].pc = "cancel" /\ hs[h].tok = Root /\ Ends(h)
         /\ inst' \in InstRecords /\ inst'.status = "CANCELLED" /\ inst'.at = inst.at
         /\ Grows /\ Overruns(h, Root)
         /\ UNCHANGED <<br, tasks, timers, faults, orders, joined, happened, answers, reopened, dropped, revived>>
  <1>t. TypeOK /\ inst \in InstRecords  BY TypeFacts DEF Sound
  <1>1. hs[h].pc = "cancel" /\ Ends(h)  BY <1>t, RestEffect DEF Cancel
  <1>2. hs[h].tok = Root  BY <1>1 DEF Sound, PlaceInv, Engaged
  <1>3. Grows /\ Overruns(h, Root)  BY <1>t, TokenFacts, WritesEffect DEF Cancel
  <1> QED  BY <1>t, <1>1, <1>2, <1>3 DEF Cancel, InstRecords, InstStatus

LEMMA RetryEffect ==
  ASSUME Sound, NEW h \in Handlers, Retry(h)
  PROVE  /\ h \in Callers /\ inst.status = "FAILED"
         /\ Starts(h, "drive", Root, inst.at)
         /\ inst' \in InstRecords /\ inst'.status = "RUNNING" /\ inst'.at = inst.at
         /\ revived' = TRUE /\ orders' \in 0..MaxOrders
         /\ Grows /\ Overruns(h, Root)
         /\ UNCHANGED <<br, tasks, timers, faults, joined, happened, answers, reopened, dropped>>
  <1>t. TypeOK /\ inst \in InstRecords  BY TypeFacts DEF Sound
  <1>1. "drive" \in Pcs /\ "drive" # "idle" /\ inst.at \in Places  BY <1>t DEF InstRecords, Pcs
  <1>2. Starts(h, "drive", Root, inst.at)  BY <1>t, <1>1, TokenFacts, BeginEffect DEF Retry
  <1>3. orders' \in 0..MaxOrders  BY <1>t, InstanceAssumption DEF TypeOK, Retry, Order
  <1>4. Grows /\ Overruns(h, Root)  BY <1>t, TokenFacts, WritesEffect DEF Retry
  <1>5. inst' \in InstRecords /\ inst'.status = "RUNNING" /\ inst'.at = inst.at
    BY <1>t DEF Retry, InstRecords, InstStatus
  <1> QED  BY <1>2, <1>3, <1>4, <1>5 DEF Retry, Retryable

LEMMA CrashEffect ==
  ASSUME Sound, NEW h \in Handlers, Crash(h)
  PROVE  /\ hs[h].pc # "idle" /\ Ends(h)
         /\ Carries(h) => hs[h].tok \in dropped'
         /\ dropped \subseteq dropped' /\ dropped' \subseteq Tokens
         /\ faults' \in 0..MaxFaults
         /\ TimersKept
         /\ Young => \A w \in Rests : timers'[<<Root, w>>] = timers[<<Root, w>>]
         /\ UNCHANGED <<inst, br, tasks, orders, joined, happened, answers, stale, reopened, revived>>
  <1>t. TypeOK /\ timers \in [Slots -> Nat] /\ TimersOnly /\ hs[h].tok \in Tokens /\ dropped \subseteq Tokens
        /\ Slot(h) = <<hs[h].tok, hs[h].at>>
    BY TypeFacts, HandlerFacts DEF Sound, PlaceInv
  <1>1. hs[h].pc # "idle" /\ Ends(h)  BY <1>t, RestEffect DEF Crash
  <1>2. dropped' = dropped \cup (IF Carries(h) THEN {hs[h].tok} ELSE {})  BY DEF Crash
  <1>3. faults' \in 0..MaxFaults  BY <1>t, InstanceAssumption DEF TypeOK, Crash, Fault
  <1>4. CASE h \in Workers
    <2>1. KindOf(hs[h].at) = "timer"  BY <1>1, <1>4 DEF Sound, PlaceInv, Engaged
    <2>2. timers' = [timers EXCEPT ![Slot(h)] = @ + 1]  BY <1>4 DEF Crash
    <2>3. /\ timers' \in [Slots -> Nat] /\ \A s \in Slots : s # Slot(h) => timers'[s] = timers[s]
      <3>1. PICK u, v : u = Slot(h) /\ v = timers[Slot(h)] + 1  OBVIOUS
      <3>2. timers' = [timers EXCEPT ![u] = v]  BY <2>2, <3>1
      <3>3. u \in Slots => v \in Nat  BY <1>t, <3>1
      <3>4. \A s \in Slots : timers'[s] = IF s = u THEN v ELSE timers[s]  BY <3>2, <1>t
      <3>5. timers' = [s \in Slots |-> timers'[s]]  BY <3>2, <1>t
      <3>6. \A s \in Slots : timers'[s] \in Nat  BY <3>3, <3>4, <1>t
      <3> QED  BY <3>1, <3>4, <3>5, <3>6
    <2>4. TimersOnly'
      <3>1. ASSUME NEW s \in Slots  PROVE timers'[s] > 0 => KindOf(s[2]) = "timer"
        <4>1. CASE s = Slot(h)
          <5>1. s[2] = hs[h].at  BY <4>1, <1>t
          <5> QED  BY <5>1, <2>1
        <4>2. CASE s # Slot(h)
          BY <4>2, <2>3, <1>t DEF TimersOnly
        <4> QED  BY <4>1, <4>2
      <3> QED  BY <3>1 DEF TimersOnly
    <2>5. Young => \A w \in Rests : timers'[<<Root, w>>] = timers[<<Root, w>>]
      <3>1. Young => hs[h].tok # Root  BY <1>1, <1>4 DEF Sound, YoungInv, Unengaged
      <3>2. \A w \in Rests : <<Root, w>> \in Slots /\ (hs[h].tok # Root => <<Root, w>> # Slot(h))
        BY <1>t, SlotFacts
      <3> QED  BY <3>1, <3>2, <2>3
    <2> QED  BY <1>t, <1>1, <1>2, <1>3, <2>3, <2>4, <2>5 DEF Crash, TimersKept
  <1>5. CASE h \notin Workers
    <2>1. timers' = timers  BY <1>5 DEF Crash
    <2>2. TimersKept  BY <1>t, <2>1, SameTimers
    <2> QED  BY <1>t, <1>1, <1>2, <1>3, <2>1, <2>2 DEF Crash
  <1> QED  BY <1>4, <1>5

LEMMA RedeliverEffect ==
  ASSUME Sound, Redeliver
  PROVE  /\ faults' \in 0..MaxFaults /\ TimersKept
         /\ Young => \A w \in Rests : timers'[<<Root, w>>] = timers[<<Root, w>>]
         /\ UNCHANGED <<inst, br, tasks, hs, orders, joined, happened, answers, stale, reopened,
                        dropped, revived>>
  <1>t. TypeOK /\ timers \in [Slots -> Nat] /\ TimersOnly /\ happened \subseteq Slots
    BY TypeFacts DEF Sound, PlaceInv
  <1>1. PICK s \in happened : KindOf(s[2]) = "timer" /\ timers' = [timers EXCEPT ![s] = @ + 1]
    BY DEF Redeliver
  <1>2. s \in Slots  BY <1>t, <1>1
  <1>3. timers' \in [Slots -> Nat] /\ \A q \in Slots : q # s => timers'[q] = timers[q]
    BY <1>t, <1>1, <1>2
  <1>4. TimersOnly'  BY <1>t, <1>1, <1>3 DEF TimersOnly
  <1>5. Young => \A w \in Rests : timers'[<<Root, w>>] = timers[<<Root, w>>]
    <2>1. Young => \A w \in Rests : <<Root, w>> # s  BY <1>1 DEF Sound, YoungInv, Untouched
    <2>2. \A w \in Rests : <<Root, w>> \in Slots  BY SlotFacts
    <2> QED  BY <2>1, <2>2, <1>3
  <1>6. faults' \in 0..MaxFaults  BY <1>t, InstanceAssumption DEF TypeOK, Redeliver, Fault
  <1> QED  BY <1>3, <1>4, <1>5, <1>6 DEF Redeliver, hist, TimersKept

-----------------------------------------------------------------------------
(* Types *)

LEMMA TypeNext ==
  ASSUME TypeOK,
         inst' \in InstRecords, br' \in [Branches -> BranchRecords], tasks' \in [Slots -> Seq(TaskStatus)],
         timers' \in [Slots -> Nat], hs' \in [Handlers -> HandlerRecords],
         faults' \in 0..MaxFaults, orders' \in 0..MaxOrders,
         joined' \in Nat, answers' \in [Slots -> Nat], happened' \subseteq Slots, reopened' \subseteq Slots,
         stale' \subseteq Tokens, dropped' \subseteq Tokens, revived' \in BOOLEAN
  PROVE  TypeOK'
  BY DEF TypeOK, InstRecords, BranchRecords, HandlerRecords, Seens

LEMMA Bounds ==
  ASSUME TypeOK
  PROVE  faults \in 0..MaxFaults /\ orders \in 0..MaxOrders
  BY DEF TypeOK

LEMMA SweepInst ==
  ASSUME TypeOK, NEW h \in Handlers, NEW row, Sweeps(h, row)
  PROVE  inst' \in InstRecords /\ joined' \in Nat
  <1>1. /\ [status |-> "PAUSED", at |-> <<Root, 1>>] \in InstRecords
        /\ [status |-> "FORKED", at |-> Fork] \in InstRecords
        /\ [status |-> "FAILED", at |-> Join] \in InstRecords
        /\ [status |-> "FAILED", at |-> Fork] \in InstRecords
    <2>1. <<Root, 1>> \in Places  BY RootNext, MarkFacts
    <2> QED  BY <2>1, MarkFacts DEF InstRecords, InstStatus
  <1>2. joined \in Nat  BY TypeFacts
  <1> QED  BY <1>1, <1>2 DEF Sweeps

LEMMA TypeStep ==
  ASSUME Sound, [Next]_vars
  PROVE  TypeOK'
  <1>t. TypeOK  BY DEF Sound
  <1> USE <1>t, TypeFacts, Bounds DEF Alone, Grows, TasksKept, TimersKept
  <1>1. ASSUME NEW h \in Handlers, SweepStep(h)  PROVE TypeOK'
    <2>1. PICK row \in [Branches -> BranchRecords] :
            /\ Ends(h) /\ Sweeps(h, row) /\ revived' \in BOOLEAN
            /\ UNCHANGED <<orders, happened, answers, reopened, dropped>>
      BY <1>1 DEF SweepStep
    <2>2. inst' \in InstRecords /\ joined' \in Nat  BY <2>1, SweepInst
    <2> QED  BY <2>1, <2>2, TypeNext DEF Ends, Sweeps
  <1>2. ASSUME NEW h \in Handlers, DriveIdles(h)  PROVE TypeOK'
    BY <1>2, DriveIdlesEffect, TypeNext DEF Ends
  <1>3. ASSUME NEW h \in Handlers, DriveRoot(h)  PROVE TypeOK'
    BY <1>3, DriveRootEffect, TypeNext DEF Ends
  <1>4. ASSUME NEW h \in Handlers, DriveEnd(h)  PROVE TypeOK'
    BY <1>4, DriveEndEffect, TypeNext DEF Ends
  <1>5. ASSUME NEW h \in Handlers, DriveRejected(h)  PROVE TypeOK'
    BY <1>5, DriveRejectedEffect, TypeNext DEF Ends
  <1>6. ASSUME NEW h \in Handlers, DriveRollsBack(h)  PROVE TypeOK'
    BY <1>6, DriveRollsBackEffect, HandlerFacts, TypeNext DEF Ends
  <1>7. ASSUME NEW h \in Handlers, WakeBranch(h)  PROVE TypeOK'
    BY <1>7, WakeBranchEffect, TypeNext DEF KeepsTo
  <1>8. ASSUME NEW h \in Handlers, FireBranchTimer(h)  PROVE TypeOK'
    BY <1>8, FireBranchTimerEffect, TypeNext DEF Starts, Ends
  <1>9. ASSUME NEW h \in Handlers, SignalBranch(h)  PROVE TypeOK'
    BY <1>9, SignalBranchEffect, TypeNext DEF Starts
  <1>10. ASSUME ClaimTask  PROVE TypeOK'
    BY <1>10, ClaimTaskEffect, TypeNext DEF RowSet
  <1>11. ASSUME NEW h \in Handlers, ReadToComplete(h)  PROVE TypeOK'
    BY <1>11, ReadToCompleteEffect, TypeNext DEF Starts
  <1>12. ASSUME NEW h \in Handlers, ReadToReassign(h)  PROVE TypeOK'
    BY <1>12, ReadToReassignEffect, TypeNext DEF Starts
  <1>13. ASSUME NEW h \in Handlers, ReassignTask(h)  PROVE TypeOK'
    BY <1>13, ReassignTaskEffect, TypeNext DEF Ends, RowSet
  <1>14. ASSUME NEW h \in Handlers, CompleteTask(h)  PROVE TypeOK'
    BY <1>14, CompleteTaskEffect, TypeNext DEF KeepsTo, Ends, RowSet
  <1>15. ASSUME NEW h \in Handlers, ContinueBranch(h)  PROVE TypeOK'
    BY <1>15, ContinueBranchEffect, TypeNext DEF KeepsTo, Ends
  <1>16. ASSUME NEW h \in Handlers, ContinueRoot(h)  PROVE TypeOK'
    BY <1>16, ContinueRootEffect, TypeNext DEF Ends
  <1>17. ASSUME NEW h \in Handlers, FireRootTimer(h)  PROVE TypeOK'
    BY <1>17, FireRootTimerEffect, TypeNext DEF Starts
  <1>18. ASSUME NEW h \in Handlers, SignalRoot(h)  PROVE TypeOK'
    BY <1>18, SignalRootEffect, TypeNext DEF Starts
  <1>19. ASSUME NEW h \in Handlers, Release(h)  PROVE TypeOK'
    BY <1>19, ReleaseStepEffect, TypeNext DEF KeepsTo
  <1>20. ASSUME NEW h \in Handlers, Advance(h)  PROVE TypeOK'
    BY <1>20, AdvanceEffect, TypeNext DEF KeepsTo
  <1>21. ASSUME NEW h \in Handlers, AdvanceRejected(h)  PROVE TypeOK'
    BY <1>21, AdvanceRejectedEffect, TokenFacts, TypeNext DEF Ends
  <1>22. ASSUME NEW h \in Handlers, ReadForCancel(h)  PROVE TypeOK'
    BY <1>22, ReadForCancelEffect, TypeNext DEF Starts
  <1>23. ASSUME NEW h \in Handlers, Cancel(h)  PROVE TypeOK'
    BY <1>23, CancelEffect, TypeNext DEF Ends
  <1>24. ASSUME NEW h \in Handlers, Retry(h)  PROVE TypeOK'
    BY <1>24, RetryEffect, TypeNext DEF Starts
  <1>25. ASSUME NEW h \in Handlers, Crash(h)  PROVE TypeOK'
    BY <1>25, CrashEffect, TypeNext DEF Ends
  <1>26. ASSUME Redeliver  PROVE TypeOK'
    BY <1>26, RedeliverEffect, TypeNext
  <1>27. ASSUME UNCHANGED vars  PROVE TypeOK'
    BY <1>27 DEF vars, hist, TypeOK
  <1> QED
    BY <1>1, <1>2, <1>3, <1>4, <1>5, <1>6, <1>7, <1>8, <1>9, <1>10, <1>11, <1>12, <1>13, <1>14, <1>15, <1>16,
       <1>17, <1>18, <1>19, <1>20, <1>21, <1>22, <1>23, <1>24, <1>25, <1>26, <1>27,
       DriveBranchesEffect, DriveStartEffect
    DEF Next, GoOn, Execute, Deliver, Ask

-----------------------------------------------------------------------------
(* PlaceInv and YoungInv *)

\* Events stay, and so do rows.
OnlyMore == happened \subseteq happened' /\ \A s \in Slots : DOMAIN tasks[s] \subseteq DOMAIN tasks'[s]

LEMMA EngagedKept ==
  ASSUME Sound, NEW g \in Handlers, hs'[g] = hs[g], OnlyMore
  PROVE  Engaged(g)'
  <1>1. Engaged(g) /\ Slot(g)' = Slot(g)  BY DEF Sound, PlaceInv, Slot
  <1> QED  BY <1>1 DEF Engaged, OnlyMore

LEMMA EngagedEnds ==
  ASSUME NEW h \in Handlers, Ends(h)
  PROVE  Engaged(h)'
  BY DEF Ends, Engaged

LEMMA PlaceNext ==
  ASSUME Sound, NEW h \in Handlers, Alone(h), OnlyMore, Placed(br)', TimersOnly', Engaged(h)'
  PROVE  PlaceInv'
  BY EngagedKept DEF PlaceInv, Alone

LEMMA PlaceSame ==
  ASSUME Sound, hs' = hs, OnlyMore, Placed(br)', TimersOnly'
  PROVE  PlaceInv'
  BY EngagedKept DEF PlaceInv

LEMMA SlotNext ==
  ASSUME NEW h \in Handlers
  PROVE  Slot(h)' = <<hs'[h].tok, hs'[h].at>>
  BY DEF Slot

LEMMA PlaceStep ==
  ASSUME Sound, [Next]_vars
  PROVE  PlaceInv'
  <1>t. TypeOK /\ Placed(br) /\ TimersOnly /\ \A h \in Handlers : Engaged(h)  BY DEF Sound, PlaceInv
  <1>b. br' = br => Placed(br)'  BY <1>t
  <1>m. timers' = timers => TimersOnly'  BY <1>t DEF TimersOnly
  <1>o. (happened \subseteq happened' /\ tasks' = tasks) => OnlyMore  BY DEF OnlyMore
  <1>p. (happened \subseteq happened' /\ TasksKept) => OnlyMore  BY DEF OnlyMore, TasksKept
  <1>k. TimersKept => TimersOnly'  BY DEF TimersKept
  <1>r. ASSUME NEW s, NEW i, NEW status, RowSet(s, i, status), happened \subseteq happened'
        PROVE  OnlyMore
    BY <1>r DEF OnlyMore, RowSet
  <1>e. \A h \in Handlers : Ends(h) => Alone(h) /\ Engaged(h)'  BY EngagedEnds DEF Ends
  <1>1. ASSUME NEW h \in Handlers, SweepStep(h)  PROVE PlaceInv'
    BY <1>1, <1>e, <1>k, <1>p, PlaceNext DEF SweepStep, Sweeps
  <1>2. ASSUME NEW h \in Handlers, DriveIdles(h)  PROVE PlaceInv'
    BY <1>2, <1>e, <1>b, <1>m, <1>o, DriveIdlesEffect, PlaceNext
  <1>3. ASSUME NEW h \in Handlers, DriveRoot(h)  PROVE PlaceInv'
    BY <1>3, <1>e, <1>b, <1>k, <1>p, DriveRootEffect, PlaceNext
  <1>4. ASSUME NEW h \in Handlers, DriveEnd(h)  PROVE PlaceInv'
    BY <1>4, <1>e, <1>b, <1>m, <1>o, DriveEndEffect, PlaceNext
  <1>5. ASSUME NEW h \in Handlers, DriveRejected(h)  PROVE PlaceInv'
    BY <1>5, <1>e, <1>b, <1>m, <1>o, DriveRejectedEffect, PlaceNext
  <1>6. ASSUME NEW h \in Handlers, DriveRollsBack(h)  PROVE PlaceInv'
    BY <1>6, <1>e, <1>b, <1>m, <1>o, DriveRollsBackEffect, PlaceNext
  <1>7. ASSUME NEW h \in Handlers, WakeBranch(h)  PROVE PlaceInv'
    <2>1. Placed(br)'
      <3>1. ASSUME NEW b \in Branches
            PROVE  br'[b].at \in Lane(b) /\ (br'[b].status = "COMPLETED" => br'[b].at = Join)
        <4>1. CASE b = hs[h].tok  BY <1>7, <1>t, <4>1, WakeBranchEffect DEF Placed
        <4>2. CASE b # hs[h].tok  BY <1>7, <1>t, <4>2, WakeBranchEffect DEF Placed
        <4> QED  BY <4>1, <4>2
      <3> QED  BY <3>1 DEF Placed
    <2>2. Engaged(h)'
      <3>1. KeepsTo(h, "drive") /\ Engaged(h) /\ hs[h].pc = "wake"  BY <1>7, <1>t, WakeBranchEffect
      <3> QED  BY <3>1 DEF Engaged, KeepsTo
    <2> QED  BY <1>7, <1>m, <1>o, <2>1, <2>2, WakeBranchEffect, PlaceNext DEF KeepsTo
  <1>8. ASSUME NEW h \in Handlers, FireBranchTimer(h)  PROVE PlaceInv'
    <2>1. PICK b \in Branches, w \in Rests :
         /\ <<b, w>> \in Slots /\ KindOf(w) = "timer"
         /\ (Starts(h, "wake", b, w) /\ hs'[h].row = 0) \/ Ends(h)
         /\ TimersOnly'
         /\ happened' = happened \cup {<<b, w>>}
         /\ br' = br /\ tasks' = tasks
      BY <1>8, FireBranchTimerEffect
    <2>2. CASE Starts(h, "wake", b, w) /\ hs'[h].row = 0
      <3>1. Slot(h)' = <<b, w>> /\ <<b, w>> \in happened' /\ b # Root
        BY <2>1, <2>2, SlotNext, TokenFacts DEF Starts
      <3>2. Engaged(h)'  BY <2>1, <2>2, <3>1 DEF Engaged, Starts
      <3> QED  BY <2>1, <2>2, <3>2, <1>b, <1>o, PlaceNext DEF Starts
    <2>3. CASE Ends(h)
      BY <2>1, <2>3, <1>e, <1>b, <1>o, PlaceNext
    <2> QED  BY <2>1, <2>2, <2>3
  <1>9. ASSUME NEW h \in Handlers, SignalBranch(h)  PROVE PlaceInv'
    <2>1. PICK b \in Branches :
         /\ h \in Callers /\ KindOf(br[b].at) = "signal"
         /\ <<b, br[b].at>> \in Slots
         /\ Starts(h, "wake", b, br[b].at)
         /\ happened' = happened \cup {<<b, br[b].at>>}
         /\ br' = br /\ tasks' = tasks /\ timers' = timers
      BY <1>9, SignalBranchEffect
    <2>2. Slot(h)' = <<b, br[b].at>> /\ Slot(h)' \in happened' /\ b # Root
      BY <2>1, SlotNext, TokenFacts DEF Starts
    <2>3. h \notin Workers  BY <2>1, InstanceAssumption
    <2>4. Engaged(h)'  BY <2>1, <2>2, <2>3 DEF Engaged, Starts
    <2> QED  BY <2>1, <2>4, <1>b, <1>m, <1>o, PlaceNext DEF Starts
  <1>10. ASSUME ClaimTask  PROVE PlaceInv'
    BY <1>10, <1>b, <1>m, <1>r, ClaimTaskEffect, PlaceSame
  <1>11. ASSUME NEW h \in Handlers, ReadToComplete(h)  PROVE PlaceInv'
    <2>1. PICK s \in Slots : \E i \in DOMAIN tasks[s] :
         /\ h \in Callers /\ tasks[s][i] \in Open
         /\ Starts(h, "submit", s[1], s[2]) /\ hs'[h].row = i /\ hs'[h].seen = tasks[s][i]
         /\ UNCHANGED <<br, tasks, timers, happened>>
      BY <1>11, ReadToCompleteEffect
    <2>2. h \notin Workers  BY <2>1, InstanceAssumption
    <2>3. Slot(h)' = s  BY <2>1, SlotNext, SlotFacts DEF Starts
    <2>4. Engaged(h)'  BY <2>1, <2>2, <2>3 DEF Engaged, Starts
    <2> QED  BY <2>1, <2>4, <1>b, <1>m, <1>o, PlaceNext DEF Starts
  <1>12. ASSUME NEW h \in Handlers, ReadToReassign(h)  PROVE PlaceInv'
    <2>1. PICK s \in Slots : \E i \in DOMAIN tasks[s] :
         /\ h \in Callers
         /\ Starts(h, "reassign", s[1], s[2]) /\ hs'[h].row = i
         /\ UNCHANGED <<br, tasks, timers, happened>>
      BY <1>12, ReadToReassignEffect
    <2>2. h \notin Workers  BY <2>1, InstanceAssumption
    <2>3. Slot(h)' = s  BY <2>1, SlotNext, SlotFacts DEF Starts
    <2>4. Engaged(h)'  BY <2>1, <2>2, <2>3 DEF Engaged, Starts
    <2> QED  BY <2>1, <2>4, <1>b, <1>m, <1>o, PlaceNext DEF Starts
  <1>13. ASSUME NEW h \in Handlers, ReassignTask(h)  PROVE PlaceInv'
    BY <1>13, <1>e, <1>b, <1>m, <1>r, ReassignTaskEffect, PlaceNext
  <1>14. ASSUME NEW h \in Handlers, CompleteTask(h)  PROVE PlaceInv'
    <2>1. br' = br /\ timers' = timers /\ hs[h].pc = "submit"  BY <1>14, CompleteTaskEffect
    <2>2. CASE Ends(h) /\ UNCHANGED <<tasks, happened, answers>>
      BY <2>1, <2>2, <1>e, <1>b, <1>m, <1>o, PlaceNext
    <2>3. ASSUME NEW s \in Slots, NEW i \in DOMAIN tasks[s], Slot(h) = s, KeepsTo(h, "answered"),
                 RowSet(s, i, "COMPLETED"), happened' = happened \cup {s}
          PROVE  PlaceInv'
      <3>1. Slot(h)' = s  BY <2>3, SlotNext DEF KeepsTo, Slot
      <3>r. hs[h].row \in DOMAIN tasks[Slot(h)]  BY <1>t, <2>1 DEF Engaged
      <3>n. hs[h].row # 0  BY <1>t, <2>3, <3>r, RowFacts
      <3>2. Engaged(h)'  BY <1>t, <2>1, <2>3, <3>1, <3>n DEF Engaged, KeepsTo
      <3> QED  BY <2>1, <2>3, <3>2, <1>b, <1>m, <1>r, PlaceNext DEF KeepsTo
    <2> QED  BY <1>14, <2>2, <2>3, CompleteTaskEffect
  <1>15. ASSUME NEW h \in Handlers, ContinueBranch(h)  PROVE PlaceInv'
    <2>1. /\ UNCHANGED <<br, tasks, timers, happened>> /\ hs[h].pc = "answered" /\ hs[h].tok \in Branches
          /\ Slot(h) \in happened /\ (KeepsTo(h, "wake") \/ Ends(h))
      BY <1>15, ContinueBranchEffect
    <2>2. CASE Ends(h)
      BY <2>1, <2>2, <1>e, <1>b, <1>m, <1>o, PlaceNext
    <2>3. CASE KeepsTo(h, "wake")
      <3>1. Slot(h)' = Slot(h)  BY <2>3 DEF KeepsTo, Slot
      <3>2. hs[h].row # 0  BY <1>t, <2>1 DEF Engaged
      <3>3. Engaged(h)'  BY <1>t, <2>1, <2>3, <3>1, <3>2, TokenFacts DEF Engaged, KeepsTo
      <3> QED  BY <2>1, <2>3, <3>3, <1>b, <1>m, <1>o, PlaceNext DEF KeepsTo
    <2> QED  BY <2>1, <2>2, <2>3
  <1>16. ASSUME NEW h \in Handlers, ContinueRoot(h)  PROVE PlaceInv'
    <2>1. /\ UNCHANGED <<br, tasks, timers, happened>> /\ hs[h].pc = "answered" /\ hs[h].tok = Root
          /\ Slot(h) \in happened /\ inst.at # Start
      BY <1>16, ContinueRootEffect
    <2>2. CASE Ends(h)
      BY <2>1, <2>2, <1>e, <1>b, <1>m, <1>o, PlaceNext
    <2>3. CASE /\ inst.at # End /\ Alone(h) /\ hs'[h].pc = "release" /\ hs'[h].tok = Root
               /\ hs'[h].at = hs[h].at /\ hs'[h].from = inst.at
      <3>1. Slot(h)' = Slot(h)  BY <2>1, <2>3 DEF Slot
      <3>2. Engaged(h)'  BY <1>t, <2>1, <2>3, <3>1 DEF Engaged
      <3> QED  BY <2>1, <2>3, <3>2, <1>b, <1>m, <1>o, PlaceNext
    <2> QED  BY <1>16, <2>2, <2>3, ContinueRootEffect
  <1>17. ASSUME NEW h \in Handlers, FireRootTimer(h)  PROVE PlaceInv'
    <2>1. PICK w \in Rests :
         /\ KindOf(w) = "timer"
         /\ \/ inst.at \in Rests /\ Starts(h, "release", Root, w) /\ hs'[h].from = inst.at
            \/ hs' = hs
         /\ TimersOnly'
         /\ happened' = happened \cup {<<Root, w>>}
         /\ br' = br /\ tasks' = tasks
      BY <1>17, FireRootTimerEffect
    <2>2. CASE inst.at \in Rests /\ Starts(h, "release", Root, w) /\ hs'[h].from = inst.at
      <3>1. Slot(h)' = <<Root, w>> /\ Slot(h)' \in happened'  BY <2>1, <2>2, SlotNext DEF Starts
      <3>2. Engaged(h)'  BY <2>1, <2>2, <3>1, MarkFacts DEF Engaged, Starts
      <3> QED  BY <2>1, <2>2, <3>2, <1>b, <1>o, PlaceNext DEF Starts
    <2>3. CASE hs' = hs
      BY <2>1, <2>3, <1>b, <1>o, PlaceSame
    <2> QED  BY <2>1, <2>2, <2>3
  <1>18. ASSUME NEW h \in Handlers, SignalRoot(h)  PROVE PlaceInv'
    <2>1. /\ h \in Callers /\ inst.at \in Rests
          /\ Starts(h, "release", Root, inst.at) /\ hs'[h].from = inst.at
          /\ happened' = happened \cup {<<Root, inst.at>>} /\ UNCHANGED <<br, tasks, timers>>
      BY <1>18, SignalRootEffect
    <2>2. Slot(h)' = <<Root, inst.at>> /\ Slot(h)' \in happened' /\ h \notin Workers
      BY <2>1, SlotNext, InstanceAssumption DEF Starts
    <2>3. Engaged(h)'  BY <2>1, <2>2, MarkFacts DEF Engaged, Starts
    <2> QED  BY <2>1, <2>3, <1>b, <1>m, <1>o, PlaceNext DEF Starts
  <1>19. ASSUME NEW h \in Handlers, Release(h)  PROVE PlaceInv'
    <2>1. /\ hs[h].pc = "release" /\ KeepsTo(h, "advance") /\ UNCHANGED <<br, tasks, timers, happened>>
      BY <1>19, ReleaseStepEffect
    <2>2. Slot(h)' = Slot(h)  BY <2>1 DEF KeepsTo, Slot
    <2>3. Engaged(h)'  BY <1>t, <2>1, <2>2 DEF Engaged, KeepsTo
    <2> QED  BY <2>1, <2>3, <1>b, <1>m, <1>o, PlaceNext DEF KeepsTo
  <1>20. ASSUME NEW h \in Handlers, Advance(h)  PROVE PlaceInv'
    <2>1. /\ hs[h].pc = "advance" /\ KeepsTo(h, "drive") /\ TasksKept /\ TimersKept /\ UNCHANGED <<br, happened>>
      BY <1>20, AdvanceEffect
    <2>3. Engaged(h)'  BY <1>t, <2>1 DEF Engaged, KeepsTo
    <2> QED  BY <2>1, <2>3, <1>b, <1>k, <1>p, PlaceNext DEF KeepsTo
  <1>21. ASSUME NEW h \in Handlers, AdvanceRejected(h)  PROVE PlaceInv'
    BY <1>21, <1>e, <1>b, <1>m, <1>o, AdvanceRejectedEffect, PlaceNext
  <1>22. ASSUME NEW h \in Handlers, ReadForCancel(h)  PROVE PlaceInv'
    <2>1. h \in Callers /\ Starts(h, "cancel", Root, inst.at) /\ UNCHANGED <<br, tasks, timers, happened>>
      BY <1>22, ReadForCancelEffect
    <2>2. Engaged(h)'  BY <2>1, InstanceAssumption DEF Engaged, Starts
    <2> QED  BY <2>1, <2>2, <1>b, <1>m, <1>o, PlaceNext DEF Starts
  <1>23. ASSUME NEW h \in Handlers, Cancel(h)  PROVE PlaceInv'
    BY <1>23, <1>e, <1>b, <1>m, <1>o, CancelEffect, PlaceNext
  <1>24. ASSUME NEW h \in Handlers, Retry(h)  PROVE PlaceInv'
    <2>1. h \in Callers /\ Starts(h, "drive", Root, inst.at) /\ UNCHANGED <<br, tasks, timers, happened>>
      BY <1>24, RetryEffect
    <2>2. Engaged(h)'  BY <2>1, InstanceAssumption DEF Engaged, Starts
    <2> QED  BY <2>1, <2>2, <1>b, <1>m, <1>o, PlaceNext DEF Starts
  <1>25. ASSUME NEW h \in Handlers, Crash(h)  PROVE PlaceInv'
    BY <1>25, <1>e, <1>b, <1>k, <1>o, CrashEffect, PlaceNext
  <1>26. ASSUME Redeliver  PROVE PlaceInv'
    BY <1>26, <1>b, <1>k, <1>o, RedeliverEffect, PlaceSame
  <1>27. ASSUME UNCHANGED vars  PROVE PlaceInv'
    <2>1. UNCHANGED <<br, tasks, timers, happened, hs>>  BY <1>27 DEF vars, hist
    <2> QED  BY <2>1, <1>b, <1>m, <1>o, PlaceSame
  <1> QED
    BY <1>1, <1>2, <1>3, <1>4, <1>5, <1>6, <1>7, <1>8, <1>9, <1>10, <1>11, <1>12, <1>13, <1>14, <1>15, <1>16,
       <1>17, <1>18, <1>19, <1>20, <1>21, <1>22, <1>23, <1>24, <1>25, <1>26, <1>27,
       DriveBranchesEffect, DriveStartEffect
    DEF Next, GoOn, Execute, Deliver, Ask

RootQuiet == Young => RootKept /\ \A w \in Rests : <<Root, w>> \in happened' => <<Root, w>> \in happened

LEMMA YoungFrame ==
  ASSUME Sound, NEW h \in Handlers, \A g \in Handlers \ {h} : hs'[g] = hs[g], RootQuiet,
         Young => Unengaged(h)'
  PROVE  Young => (\A w \in Rests : Untouched(w)') /\ (\A g \in Handlers : Unengaged(g)')
  <1> SUFFICES ASSUME Young
               PROVE  (\A w \in Rests : Untouched(w)') /\ (\A g \in Handlers : Unengaged(g)')
    OBVIOUS
  <1>1. (\A w \in Rests : Untouched(w)) /\ (\A g \in Handlers : Unengaged(g))  BY DEF Sound, YoungInv
  <1>2. \A w \in Rests : Untouched(w)'  BY <1>1 DEF Untouched, RootQuiet, RootKept
  <1>3. \A g \in Handlers \ {h} : Unengaged(g)'  BY <1>1 DEF Unengaged
  <1> QED  BY <1>2, <1>3

\* A step that does not move the root, and one that takes it past the fork.
LEMMA YoungStays ==
  ASSUME Sound, NEW h \in Handlers, \A g \in Handlers \ {h} : hs'[g] = hs[g], RootQuiet,
         Young => Unengaged(h)', joined' = joined,
         inst'.at = inst.at, inst'.status = "FORKED" => inst.status = "FORKED"
  PROVE  YoungInv'
  <1>1. Young' => Young  BY DEF Young
  <1> QED  BY <1>1, YoungFrame DEF Sound, YoungInv, Young

LEMMA YoungOver ==
  ASSUME inst'.at \notin {Start, Fork}, inst'.status # "FORKED"
  PROVE  YoungInv'
  BY DEF YoungInv, Young

LEMMA YoungStep ==
  ASSUME Sound, [Next]_vars
  PROVE  YoungInv'
  <1>t. TypeOK /\ YoungInv  BY DEF Sound
  <1>q. (tasks' = tasks /\ timers' = timers /\ happened' = happened) => RootQuiet  BY DEF RootQuiet, RootKept
  <1>e. \A h \in Handlers : Ends(h) => Unengaged(h)' /\ \A g \in Handlers \ {h} : hs'[g] = hs[g]
    BY DEF Ends, Alone, Unengaged
  <1>b. \A b \in Branches : b # Root  BY TokenFacts
  <1>s. ASSUME NEW s \in Slots, NEW i \in DOMAIN tasks[s], NEW status, RowSet(s, i, status),
               Young => \A w \in Rests : <<Root, w>> \in happened' => <<Root, w>> \in happened \/ <<Root, w>> = s,
               timers' = timers
        PROVE  RootQuiet
    <2>1. tasks[s] # <<>>  BY <1>t, RowFacts
    <2>2. Young => \A w \in Rests : <<Root, w>> # s  BY <1>t, <2>1 DEF YoungInv, Untouched
    <2>3. \A w \in Rests : <<Root, w>> \in Slots  BY SlotFacts
    <2> QED  BY <1>s, <2>2, <2>3 DEF RootQuiet, RootKept, RowSet
  <1>1. ASSUME NEW h \in Handlers, SweepStep(h)  PROVE YoungInv'
    <2>1. PICK row \in [Branches -> BranchRecords] :
            /\ Ends(h) /\ Sweeps(h, row) /\ joined = 0 /\ happened' = happened
      BY <1>1 DEF SweepStep
    <2>2. CASE inst' = [status |-> "PAUSED", at |-> <<Root, 1>>]
      <3>1. inst'.at \in Rests /\ inst'.status = "PAUSED"  BY <2>2, RootNext, MarkFacts
      <3> QED  BY <3>1, MarkFacts, YoungOver
    <2>3. CASE inst' = [status |-> "FAILED", at |-> Join]
      <3>1. inst'.at = Join /\ inst'.status = "FAILED"  BY <2>3
      <3> QED  BY <3>1, MarkFacts, YoungOver
    <2>4. CASE inst'.at = Fork /\ joined' = joined /\ RootKept
      <3>1. RootQuiet  BY <2>1, <2>4 DEF RootQuiet
      <3>2. Young => (\A w \in Rests : Untouched(w)') /\ (\A g \in Handlers : Unengaged(g)')
        BY <2>1, <3>1, <1>e, YoungFrame
      <3>3. Young  BY <1>1 DEF SweepStep
      <3> QED  BY <2>1, <2>4, <3>2, <3>3, MarkFacts DEF YoungInv, Young
    <2> QED  BY <2>1, <2>2, <2>3, <2>4 DEF Sweeps
  <1>2. ASSUME NEW h \in Handlers, DriveIdles(h)  PROVE YoungInv'
    BY <1>2, <1>e, <1>q, DriveIdlesEffect, YoungStays
  <1>3. ASSUME NEW h \in Handlers, DriveRoot(h)  PROVE YoungInv'
    BY <1>3, DriveRootEffect, MarkFacts, YoungOver
  <1>4. ASSUME NEW h \in Handlers, DriveEnd(h)  PROVE YoungInv'
    BY <1>4, DriveEndEffect, MarkFacts, YoungOver
  <1>5. ASSUME NEW h \in Handlers, DriveRejected(h)  PROVE YoungInv'
    BY <1>5, <1>e, <1>q, DriveRejectedEffect, YoungStays
  <1>6. ASSUME NEW h \in Handlers, DriveRollsBack(h)  PROVE YoungInv'
    BY <1>6, <1>e, <1>q, DriveRollsBackEffect, YoungStays
  <1>7. ASSUME NEW h \in Handlers, WakeBranch(h)  PROVE YoungInv'
    <2>1. KeepsTo(h, "drive") /\ hs[h].tok \in Branches  BY <1>7, WakeBranchEffect
    <2>2. Unengaged(h)' /\ \A g \in Handlers \ {h} : hs'[g] = hs[g]
      BY <2>1, <1>b DEF KeepsTo, Alone, Unengaged
    <2> QED  BY <1>7, <2>2, <1>q, WakeBranchEffect, YoungStays
  <1>8. ASSUME NEW h \in Handlers, FireBranchTimer(h)  PROVE YoungInv'
    <2>1. PICK b \in Branches, w \in Rests :
         /\ <<b, w>> \in Slots
         /\ Starts(h, "wake", b, w) \/ Ends(h)
         /\ \A s \in Slots : s # <<b, w>> => timers'[s] = timers[s]
         /\ happened' = happened \cup {<<b, w>>}
         /\ UNCHANGED <<inst, tasks, joined>>
      BY <1>8, FireBranchTimerEffect
    <2>2. RootQuiet
      <3>1. \A v \in Rests : <<Root, v>> \in Slots /\ <<Root, v>> # <<b, w>>  BY <1>b, SlotFacts
      <3> QED  BY <2>1, <3>1 DEF RootQuiet, RootKept
    <2>3. Unengaged(h)' /\ \A g \in Handlers \ {h} : hs'[g] = hs[g]
      BY <2>1, <1>b, <1>e DEF Starts, Alone, Unengaged
    <2> QED  BY <2>1, <2>2, <2>3, YoungStays
  <1>9. ASSUME NEW h \in Handlers, SignalBranch(h)  PROVE YoungInv'
    <2>1. PICK b \in Branches :
         /\ Starts(h, "wake", b, br[b].at)
         /\ happened' = happened \cup {<<b, br[b].at>>}
         /\ UNCHANGED <<inst, tasks, timers, joined>>
      BY <1>9, SignalBranchEffect
    <2>2. RootQuiet
      <3>1. \A v \in Rests : <<Root, v>> # <<b, br[b].at>>  BY <1>b
      <3> QED  BY <2>1, <3>1 DEF RootQuiet, RootKept
    <2>3. Unengaged(h)' /\ \A g \in Handlers \ {h} : hs'[g] = hs[g]
      BY <2>1, <1>b DEF Starts, Alone, Unengaged
    <2> QED  BY <2>1, <2>2, <2>3, YoungStays
  <1>10. ASSUME ClaimTask  PROVE YoungInv'
    <2>1. RootQuiet /\ UNCHANGED <<inst, joined, hs>>  BY <1>10, <1>s, ClaimTaskEffect
    <2>2. PICK h : h \in Handlers  BY InstanceAssumption DEF Handlers
    <2>3. Young => Unengaged(h)'  BY <1>t, <2>1, <2>2 DEF YoungInv, Unengaged
    <2> QED  BY <2>1, <2>2, <2>3, YoungStays
  <1>11. ASSUME NEW h \in Handlers, ReadToComplete(h)  PROVE YoungInv'
    <2>1. PICK s \in Slots : \E i \in DOMAIN tasks[s] :
         /\ Starts(h, "submit", s[1], s[2])
         /\ UNCHANGED <<inst, tasks, timers, happened, joined>>
      BY <1>11, ReadToCompleteEffect
    <2>2. tasks[s] # <<>> /\ s = <<s[1], s[2]>> /\ s[2] \in Rests  BY <1>t, <2>1, RowFacts, SlotFacts
    <2>3. Young => s[1] # Root  BY <1>t, <2>2 DEF YoungInv, Untouched
    <2>4. (Young => Unengaged(h)') /\ \A g \in Handlers \ {h} : hs'[g] = hs[g]
      BY <2>1, <2>3 DEF Starts, Alone, Unengaged
    <2> QED  BY <2>1, <2>4, <1>q, YoungStays
  <1>12. ASSUME NEW h \in Handlers, ReadToReassign(h)  PROVE YoungInv'
    <2>1. PICK s \in Slots : \E i \in DOMAIN tasks[s] :
         /\ Starts(h, "reassign", s[1], s[2])
         /\ UNCHANGED <<inst, tasks, timers, happened, joined>>
      BY <1>12, ReadToReassignEffect
    <2>2. tasks[s] # <<>> /\ s = <<s[1], s[2]>> /\ s[2] \in Rests  BY <1>t, <2>1, RowFacts, SlotFacts
    <2>3. Young => s[1] # Root  BY <1>t, <2>2 DEF YoungInv, Untouched
    <2>4. (Young => Unengaged(h)') /\ \A g \in Handlers \ {h} : hs'[g] = hs[g]
      BY <2>1, <2>3 DEF Starts, Alone, Unengaged
    <2> QED  BY <2>1, <2>4, <1>q, YoungStays
  <1>13. ASSUME NEW h \in Handlers, ReassignTask(h)  PROVE YoungInv'
    <2>1. RootQuiet /\ Ends(h) /\ UNCHANGED <<inst, joined>>  BY <1>13, <1>s, ReassignTaskEffect
    <2> QED  BY <2>1, <1>e, YoungStays
  <1>14. ASSUME NEW h \in Handlers, CompleteTask(h)  PROVE YoungInv'
    <2>1. UNCHANGED <<inst, timers, joined>>  BY <1>14, CompleteTaskEffect
    <2>2. CASE Ends(h) /\ UNCHANGED <<tasks, happened, answers>>
      BY <2>1, <2>2, <1>e, <1>q, YoungStays
    <2>3. ASSUME NEW s \in Slots, NEW i \in DOMAIN tasks[s], Slot(h) = s, KeepsTo(h, "answered"),
                 RowSet(s, i, "COMPLETED"), happened' = happened \cup {s}
          PROVE  YoungInv'
      <3>1. RootQuiet  BY <2>1, <2>3, <1>s
      <3>2. tasks[s] # <<>> /\ s = <<hs[h].tok, hs[h].at>> /\ s[2] \in Rests
        BY <1>t, <2>3, RowFacts, SlotFacts DEF Slot
      <3>3. Young => hs[h].tok # Root  BY <1>t, <3>2, SlotFacts DEF YoungInv, Untouched
      <3>4. (Young => Unengaged(h)') /\ \A g \in Handlers \ {h} : hs'[g] = hs[g]
        BY <2>3, <3>3 DEF KeepsTo, Alone, Unengaged
      <3> QED  BY <2>1, <3>1, <3>4, YoungStays
    <2> QED  BY <1>14, <2>2, <2>3, CompleteTaskEffect
  <1>15. ASSUME NEW h \in Handlers, ContinueBranch(h)  PROVE YoungInv'
    <2>1. /\ UNCHANGED <<inst, tasks, timers, happened, joined>> /\ hs[h].tok \in Branches
          /\ (KeepsTo(h, "wake") \/ Ends(h))
      BY <1>15, ContinueBranchEffect
    <2>2. Unengaged(h)' /\ \A g \in Handlers \ {h} : hs'[g] = hs[g]
      BY <2>1, <1>b, <1>e DEF KeepsTo, Alone, Unengaged
    <2> QED  BY <2>1, <2>2, <1>q, YoungStays
  <1>16. ASSUME NEW h \in Handlers, ContinueRoot(h)  PROVE YoungInv'
    <2>1. /\ UNCHANGED <<inst, tasks, timers, happened, joined>> /\ hs[h].pc = "answered" /\ hs[h].tok = Root
      BY <1>16, ContinueRootEffect
    <2>2. ~Young  BY <1>t, <2>1 DEF YoungInv, Unengaged
    <2>3. \A g \in Handlers \ {h} : hs'[g] = hs[g]  BY <1>16, <1>e, ContinueRootEffect DEF Alone
    <2> QED  BY <2>1, <2>2, <2>3, <1>q, YoungStays
  <1>17. ASSUME NEW h \in Handlers, FireRootTimer(h)  PROVE YoungInv'
    <2>1. ~Young /\ UNCHANGED <<inst, joined>>  BY <1>17, FireRootTimerEffect
    <2>2. \A g \in Handlers \ {h} : hs'[g] = hs[g]  BY <1>17, FireRootTimerEffect DEF Starts, Alone
    <2> QED  BY <2>1, <2>2, YoungStays DEF RootQuiet
  <1>18. ASSUME NEW h \in Handlers, SignalRoot(h)  PROVE YoungInv'
    <2>1. inst.at \in Rests /\ UNCHANGED <<inst, joined>>  BY <1>18, SignalRootEffect
    <2>2. ~Young  BY <2>1, MarkFacts DEF Young
    <2>3. \A g \in Handlers \ {h} : hs'[g] = hs[g]  BY <1>18, SignalRootEffect DEF Starts, Alone
    <2> QED  BY <2>1, <2>2, <2>3, YoungStays DEF RootQuiet
  <1>19. ASSUME NEW h \in Handlers, Release(h)  PROVE YoungInv'
    <2>1. ~Young /\ inst'.at = inst.at /\ (inst'.status = "RUNNING" \/ inst' = inst) /\ joined' = joined
      BY <1>19, ReleaseStepEffect
    <2>2. \A g \in Handlers \ {h} : hs'[g] = hs[g]  BY <1>19, ReleaseStepEffect DEF KeepsTo, Alone
    <2> QED  BY <2>1, <2>2, YoungStays DEF RootQuiet
  <1>20. ASSUME NEW h \in Handlers, Advance(h)  PROVE YoungInv'
    <2>1. /\ ~Young /\ inst'.at \in Rests \cup {Join, End}
          /\ inst'.status = IF inst'.at \in Rests THEN "PAUSED" ELSE inst.status
      BY <1>20, AdvanceEffect
    <2>2. inst.status # "FORKED"  BY <1>t, <2>1 DEF YoungInv, Young
    <2> QED  BY <2>1, <2>2, MarkFacts, YoungOver
  <1>21. ASSUME NEW h \in Handlers, AdvanceRejected(h)  PROVE YoungInv'
    BY <1>21, <1>e, <1>q, AdvanceRejectedEffect, YoungStays
  <1>22. ASSUME NEW h \in Handlers, ReadForCancel(h)  PROVE YoungInv'
    <2>1. h \in Callers /\ Starts(h, "cancel", Root, inst.at) /\ UNCHANGED <<inst, tasks, timers, happened, joined>>
      BY <1>22, ReadForCancelEffect
    <2>2. Unengaged(h)' /\ \A g \in Handlers \ {h} : hs'[g] = hs[g]
      BY <2>1, InstanceAssumption DEF Starts, Alone, Unengaged
    <2> QED  BY <2>1, <2>2, <1>q, YoungStays
  <1>23. ASSUME NEW h \in Handlers, Cancel(h)  PROVE YoungInv'
    BY <1>23, <1>e, <1>q, CancelEffect, YoungStays
  <1>24. ASSUME NEW h \in Handlers, Retry(h)  PROVE YoungInv'
    <2>1. h \in Callers /\ Starts(h, "drive", Root, inst.at) /\ inst'.at = inst.at /\ inst'.status = "RUNNING"
          /\ UNCHANGED <<tasks, timers, happened, joined>>
      BY <1>24, RetryEffect
    <2>2. Unengaged(h)' /\ \A g \in Handlers \ {h} : hs'[g] = hs[g]
      BY <2>1, InstanceAssumption DEF Starts, Alone, Unengaged
    <2> QED  BY <2>1, <2>2, <1>q, YoungStays
  <1>25. ASSUME NEW h \in Handlers, Crash(h)  PROVE YoungInv'
    <2>1. RootQuiet  BY <1>25, CrashEffect DEF RootQuiet, RootKept
    <2> QED  BY <1>25, <2>1, <1>e, CrashEffect, YoungStays
  <1>26. ASSUME Redeliver  PROVE YoungInv'
    <2>1. RootQuiet /\ UNCHANGED <<inst, joined, hs>>  BY <1>26, RedeliverEffect DEF RootQuiet, RootKept
    <2>2. PICK h : h \in Handlers  BY InstanceAssumption DEF Handlers
    <2>3. Young => Unengaged(h)'  BY <1>t, <2>1, <2>2 DEF YoungInv, Unengaged
    <2> QED  BY <2>1, <2>2, <2>3, YoungStays
  <1>27. ASSUME UNCHANGED vars  PROVE YoungInv'
    BY <1>27, <1>t DEF vars, hist, YoungInv, Young, Untouched, Unengaged
  <1> QED
    BY <1>1, <1>2, <1>3, <1>4, <1>5, <1>6, <1>7, <1>8, <1>9, <1>10, <1>11, <1>12, <1>13, <1>14, <1>15, <1>16,
       <1>17, <1>18, <1>19, <1>20, <1>21, <1>22, <1>23, <1>24, <1>25, <1>26, <1>27,
       DriveBranchesEffect, DriveStartEffect
    DEF Next, GoOn, Execute, Deliver, Ask

\* The run begins at its start, with one request that drives it.
LEMMA SoundInit ==
  ASSUME Init
  PROVE  Sound
  <1>i. /\ inst = [status |-> "RUNNING", at |-> Start]
        /\ br = [b \in Branches |-> [status |-> "none", at |-> Fork]]
        /\ tasks = [s \in Slots |-> <<>>] /\ timers = [s \in Slots |-> 0]
        /\ faults = 0 /\ orders = 0 /\ joined = 0 /\ happened = {} /\ answers = [s \in Slots |-> 0]
        /\ stale = {} /\ reopened = {} /\ dropped = {} /\ revived = FALSE
    BY DEF Init
  <1>h. PICK c \in Callers : hs = [h \in Handlers |-> IF h = c THEN [Idle EXCEPT !.pc = "drive"] ELSE Idle]
    BY DEF Init
  <1>k. PICK k : k = [Idle EXCEPT !.pc = "drive"]  OBVIOUS
  <1>1. k \in HandlerRecords /\ k.pc = "drive" /\ k.tok = Root  BY <1>k, IdleFacts DEF HandlerRecords, Pcs
  <1>2. hs = [h \in Handlers |-> IF h = c THEN k ELSE Idle]  BY <1>h, <1>k
  <1>3. hs \in [Handlers -> HandlerRecords] /\ c \notin Workers /\ c \in Handlers
        /\ \A h \in Handlers : hs[h].pc = IF h = c THEN "drive" ELSE "idle"
    BY <1>1, <1>2, IdleFacts, InstanceAssumption DEF Handlers
  <1>4. TypeOK
    <2>1. inst \in InstRecords /\ br \in [Branches -> BranchRecords]
      BY <1>i, MarkFacts DEF InstRecords, InstStatus, BranchRecords, BranchStatus
    <2>2. tasks \in [Slots -> Seq(TaskStatus)]
      <3>1. <<>> \in Seq(TaskStatus)  BY EmptySeq
      <3> QED  BY <3>1, <1>i
    <2>3. timers \in [Slots -> Nat] /\ answers \in [Slots -> Nat]  BY <1>i
    <2>4. faults \in 0..MaxFaults /\ orders \in 0..MaxOrders  BY <1>i, InstanceAssumption
    <2> QED  BY <1>i, <1>3, <2>1, <2>2, <2>3, <2>4
             DEF TypeOK, InstRecords, BranchRecords, HandlerRecords, Seens
  <1>5. PlaceInv
    <2>1. Placed(br)  BY <1>i, LaneFacts DEF Placed
    <2>2. TimersOnly  BY <1>i DEF TimersOnly
    <2>3. \A h \in Handlers : Engaged(h)  BY <1>3 DEF Engaged
    <2> QED  BY <2>1, <2>2, <2>3 DEF PlaceInv
  <1>6. YoungInv
    <2>1. \A w \in Rests : Untouched(w)  BY <1>i, SlotFacts DEF Untouched
    <2>2. \A h \in Handlers : Unengaged(h)  BY <1>3 DEF Unengaged
    <2> QED  BY <1>i, <2>1, <2>2 DEF YoungInv
  <1> QED  BY <1>4, <1>5, <1>6 DEF Sound

THEOREM SoundHolds == Spec => []Sound
  <1>1. Init => Sound  BY SoundInit
  <1>2. Sound /\ [Next]_vars => Sound'  BY TypeStep, PlaceStep, YoungStep DEF Sound
  <1> QED  BY <1>1, <1>2, PTL DEF Spec

\* Every value stays in its range: cursors on places of the definition, handlers on
\* rows and tokens that exist.
THEOREM TypeCorrect == Spec => []TypeOK
  <1>1. Sound => TypeOK  BY DEF Sound
  <1> QED  BY <1>1, SoundHolds, PTL

-----------------------------------------------------------------------------
(* ReadInv *)

WrittenKnown(h) == /\ Grows
                   /\ \A b \in Branches : br'[b] = br[b] \/ Overruns(h, b)
                   /\ inst' = inst \/ Overruns(h, Root)
CompletedAtEnd == inst.status = "COMPLETED" /\ Root \notin stale => inst.at = End

LEMMA OthersStillSo ==
  ASSUME Sound, ReadInv, NEW h \in Handlers, WrittenKnown(h), NEW g \in Handlers \ {h}, hs'[g] = hs[g]
  PROVE  StillSo(g)'
  <1>1. StillSo(g) /\ Engaged(g) /\ hs[g].tok \in Tokens
    BY HandlerFacts DEF Sound, PlaceInv, ReadInv
  <1>2. ASSUME hs[g].pc = "wake", hs[g].tok \notin stale'
        PROVE  br'[hs[g].tok].status = "PAUSED" /\ br'[hs[g].tok].at = hs[g].at
    <2>1. hs[g].tok \in Branches  BY <1>1, <1>2, TokenFacts DEF Engaged
    <2>2. br'[hs[g].tok] = br[hs[g].tok]  BY <1>2, <2>1 DEF WrittenKnown, Overruns, Holding
    <2>3. hs[g].tok \notin stale  BY <1>2 DEF WrittenKnown, Grows
    <2> QED  BY <1>1, <1>2, <2>2, <2>3 DEF StillSo
  <1>3. ASSUME hs[g].pc \in {"release", "advance", "cancel"}, Root \notin stale'
        PROVE  Root \notin stale /\ inst' = inst
    <2>1. hs[g].tok = Root  BY <1>1, <1>3 DEF Engaged
    <2> QED  BY <1>3, <2>1 DEF WrittenKnown, Grows, Overruns, Holding
  <1> QED  BY <1>1, <1>2, <1>3 DEF StillSo

LEMMA ReadNext ==
  ASSUME Sound, ReadInv, NEW h \in Handlers, Alone(h), WrittenKnown(h), StillSo(h)', CompletedAtEnd'
  PROVE  ReadInv'
  BY OthersStillSo DEF ReadInv, Alone, CompletedAtEnd

LEMMA ReadSame ==
  ASSUME Sound, ReadInv, UNCHANGED <<inst, br, hs>>, Grows
  PROVE  ReadInv'
  BY DEF ReadInv, StillSo, Grows

LEMMA ReadStep ==
  ASSUME Sound, ReadInv, [Next]_vars
  PROVE  ReadInv'
  <1>t. TypeOK /\ CompletedAtEnd  BY DEF Sound, ReadInv, CompletedAtEnd
  <1>g. stale' = stale => Grows  BY <1>t, TypeFacts DEF Grows
  <1>e. \A h \in Handlers : Ends(h) => Alone(h) /\ StillSo(h)'  BY DEF Ends, StillSo
  <1>k. \A h \in Handlers : Grows /\ inst' = inst /\ br' = br => WrittenKnown(h) /\ CompletedAtEnd'
    BY <1>t DEF WrittenKnown, CompletedAtEnd, Grows
  <1>r. \A h \in Handlers : Grows /\ Overruns(h, Root) /\ br' = br => WrittenKnown(h)
    BY DEF WrittenKnown
  <1>n. inst'.status # "COMPLETED" => CompletedAtEnd'  BY DEF CompletedAtEnd
  <1>b. \A b \in Branches : b # Root  BY TokenFacts
  <1>1. ASSUME NEW h \in Handlers, SweepStep(h)  PROVE ReadInv'
    <2>1. PICK row \in [Branches -> BranchRecords] :
            /\ Ends(h) /\ Sweeps(h, row)
            /\ row = br \/ \A b \in Branches : row[b].status = "ACTIVE"
      BY <1>1 DEF SweepStep
    <2>2. WrittenKnown(h)
      <3>1. \A b \in Branches : br'[b] = br[b] \/ Overruns(h, b)  BY <2>1 DEF Sweeps, Spared
      <3> QED  BY <2>1, <3>1 DEF WrittenKnown, Sweeps
    <2>3. inst'.status # "COMPLETED"  BY <2>1 DEF Sweeps
    <2> QED  BY <2>1, <2>2, <2>3, <1>e, <1>n, ReadNext
  <1>2. ASSUME NEW h \in Handlers, DriveIdles(h)  PROVE ReadInv'
    BY <1>2, <1>e, <1>g, <1>k, DriveIdlesEffect, ReadNext
  <1>3. ASSUME NEW h \in Handlers, DriveRoot(h)  PROVE ReadInv'
    BY <1>3, <1>e, <1>r, <1>n, DriveRootEffect, ReadNext
  <1>4. ASSUME NEW h \in Handlers, DriveEnd(h)  PROVE ReadInv'
    <2>1. CompletedAtEnd'  BY <1>4, DriveEndEffect DEF CompletedAtEnd
    <2> QED  BY <1>4, <2>1, <1>e, <1>r, DriveEndEffect, ReadNext
  <1>5. ASSUME NEW h \in Handlers, DriveRejected(h)  PROVE ReadInv'
    BY <1>5, <1>e, <1>r, <1>n, DriveRejectedEffect, ReadNext
  <1>6. ASSUME NEW h \in Handlers, DriveRollsBack(h)  PROVE ReadInv'
    BY <1>6, <1>e, <1>r, <1>n, DriveRollsBackEffect, ReadNext
  <1>7. ASSUME NEW h \in Handlers, WakeBranch(h)  PROVE ReadInv'
    <2>1. /\ KeepsTo(h, "drive") /\ Grows /\ Overruns(h, hs[h].tok) /\ inst' = inst
          /\ \A b \in Branches : b # hs[h].tok => br'[b] = br[b]
      BY <1>7, WakeBranchEffect
    <2>2. WrittenKnown(h)  BY <2>1 DEF WrittenKnown
    <2>3. CompletedAtEnd'  BY <1>t, <2>1 DEF CompletedAtEnd, Grows
    <2>4. StillSo(h)' /\ Alone(h)  BY <2>1 DEF KeepsTo, StillSo
    <2> QED  BY <2>2, <2>3, <2>4, ReadNext
  <1>8. ASSUME NEW h \in Handlers, FireBranchTimer(h)  PROVE ReadInv'
    <2>1. PICK b \in Branches, w \in Rests :
         /\ \/ Sleeping(b) /\ Starts(h, "wake", b, w) /\ (b \notin stale' => w = br[b].at)
            \/ Ends(h)
         /\ Grows /\ UNCHANGED <<inst, br>>
      BY <1>8, FireBranchTimerEffect
    <2>2. CASE Ends(h)  BY <2>1, <2>2, <1>e, <1>k, ReadNext
    <2>3. CASE Sleeping(b) /\ Starts(h, "wake", b, w) /\ (b \notin stale' => w = br[b].at)
      <3>1. StillSo(h)' /\ Alone(h)  BY <2>1, <2>3 DEF Starts, StillSo, Sleeping
      <3> QED  BY <2>1, <3>1, <1>k, ReadNext
    <2> QED  BY <2>1, <2>2, <2>3
  <1>9. ASSUME NEW h \in Handlers, SignalBranch(h)  PROVE ReadInv'
    <2>1. PICK b \in Branches :
         Sleeping(b) /\ Starts(h, "wake", b, br[b].at) /\ UNCHANGED <<inst, br, stale>>
      BY <1>9, SignalBranchEffect
    <2>2. StillSo(h)' /\ Alone(h)  BY <2>1 DEF Starts, StillSo, Sleeping
    <2> QED  BY <2>1, <2>2, <1>g, <1>k, ReadNext
  <1>10. ASSUME ClaimTask  PROVE ReadInv'
    BY <1>10, <1>g, ClaimTaskEffect, ReadSame
  <1>11. ASSUME NEW h \in Handlers, ReadToComplete(h)  PROVE ReadInv'
    <2>1. PICK s \in Slots : Starts(h, "submit", s[1], s[2]) /\ UNCHANGED <<inst, br, stale>>
      BY <1>11, ReadToCompleteEffect
    <2>2. StillSo(h)' /\ Alone(h)  BY <2>1 DEF Starts, StillSo
    <2> QED  BY <2>1, <2>2, <1>g, <1>k, ReadNext
  <1>12. ASSUME NEW h \in Handlers, ReadToReassign(h)  PROVE ReadInv'
    <2>1. PICK s \in Slots : Starts(h, "reassign", s[1], s[2]) /\ UNCHANGED <<inst, br, stale>>
      BY <1>12, ReadToReassignEffect
    <2>2. StillSo(h)' /\ Alone(h)  BY <2>1 DEF Starts, StillSo
    <2> QED  BY <2>1, <2>2, <1>g, <1>k, ReadNext
  <1>13. ASSUME NEW h \in Handlers, ReassignTask(h)  PROVE ReadInv'
    BY <1>13, <1>e, <1>g, <1>k, ReassignTaskEffect, ReadNext
  <1>14. ASSUME NEW h \in Handlers, CompleteTask(h)  PROVE ReadInv'
    <2>1. (KeepsTo(h, "answered") \/ Ends(h)) /\ UNCHANGED <<inst, br, stale>>
      BY <1>14, CompleteTaskEffect
    <2>2. StillSo(h)' /\ Alone(h)  BY <2>1, <1>e DEF KeepsTo, StillSo
    <2> QED  BY <2>1, <2>2, <1>g, <1>k, ReadNext
  <1>15. ASSUME NEW h \in Handlers, ContinueBranch(h)  PROVE ReadInv'
    <2>1. /\ \/ Sleeping(hs[h].tok) /\ KeepsTo(h, "wake") /\ (hs[h].tok \notin stale' => hs[h].at = br[hs[h].tok].at)
             \/ Ends(h)
          /\ Grows /\ UNCHANGED <<inst, br>>
      BY <1>15, ContinueBranchEffect
    <2>2. StillSo(h)' /\ Alone(h)  BY <2>1, <1>e DEF KeepsTo, StillSo, Sleeping
    <2> QED  BY <2>1, <2>2, <1>k, ReadNext
  <1>16. ASSUME NEW h \in Handlers, ContinueRoot(h)  PROVE ReadInv'
    <2>1. /\ \/ Ends(h)
             \/ Alone(h) /\ hs'[h].pc = "release" /\ hs'[h].at = hs[h].at /\ hs'[h].from = inst.at
          /\ (Root \notin stale' => hs[h].at = inst.at)
          /\ Grows /\ UNCHANGED <<inst, br>>
      BY <1>16, ContinueRootEffect
    <2>2. StillSo(h)' /\ Alone(h)  BY <2>1, <1>e DEF StillSo
    <2> QED  BY <2>1, <2>2, <1>k, ReadNext
  <1>17. ASSUME NEW h \in Handlers, FireRootTimer(h)  PROVE ReadInv'
    <2>1. PICK w \in Rests :
         /\ \/ /\ Starts(h, "release", Root, w) /\ hs'[h].from = inst.at
               /\ Root \notin stale' => w = inst.at
            \/ hs' = hs
         /\ Grows /\ UNCHANGED <<inst, br>>
      BY <1>17, FireRootTimerEffect
    <2>2. CASE hs' = hs  BY <2>1, <2>2, ReadSame
    <2>3. CASE Starts(h, "release", Root, w) /\ hs'[h].from = inst.at /\ (Root \notin stale' => w = inst.at)
      <3>1. StillSo(h)' /\ Alone(h)  BY <2>1, <2>3 DEF Starts, StillSo
      <3> QED  BY <2>1, <3>1, <1>k, ReadNext
    <2> QED  BY <2>1, <2>2, <2>3
  <1>18. ASSUME NEW h \in Handlers, SignalRoot(h)  PROVE ReadInv'
    <2>1. Starts(h, "release", Root, inst.at) /\ hs'[h].from = inst.at /\ UNCHANGED <<inst, br, stale>>
      BY <1>18, SignalRootEffect
    <2>2. StillSo(h)' /\ Alone(h)  BY <2>1 DEF Starts, StillSo
    <2> QED  BY <2>1, <2>2, <1>g, <1>k, ReadNext
  <1>19. ASSUME NEW h \in Handlers, Release(h)  PROVE ReadInv'
    <2>1. /\ hs[h].pc = "release" /\ KeepsTo(h, "advance") /\ inst'.at = inst.at /\ br' = br /\ Grows
          /\ \/ inst'.status = "RUNNING" /\ Overruns(h, Root)
             \/ inst' = inst
      BY <1>19, ReleaseStepEffect
    <2>2. StillSo(h)
      BY DEF ReadInv
    <2>3. StillSo(h)' /\ Alone(h)  BY <2>1, <2>2 DEF KeepsTo, StillSo, Grows
    <2>4. WrittenKnown(h) /\ CompletedAtEnd'  BY <2>1, <1>k, <1>r, <1>n
    <2> QED  BY <2>3, <2>4, ReadNext
  <1>20. ASSUME NEW h \in Handlers, Advance(h)  PROVE ReadInv'
    <2>1. /\ hs[h].pc = "advance" /\ KeepsTo(h, "drive") /\ hs[h].from # End /\ br' = br
          /\ inst'.status = IF inst'.at \in Rests THEN "PAUSED" ELSE inst.status
          /\ Grows /\ Overruns(h, Root)
      BY <1>20, AdvanceEffect
    <2>2. StillSo(h)' /\ Alone(h)  BY <2>1 DEF KeepsTo, StillSo
    <2>3. CompletedAtEnd'
      <3>1. inst'.status = "COMPLETED" => inst.status = "COMPLETED"  BY <2>1
      <3>2. Root \notin stale' => Root \notin stale  BY <2>1 DEF Grows
      <3>3. StillSo(h)  BY DEF ReadInv
      <3> QED  BY <2>1, <3>1, <3>2, <3>3, <1>t DEF CompletedAtEnd, StillSo
    <2> QED  BY <2>1, <2>2, <2>3, <1>r, ReadNext
  <1>21. ASSUME NEW h \in Handlers, AdvanceRejected(h)  PROVE ReadInv'
    BY <1>21, <1>e, <1>g, <1>k, AdvanceRejectedEffect, ReadNext
  <1>22. ASSUME NEW h \in Handlers, ReadForCancel(h)  PROVE ReadInv'
    <2>1. Starts(h, "cancel", Root, inst.at) /\ inst.status \in {"RUNNING", "PAUSED"} /\ UNCHANGED <<inst, br, stale>>
      BY <1>22, ReadForCancelEffect
    <2>2. StillSo(h)' /\ Alone(h)  BY <2>1 DEF Starts, StillSo
    <2> QED  BY <2>1, <2>2, <1>g, <1>k, ReadNext
  <1>23. ASSUME NEW h \in Handlers, Cancel(h)  PROVE ReadInv'
    BY <1>23, <1>e, <1>r, <1>n, CancelEffect, ReadNext
  <1>24. ASSUME NEW h \in Handlers, Retry(h)  PROVE ReadInv'
    <2>1. Starts(h, "drive", Root, inst.at) /\ inst'.status = "RUNNING" /\ br' = br /\ Grows /\ Overruns(h, Root)
      BY <1>24, RetryEffect
    <2>2. StillSo(h)' /\ Alone(h)  BY <2>1 DEF Starts, StillSo
    <2> QED  BY <2>1, <2>2, <1>r, <1>n, ReadNext
  <1>25. ASSUME NEW h \in Handlers, Crash(h)  PROVE ReadInv'
    BY <1>25, <1>e, <1>g, <1>k, CrashEffect, ReadNext
  <1>26. ASSUME Redeliver  PROVE ReadInv'
    BY <1>26, <1>g, RedeliverEffect, ReadSame
  <1>27. ASSUME UNCHANGED vars  PROVE ReadInv'
    BY <1>27, <1>g, ReadSame DEF vars, hist
  <1> QED
    BY <1>1, <1>2, <1>3, <1>4, <1>5, <1>6, <1>7, <1>8, <1>9, <1>10, <1>11, <1>12, <1>13, <1>14, <1>15, <1>16,
       <1>17, <1>18, <1>19, <1>20, <1>21, <1>22, <1>23, <1>24, <1>25, <1>26, <1>27,
       DriveBranchesEffect, DriveStartEffect
    DEF Next, GoOn, Execute, Deliver, Ask

LEMMA ReadInit ==
  ASSUME Init
  PROVE  ReadInv
  <1>1. \A h \in Handlers : hs[h].pc \in {"drive", "idle"}
    <2>1. PICK c \in Callers : hs = [h \in Handlers |-> IF h = c THEN [Idle EXCEPT !.pc = "drive"] ELSE Idle]
      BY DEF Init
    <2>2. PICK k : k = [Idle EXCEPT !.pc = "drive"]  OBVIOUS
    <2>3. k.pc = "drive"  BY <2>2, IdleFacts DEF HandlerRecords
    <2> QED  BY <2>1, <2>2, <2>3, IdleFacts
  <1>2. inst.status = "RUNNING"  BY DEF Init
  <1> QED  BY <1>1, <1>2 DEF ReadInv, StillSo

LEMMA ReadHolds == Spec => [](Sound /\ ReadInv)
  <1>1. Init => Sound /\ ReadInv  BY SoundInit, ReadInit
  <1>2. (Sound /\ ReadInv) /\ [Next]_vars => (Sound /\ ReadInv)'
    BY TypeStep, PlaceStep, YoungStep, ReadStep DEF Sound
  <1> QED  BY <1>1, <1>2, PTL DEF Spec

-----------------------------------------------------------------------------
(* A completed run *)

\* A completed run stays completed, unless a handler wrote it from an earlier read: the
\* continuation of a late answer, a timer or a cancellation that read the run before.
THEOREM CompletedIsFinalHolds == Spec => CompletedIsFinal
  <1>1. Sound /\ ReadInv /\ [Next]_vars
          => [inst.status = "COMPLETED" => inst'.status = "COMPLETED" \/ Root \in stale']_vars
    <2> SUFFICES ASSUME Sound, ReadInv, [Next]_vars, inst.status = "COMPLETED", Root \notin stale',
                        inst' # inst
                 PROVE  inst'.status = "COMPLETED"
      OBVIOUS
    <2>t. /\ Grows => inst.at = End
          /\ \A h \in Handlers : StillSo(h)
      BY DEF Grows, ReadInv
    <2>e. End \notin {Start, Fork}  BY MarkFacts
    <2>1. ASSUME NEW h \in Handlers, SweepStep(h)  PROVE FALSE
      <3>1. Young /\ Grows  BY <2>1 DEF SweepStep, Sweeps
      <3> QED  BY <3>1, <2>t, <2>e DEF Young
    <2>2. ASSUME NEW h \in Handlers, DriveIdles(h)  PROVE FALSE
      BY <2>2, DriveIdlesEffect
    <2>3. ASSUME NEW h \in Handlers, DriveRoot(h)  PROVE FALSE
      BY <2>3, DriveRootEffect
    <2>4. ASSUME NEW h \in Handlers, DriveEnd(h)  PROVE inst'.status = "COMPLETED"
      BY <2>4, DriveEndEffect
    <2>5. ASSUME NEW h \in Handlers, DriveRejected(h) \/ DriveRollsBack(h)  PROVE FALSE
      BY <2>5, DriveRejectedEffect, DriveRollsBackEffect
    <2>6. ASSUME NEW h \in Handlers, Release(h)  PROVE FALSE
      <3>1. hs[h].pc = "release" /\ hs[h].from # End /\ Grows  BY <2>6, ReleaseStepEffect
      <3> QED  BY <3>1, <2>t DEF StillSo, Grows
    <2>7. ASSUME NEW h \in Handlers, Advance(h)  PROVE FALSE
      <3>1. hs[h].pc = "advance" /\ hs[h].from # End /\ Grows  BY <2>7, AdvanceEffect
      <3> QED  BY <3>1, <2>t DEF StillSo, Grows
    <2>8. ASSUME NEW h \in Handlers, Cancel(h)  PROVE FALSE
      <3>1. hs[h].pc = "cancel" /\ Grows  BY <2>8, CancelEffect
      <3> QED  BY <3>1, <2>t DEF StillSo, Grows
    <2>9. ASSUME NEW h \in Handlers, Retry(h)  PROVE FALSE
      BY <2>9, RetryEffect
    <2>10. ASSUME NEW h \in Handlers,
                  \/ WakeBranch(h) \/ CompleteTask(h) \/ ReassignTask(h) \/ ContinueBranch(h) \/ ContinueRoot(h)
                  \/ AdvanceRejected(h) \/ FireBranchTimer(h) \/ FireRootTimer(h) \/ SignalBranch(h)
                  \/ SignalRoot(h) \/ ReadToComplete(h) \/ ReadToReassign(h) \/ ReadForCancel(h) \/ Crash(h)
           PROVE  FALSE
      BY <2>10 DEF WakeBranch, CompleteTask, ReassignTask, ContinueBranch, ContinueRoot, AdvanceRejected,
         FireBranchTimer, FireRootTimer, SignalBranch, SignalRoot, ReadToComplete, ReadToReassign,
         ReadForCancel, Crash
    <2>11. ASSUME ClaimTask \/ Redeliver \/ UNCHANGED vars  PROVE FALSE
      BY <2>11 DEF ClaimTask, Redeliver, vars
    <2> QED
      BY <2>1, <2>2, <2>3, <2>4, <2>5, <2>6, <2>7, <2>8, <2>9, <2>10, <2>11,
         DriveBranchesEffect, DriveStartEffect
      DEF Next, GoOn, Execute, Deliver, Ask
  <1> QED  BY <1>1, ReadHolds, PTL DEF Spec, CompletedIsFinal

-----------------------------------------------------------------------------
(* Waits are honoured *)

BranchHonoured(b) == b \notin stale =>
    /\ Before(b, br[b].at) \subseteq happened
    /\ br[b].status = "ACTIVE" /\ br[b].at \in Rests => <<b, br[b].at>> \in happened
RootHonoured == Root \notin stale => Before(Root, inst.at) \subseteq happened
BranchesHonoured == \A b \in Branches : BranchHonoured(b)

LEMMA HonourParts == HonourInv <=> RootHonoured /\ BranchesHonoured
  BY DEF HonourInv, WaitsHonoured, RootHonoured, BranchesHonoured, BranchHonoured

LEMMA HonourPartsNext == HonourInv' <=> RootHonoured' /\ BranchesHonoured'
  BY DEF HonourInv, WaitsHonoured, RootHonoured, BranchesHonoured, BranchHonoured

\* Stale tokens stay stale, and what happened has happened.
Remembers == stale \subseteq stale' /\ happened \subseteq happened'

LEMMA BranchesHonouredKept ==
  ASSUME HonourInv, Remembers, br' = br
  PROVE  BranchesHonoured'
  BY HonourParts DEF BranchesHonoured, BranchHonoured, Remembers

LEMMA RootHonouredKept ==
  ASSUME HonourInv, Remembers, inst'.at = inst.at
  PROVE  RootHonoured'
  BY HonourParts DEF RootHonoured, Remembers

LEMMA SweepRow ==
  ASSUME Sound, NEW h, NEW row \in [Branches -> BranchRecords],
         \/ row = br /\ inst.status = "FORKED"
         \/ \A b \in Branches : row[b].status = "ACTIVE" /\ row[b].at = Fork
  PROVE  Placed(row)
  BY LaneFacts DEF Sound, PlaceInv, Placed

LEMMA HonourStep ==
  ASSUME Sound, ReadInv, HonourInv, [Next]_vars
  PROVE  HonourInv'
  <1>t. TypeOK /\ RootHonoured /\ BranchesHonoured  BY HonourParts DEF Sound
  <1>s. (UNCHANGED <<inst, br>> /\ Remembers) => HonourInv'
    BY BranchesHonouredKept, RootHonouredKept, HonourPartsNext
  <1>a. (br' = br /\ inst'.at = inst.at /\ Grows /\ happened' = happened) => HonourInv'
    BY BranchesHonouredKept, RootHonouredKept, HonourPartsNext DEF Remembers, Grows
  <1>1. ASSUME NEW h \in Handlers, SweepStep(h)  PROVE HonourInv'
    <2>1. PICK row \in [Branches -> BranchRecords] :
            /\ Sweeps(h, row) /\ happened' = happened
            /\ \/ row = br /\ inst.status = "FORKED"
               \/ \A b \in Branches : row[b].status = "ACTIVE" /\ row[b].at = Fork
      BY <1>1 DEF SweepStep
    <2>2. Placed(row)  BY <2>1, SweepRow
    <2>3. RootHonoured'
      <3>1. inst'.at \in {<<Root, 1>>, Fork, Join}  BY <2>1 DEF Sweeps
      <3>2. Before(Root, inst'.at) = {}  BY <3>1, BeforeMarks, RootNext, MarkFacts
      <3> QED  BY <3>2 DEF RootHonoured
    <2>4. BranchesHonoured'
      <3>1. ASSUME NEW b \in Branches, b \notin stale'
            PROVE  Before(b, br'[b].at) \subseteq happened' /\ br'[b].status # "ACTIVE"
        <4>1. b \notin stale  BY <2>1, <3>1 DEF Sweeps, Grows
        <4>2. /\ Before(b, row[b].at) \subseteq happened
              /\ row[b].status = "ACTIVE" /\ row[b].at \in Rests => <<b, row[b].at>> \in happened
          <5>1. CASE row = br  BY <4>1, <5>1, <1>t DEF BranchesHonoured, BranchHonoured
          <5>2. CASE \A c \in Branches : row[c].status = "ACTIVE" /\ row[c].at = Fork
            BY <5>2, BeforeMarks, MarkFacts
          <5> QED  BY <2>1, <5>1, <5>2
        <4>3. br'[b].at = row[b].at \/ (row[b].status = "ACTIVE" /\ br'[b].at = NextOf(row, b))
          BY <2>1 DEF Sweeps, Moves
        <4>4. \A s \in Before(b, NextOf(row, b)) :
                s \in Before(b, row[b].at) \/ (row[b].at \in Rests /\ s = <<b, row[b].at>>)
          BY <2>2, NextOfFacts
        <4>5. Before(b, br'[b].at) \subseteq happened  BY <4>2, <4>3, <4>4
        <4>6. br'[b].status # "ACTIVE"  BY <2>1 DEF Sweeps
        <4> QED  BY <2>1, <4>5, <4>6
      <3> QED  BY <3>1 DEF BranchesHonoured, BranchHonoured
    <2> QED  BY <2>3, <2>4, HonourPartsNext
  <1>2. ASSUME NEW h \in Handlers, DriveRoot(h)  PROVE HonourInv'
    <2>1. /\ inst.at \in {Fork, Join} /\ inst'.at = Following(inst.at, Root)
          /\ Grows /\ UNCHANGED <<br, happened>>
      BY <1>2, DriveRootEffect
    <2>2. Before(Root, inst'.at) = {}
      <3>1. inst.at \in Places /\ inst.at # Start /\ inst.at # End /\ inst.at \notin Rests
            /\ Before(Root, inst.at) = {}
        BY <2>1, MarkFacts, BeforeMarks
      <3> QED  BY <2>1, <3>1, RootNext
    <2>3. RootHonoured'  BY <2>2 DEF RootHonoured
    <2>4. BranchesHonoured'  BY <2>1, BranchesHonouredKept DEF Remembers, Grows
    <2> QED  BY <2>3, <2>4, HonourPartsNext
  <1>3. ASSUME NEW h \in Handlers, DriveEnd(h)  PROVE HonourInv'
    BY <1>3, <1>a, DriveEndEffect
  <1>4. ASSUME NEW h \in Handlers, DriveRejected(h) \/ DriveRollsBack(h)  PROVE HonourInv'
    BY <1>4, <1>a, DriveRejectedEffect, DriveRollsBackEffect
  <1>5. ASSUME NEW h \in Handlers, WakeBranch(h)  PROVE HonourInv'
    <2>1. /\ hs[h].pc = "wake" /\ hs[h].tok \in Branches
          /\ \A b \in Branches : b # hs[h].tok => br'[b] = br[b]
          /\ br'[hs[h].tok].at = br[hs[h].tok].at
          /\ Slot(h) \in happened /\ Grows /\ UNCHANGED <<inst, happened>>
      BY <1>5, WakeBranchEffect
    <2>2. RootHonoured'  BY <2>1, RootHonouredKept DEF Remembers, Grows
    <2>3. StillSo(h) /\ Slot(h) = <<hs[h].tok, hs[h].at>>  BY DEF ReadInv, Slot
    <2>4. ASSUME NEW b \in Branches, b \notin stale'
          PROVE  /\ Before(b, br'[b].at) \subseteq happened'
                 /\ br'[b].status = "ACTIVE" /\ br'[b].at \in Rests => <<b, br'[b].at>> \in happened'
      <3>1. b \notin stale  BY <2>1, <2>4 DEF Grows
      <3>2. CASE b # hs[h].tok
        BY <2>1, <3>1, <3>2, <1>t DEF BranchesHonoured, BranchHonoured
      <3>3. CASE b = hs[h].tok
        <4>1. br[b].at = hs[h].at  BY <2>1, <2>3, <3>1, <3>3 DEF StillSo
        <4> QED  BY <2>1, <2>3, <3>1, <3>3, <4>1, <1>t DEF BranchesHonoured, BranchHonoured
      <3> QED  BY <3>2, <3>3
    <2>5. BranchesHonoured'  BY <2>4 DEF BranchesHonoured, BranchHonoured
    <2> QED  BY <2>2, <2>5, HonourPartsNext
  <1>6. ASSUME NEW h \in Handlers, Release(h)  PROVE HonourInv'
    BY <1>6, <1>a, ReleaseStepEffect
  <1>7. ASSUME NEW h \in Handlers, Advance(h)  PROVE HonourInv'
    <2>1. /\ hs[h].pc = "advance" /\ hs[h].tok = Root /\ hs[h].from \in Places \ {Start, End}
          /\ Slot(h) \in happened /\ inst'.at = Following(hs[h].from, Root)
          /\ Grows /\ UNCHANGED <<br, happened>>
      BY <1>7, AdvanceEffect
    <2>2. StillSo(h) /\ Slot(h) = <<Root, hs[h].at>>  BY <2>1 DEF ReadInv, Slot
    <2>3. BranchesHonoured'  BY <2>1, BranchesHonouredKept DEF Remembers, Grows
    <2>4. ASSUME Root \notin stale'  PROVE Before(Root, inst'.at) \subseteq happened
      <3>1. Root \notin stale  BY <2>1, <2>4 DEF Grows
      <3>2. inst.at = hs[h].from /\ <<Root, hs[h].from>> \in happened
        BY <2>1, <2>2, <3>1 DEF StillSo
      <3>3. Before(Root, hs[h].from) \subseteq happened  BY <3>1, <3>2, <1>t DEF RootHonoured
      <3>4. \A s \in Before(Root, inst'.at) : s \in Before(Root, hs[h].from) \/ s = <<Root, hs[h].from>>
        BY <2>1, RootNext
      <3> QED  BY <3>2, <3>3, <3>4
    <2>5. RootHonoured'  BY <2>1, <2>4 DEF RootHonoured
    <2> QED  BY <2>3, <2>5, HonourPartsNext
  <1>8. ASSUME NEW h \in Handlers, Cancel(h) \/ Retry(h)  PROVE HonourInv'
    BY <1>8, <1>a, CancelEffect, RetryEffect
  <1>9. ASSUME NEW h \in Handlers,
               \/ CompleteTask(h) \/ ContinueBranch(h) \/ ContinueRoot(h) \/ FireBranchTimer(h)
               \/ FireRootTimer(h) \/ SignalBranch(h) \/ SignalRoot(h)
        PROVE  HonourInv'
    <2>1. UNCHANGED <<inst, br>> /\ Remembers
      BY <1>9 DEF Remembers, CompleteTask, ContinueBranch, ContinueRoot, FireBranchTimer, FireRootTimer,
                  SignalBranch, SignalRoot
    <2> QED  BY <2>1, <1>s
  <1>10. ASSUME NEW h \in Handlers,
               \/ DriveIdles(h) \/ ReassignTask(h) \/ AdvanceRejected(h)
               \/ ReadToComplete(h) \/ ReadToReassign(h) \/ ReadForCancel(h) \/ Crash(h)
        PROVE  HonourInv'
    <2>1. UNCHANGED <<inst, br, stale, happened>>
      BY <1>10 DEF DriveIdles, ReassignTask, AdvanceRejected, ReadToComplete, ReadToReassign, ReadForCancel,
                   Crash, hist
    <2> QED  BY <2>1, <1>s DEF Remembers
  <1>11. ASSUME ClaimTask \/ Redeliver \/ UNCHANGED vars  PROVE HonourInv'
    <2>1. UNCHANGED <<inst, br, stale, happened>>  BY <1>11 DEF ClaimTask, Redeliver, vars, hist
    <2> QED  BY <2>1, <1>s DEF Remembers
  <1> QED
    BY <1>1, <1>2, <1>3, <1>4, <1>5, <1>6, <1>7, <1>8, <1>9, <1>10, <1>11,
       DriveBranchesEffect, DriveStartEffect
    DEF Next, GoOn, Execute, Deliver, Ask

LEMMA HonourInit ==
  ASSUME Init
  PROVE  HonourInv
  <1>1. br = [b \in Branches |-> [status |-> "none", at |-> Fork]] /\ inst.at = Start  BY DEF Init
  <1> QED  BY <1>1, BeforeMarks DEF HonourInv, WaitsHonoured

LEMMA HonourHolds == Spec => [](Sound /\ ReadInv /\ HonourInv)
  <1>1. Init => Sound /\ ReadInv /\ HonourInv  BY SoundInit, ReadInit, HonourInit
  <1>2. (Sound /\ ReadInv /\ HonourInv) /\ [Next]_vars => (Sound /\ ReadInv /\ HonourInv)'
    BY TypeStep, PlaceStep, YoungStep, ReadStep, HonourStep DEF Sound
  <1> QED  BY <1>1, <1>2, PTL DEF Spec

\* A token passes a wait only after the event of that very wait, unless a handler wrote
\* the token from a stale read or an event of an earlier wait came late: a step of the
\* root or of a branch takes it over one wait, and the handler that takes it holds the
\* event of the place the token is at.
THEOREM WaitsHonouredHolds == Spec => []WaitsHonoured
  <1>1. HonourInv => WaitsHonoured  BY DEF HonourInv
  <1> QED  BY <1>1, HonourHolds, PTL

-----------------------------------------------------------------------------
(* The join, and a failure among the branches *)

LEMMA JoinStays ==
  ASSUME JoinInv, joined' = joined, Remembers, revived => revived', ~Young' => ~Young,
         inst'.at = Fork /\ inst'.status = "RUNNING" => (inst.at = Fork /\ inst.status = "RUNNING") \/ revived'
  PROVE  JoinInv'
  BY DEF JoinInv, Remembers

LEMMA JoinStep ==
  ASSUME Sound, JoinInv, HonourInv', [Next]_vars
  PROVE  JoinInv'
  <1>a. ASSUME inst'.at = inst.at, inst'.status = "RUNNING" => inst.status = "RUNNING" \/ revived' \/ ~Young,
               joined' = joined, Grows, happened' = happened, revived => revived'
        PROVE  JoinInv'
    BY <1>a, JoinStays DEF Young, Remembers, Grows
  <1>s. (UNCHANGED <<inst, joined, revived>> /\ Remembers) => JoinInv'
    BY JoinStays DEF Young
  <1>1. ASSUME NEW h \in Handlers, SweepStep(h)  PROVE JoinInv'
    <2>1. PICK row \in [Branches -> BranchRecords] :
            Sweeps(h, row) /\ joined = 0 /\ happened' = happened /\ (revived => revived')
      BY <1>1 DEF SweepStep
    <2>2. CASE joined' = joined + 1 /\ AllOver
      <3>1. joined' = 1  BY <2>1, <2>2
      <3>2. ASSUME NEW b \in Branches, b \notin stale'  PROVE Before(b, Join) \subseteq happened'
        <4>1. br'[b].at = Join  BY <2>1, <2>2 DEF Sweeps, Placed, AllOver
        <4> QED  BY <3>2, <4>1 DEF HonourInv, WaitsHonoured
      <3>3. inst'.at # Fork
        <4>1. <<Root, 1>> # Fork  BY RootNext, MarkFacts
        <4>2. inst'.at \in {<<Root, 1>>, Join}  BY <2>1, <2>2 DEF Sweeps
        <4> QED  BY <4>1, <4>2, MarkFacts
      <3> QED  BY <3>1, <3>2, <3>3 DEF JoinInv
    <2>3. CASE joined' = joined /\ inst'.at = Fork /\ inst'.status # "RUNNING"
      BY <2>1, <2>3, JoinStays DEF Young, Remembers, Sweeps, Grows
    <2> QED  BY <2>1, <2>2, <2>3 DEF Sweeps
  <1>2. ASSUME NEW h \in Handlers, DriveRoot(h)  PROVE JoinInv'
    <2>1. /\ inst.at \in {Fork, Join} /\ inst.status \in {"RUNNING", "FAILED"} /\ inst'.at \in Rests
          /\ revived' = (revived \/ inst.status = "FAILED") /\ Grows /\ UNCHANGED <<joined, happened>>
      BY <1>2, DriveRootEffect
    <2>2. inst'.at # Fork  BY <2>1, MarkFacts
    <2>3. joined = 1 \/ revived' \/ Root \in stale
      <3>1. CASE inst.at = Fork  BY <2>1, <3>1 DEF JoinInv
      <3>2. CASE inst.at = Join  BY <2>1, <3>2, MarkFacts DEF JoinInv, Young
      <3> QED  BY <2>1, <3>1, <3>2
    <2> QED  BY <2>1, <2>2, <2>3 DEF JoinInv, Grows
  <1>3. ASSUME NEW h \in Handlers, DriveEnd(h)  PROVE JoinInv'
    BY <1>3, <1>a, DriveEndEffect
  <1>4. ASSUME NEW h \in Handlers, DriveRejected(h) \/ DriveRollsBack(h)  PROVE JoinInv'
    <2>1. /\ inst'.at = inst.at /\ (inst'.status = "RUNNING" => inst.status = "RUNNING") /\ Grows
          /\ UNCHANGED <<joined, happened, revived>>
      BY <1>4, DriveRejectedEffect, DriveRollsBackEffect
    <2> QED  BY <2>1, <1>a
  <1>5. ASSUME NEW h \in Handlers, WakeBranch(h)  PROVE JoinInv'
    BY <1>5, <1>a, WakeBranchEffect
  <1>6. ASSUME NEW h \in Handlers, Release(h)  PROVE JoinInv'
    BY <1>6, <1>a, ReleaseStepEffect
  <1>7. ASSUME NEW h \in Handlers, Advance(h)  PROVE JoinInv'
    <2>1. /\ ~Young /\ inst'.at \in Rests \cup {Join, End} /\ Grows /\ UNCHANGED <<joined, happened, revived>>
      BY <1>7, AdvanceEffect
    <2>2. inst'.at # Fork  BY <2>1, MarkFacts
    <2> QED  BY <2>1, <2>2, JoinStays DEF Remembers, Grows
  <1>8. ASSUME NEW h \in Handlers, Cancel(h) \/ Retry(h)  PROVE JoinInv'
    <2>1. /\ inst'.at = inst.at /\ (inst'.status = "RUNNING" => revived') /\ Grows /\ (revived => revived')
          /\ UNCHANGED <<joined, happened>>
      BY <1>8, CancelEffect, RetryEffect
    <2> QED  BY <2>1, <1>a
  <1>9. ASSUME NEW h \in Handlers,
               \/ CompleteTask(h) \/ ContinueBranch(h) \/ ContinueRoot(h) \/ FireBranchTimer(h)
               \/ FireRootTimer(h) \/ SignalBranch(h) \/ SignalRoot(h)
        PROVE  JoinInv'
    <2>1. UNCHANGED <<inst, joined, revived>> /\ Remembers
      BY <1>9 DEF Remembers, CompleteTask, ContinueBranch, ContinueRoot, FireBranchTimer, FireRootTimer,
                  SignalBranch, SignalRoot
    <2> QED  BY <2>1, <1>s
  <1>10. ASSUME NEW h \in Handlers,
               \/ DriveIdles(h) \/ ReassignTask(h) \/ AdvanceRejected(h)
               \/ ReadToComplete(h) \/ ReadToReassign(h) \/ ReadForCancel(h) \/ Crash(h)
        PROVE  JoinInv'
    <2>1. UNCHANGED <<inst, joined, revived, stale, happened>>
      BY <1>10 DEF DriveIdles, ReassignTask, AdvanceRejected, ReadToComplete, ReadToReassign, ReadForCancel,
                   Crash, hist
    <2> QED  BY <2>1, <1>s DEF Remembers
  <1>11. ASSUME ClaimTask \/ Redeliver \/ UNCHANGED vars  PROVE JoinInv'
    <2>1. UNCHANGED <<inst, joined, revived, stale, happened>>  BY <1>11 DEF ClaimTask, Redeliver, vars, hist
    <2> QED  BY <2>1, <1>s DEF Remembers
  <1> QED
    BY <1>1, <1>2, <1>3, <1>4, <1>5, <1>6, <1>7, <1>8, <1>9, <1>10, <1>11,
       DriveBranchesEffect, DriveStartEffect
    DEF Next, GoOn, Execute, Deliver, Ask

LEMMA JoinInit ==
  ASSUME Init
  PROVE  JoinInv
  <1>1. joined = 0 /\ inst.at = Start  BY DEF Init
  <1> QED  BY <1>1, MarkFacts DEF JoinInv, Young

LEMMA JoinGivesJoinedOnce ==
  ASSUME JoinInv
  PROVE  JoinedOnce
  <1>1. ASSUME inst.at \in {Join, End} \cup {<<Root, k>> : k \in 1..Len(Waits[Root])}
        PROVE  ~Young
    <2>1. \A k \in 1..Len(Waits[Root]) : <<Root, k>> \in Rests  BY TokenFacts, RestIntro
    <2> QED  BY <1>1, <2>1, MarkFacts DEF Young
  <1> QED  BY <1>1 DEF JoinInv, JoinedOnce

\* The join fires at most once, not before every branch has had all of its waits, and
\* the root is past the fork only by it -- unless a failed run was retried, or somebody
\* wrote a token from a stale read.
THEOREM JoinedOnceHolds == Spec => []JoinedOnce
  <1>1. Init => Sound /\ ReadInv /\ HonourInv /\ JoinInv  BY SoundInit, ReadInit, HonourInit, JoinInit
  <1>2. (Sound /\ ReadInv /\ HonourInv /\ JoinInv) /\ [Next]_vars => (Sound /\ ReadInv /\ HonourInv /\ JoinInv)'
    BY TypeStep, PlaceStep, YoungStep, ReadStep, HonourStep, JoinStep DEF Sound
  <1>3. Sound /\ ReadInv /\ HonourInv /\ JoinInv => JoinedOnce  BY JoinGivesJoinedOnce
  <1> QED  BY <1>1, <1>2, <1>3, PTL DEF Spec

FailedAtFork == inst.at = Fork /\ inst.status \in {"RUNNING", "FAILED"}

LEMMA FailStays ==
  ASSUME FailInv, br' = br, Grows, FailedAtFork' => FailedAtFork
  PROVE  FailInv'
  BY DEF FailInv, FailedAtFork, Grows

LEMMA FailStep ==
  ASSUME Sound, ReadInv, FailInv, [Next]_vars
  PROVE  FailInv'
  <1>t. stale' = stale => Grows  BY TypeFacts DEF Sound, Grows
  <1>s. (UNCHANGED <<inst, br>> /\ Grows) => FailInv'  BY FailStays DEF FailedAtFork
  <1>o. inst'.at # Fork => FailInv'  BY DEF FailInv
  <1>1. ASSUME NEW h \in Handlers, SweepStep(h)  PROVE FailInv'
    <2>1. PICK row \in [Branches -> BranchRecords] : Sweeps(h, row)
      BY <1>1 DEF SweepStep
    <2>2. inst'.at = Fork /\ inst'.status \in {"RUNNING", "FAILED"}
             => \A b \in Branches : br'[b].status \notin {"ACTIVE", "PAUSED"}
      <3>1. <<Root, 1>> # Fork /\ Join # Fork  BY RootNext, MarkFacts
      <3> QED  BY <2>1, <3>1 DEF Sweeps
    <2> QED  BY <2>2 DEF FailInv
  <1>2. ASSUME NEW h \in Handlers, DriveRoot(h)  PROVE FailInv'
    <2>1. inst'.at \in Rests  BY <1>2, DriveRootEffect
    <2> QED  BY <2>1, <1>o, MarkFacts
  <1>3. ASSUME NEW h \in Handlers, DriveEnd(h)  PROVE FailInv'
    BY <1>3, <1>o, DriveEndEffect, MarkFacts
  <1>4. ASSUME NEW h \in Handlers, DriveRejected(h) \/ DriveRollsBack(h)  PROVE FailInv'
    <2>1. br' = br /\ Grows /\ (FailedAtFork' => FailedAtFork)
      BY <1>4, DriveRejectedEffect, DriveRollsBackEffect DEF FailedAtFork
    <2> QED  BY <2>1, FailStays
  <1>5. ASSUME NEW h \in Handlers, WakeBranch(h)  PROVE FailInv'
    <2>1. /\ hs[h].pc = "wake" /\ hs[h].tok \in Branches /\ Grows /\ inst' = inst
          /\ \A b \in Branches : b # hs[h].tok => br'[b] = br[b]
      BY <1>5, WakeBranchEffect
    <2>2. StillSo(h)  BY DEF ReadInv
    <2>3. ASSUME FailedAtFork'  PROVE hs[h].tok \in stale'
      <3>1. FailedAtFork  BY <2>1, <2>3 DEF FailedAtFork
      <3>2. hs[h].tok \in stale  BY <2>1, <2>2, <3>1 DEF FailInv, FailedAtFork, StillSo
      <3> QED  BY <2>1, <3>2 DEF Grows
    <2> QED  BY <2>1, <2>3 DEF FailInv, FailedAtFork, Grows
  <1>6. ASSUME NEW h \in Handlers, Release(h)  PROVE FailInv'
    <2>1. ~Young /\ inst'.at = inst.at  BY <1>6, ReleaseStepEffect
    <2> QED  BY <2>1, <1>o DEF Young
  <1>7. ASSUME NEW h \in Handlers, Advance(h)  PROVE FailInv'
    <2>1. inst'.at \in Rests \cup {Join, End}  BY <1>7, AdvanceEffect
    <2> QED  BY <2>1, <1>o, MarkFacts
  <1>8. ASSUME NEW h \in Handlers, Cancel(h) \/ Retry(h)  PROVE FailInv'
    <2>1. br' = br /\ Grows /\ (FailedAtFork' => FailedAtFork)
      BY <1>8, CancelEffect, RetryEffect DEF FailedAtFork
    <2> QED  BY <2>1, FailStays
  <1>9. ASSUME NEW h \in Handlers,
               \/ ContinueBranch(h) \/ ContinueRoot(h) \/ FireBranchTimer(h) \/ FireRootTimer(h)
        PROVE  FailInv'
    <2>1. UNCHANGED <<inst, br>> /\ Grows
      BY <1>9, ContinueBranchEffect, ContinueRootEffect, FireBranchTimerEffect, FireRootTimerEffect
    <2> QED  BY <2>1, <1>s
  <1>10. ASSUME NEW h \in Handlers,
               \/ CompleteTask(h) \/ SignalBranch(h) \/ SignalRoot(h)
               \/ DriveIdles(h) \/ ReassignTask(h) \/ AdvanceRejected(h)
               \/ ReadToComplete(h) \/ ReadToReassign(h) \/ ReadForCancel(h) \/ Crash(h)
        PROVE  FailInv'
    <2>1. UNCHANGED <<inst, br, stale>>
      BY <1>10 DEF CompleteTask, SignalBranch, SignalRoot, DriveIdles, ReassignTask, AdvanceRejected,
                   ReadToComplete, ReadToReassign, ReadForCancel, Crash, hist
    <2> QED  BY <2>1, <1>s, <1>t
  <1>11. ASSUME ClaimTask \/ Redeliver \/ UNCHANGED vars  PROVE FailInv'
    <2>1. UNCHANGED <<inst, br, stale>>  BY <1>11 DEF ClaimTask, Redeliver, vars, hist
    <2> QED  BY <2>1, <1>s, <1>t
  <1> QED
    BY <1>1, <1>2, <1>3, <1>4, <1>5, <1>6, <1>7, <1>8, <1>9, <1>10, <1>11,
       DriveBranchesEffect, DriveStartEffect
    DEF Next, GoOn, Execute, Deliver, Ask

\* A run that failed in its branches leaves none of them for a later event to wake: an
\* event that was read before the failure makes its branch stale.
THEOREM FailureStopsBranchesHolds == Spec => []FailureStopsBranches
  <1>1. Init => Sound /\ ReadInv /\ FailInv
    <2>1. Init => FailInv
      <3>1. Init => inst.at = Start  BY DEF Init
      <3> QED  BY <3>1, MarkFacts DEF FailInv
    <2> QED  BY <2>1, SoundInit, ReadInit
  <1>2. (Sound /\ ReadInv /\ FailInv) /\ [Next]_vars => (Sound /\ ReadInv /\ FailInv)'
    BY TypeStep, PlaceStep, YoungStep, ReadStep, FailStep DEF Sound
  <1>3. FailInv => FailureStopsBranches
    <2>1. inst = [status |-> "FAILED", at |-> Fork] => inst.status = "FAILED" /\ inst.at = Fork
      OBVIOUS
    <2> QED  BY <2>1 DEF FailInv, FailureStopsBranches
  <1> QED  BY <1>1, <1>2, <1>3, PTL DEF Spec

-----------------------------------------------------------------------------
(* Answers *)

LEMMA DoneFacts ==
  ASSUME TypeOK, NEW s \in Slots
  PROVE  /\ IsFiniteSet(Done(s)) /\ Cardinality(Done(s)) \in Nat
         /\ Cardinality(Done(s)) <= Len(tasks[s])
  <1>1. tasks[s] \in Seq(TaskStatus)  BY TypeFacts
  <1>2. Len(tasks[s]) \in Nat /\ DOMAIN tasks[s] = 1..Len(tasks[s])  BY <1>1, LenProperties
  <1>3. IsFiniteSet(1..Len(tasks[s])) /\ Cardinality(1..Len(tasks[s])) = Len(tasks[s])
    <2>1. 0 \in Int /\ 1 \in Int /\ Len(tasks[s]) \in Int  BY <1>2
    <2>2. Cardinality(1..Len(tasks[s])) = IF 1 > Len(tasks[s]) THEN 0 ELSE Len(tasks[s]) - 1 + 1
      BY <2>1, FS_Interval
    <2>3. IsFiniteSet(1..Len(tasks[s]))  BY <2>1, FS_Interval
    <2> QED  BY <1>2, <2>2, <2>3
  <1>4. Done(s) \subseteq 1..Len(tasks[s])  BY <1>2 DEF Done
  <1> QED  BY <1>3, <1>4, FS_Subset, FS_CardinalityType

LEMMA AnswerStays ==
  ASSUME AnswerInv, answers' = answers, reopened \subseteq reopened',
         \A s \in Slots : s \in reopened' \/ Done(s)' = Done(s)
  PROVE  AnswerInv'
  <1>1. ASSUME NEW s \in Slots, s \notin reopened'
        PROVE  answers'[s] <= Cardinality(Done(s)')
    <2>1. Done(s)' = Done(s) /\ s \notin reopened  BY <1>1
    <2>2. answers[s] <= Cardinality(Done(s))  BY <1>1, <2>1 DEF AnswerInv
    <2> QED  BY <2>1, <2>2
  <1> QED  BY <1>1 DEF AnswerInv

\* A row that becomes, or was, no completed one.
LEMMA DoneRowSet ==
  ASSUME NEW s \in Slots, NEW i \in DOMAIN tasks[s], NEW status, RowSet(s, i, status), NEW q \in Slots
  PROVE  /\ status # "COMPLETED" /\ (tasks[s][i] # "COMPLETED" \/ q # s) => Done(q)' = Done(q)
         /\ status = "COMPLETED" /\ q = s => Done(q)' = Done(q) \cup {i}
         /\ q # s => Done(q)' = Done(q)
  BY DEF RowSet, Done

LEMMA AnswerStep ==
  ASSUME Sound, AnswerInv, [Next]_vars
  PROVE  AnswerInv'
  <1>t. TypeOK  BY DEF Sound
  <1>k. (TasksKept /\ UNCHANGED <<answers, reopened>>) => AnswerInv'  BY AnswerStays DEF TasksKept
  <1>s. (UNCHANGED <<tasks, answers, reopened>>) => AnswerInv'  BY <1>k, <1>t, SameTasks
  <1>1. ASSUME NEW h \in Handlers, SweepStep(h)  PROVE AnswerInv'
    BY <1>1, <1>k DEF SweepStep, Sweeps
  <1>2. ASSUME NEW h \in Handlers, DriveRoot(h) \/ Advance(h)  PROVE AnswerInv'
    BY <1>2, <1>k, DriveRootEffect, AdvanceEffect
  <1>3. ASSUME ClaimTask  PROVE AnswerInv'
    <2>1. PICK s \in Slots : \E i \in DOMAIN tasks[s] :
         /\ tasks[s][i] = "PENDING" /\ RowSet(s, i, "IN_PROGRESS")
         /\ UNCHANGED <<answers, reopened>>
      BY <1>3, ClaimTaskEffect
    <2>2. \A q \in Slots : Done(q)' = Done(q)  BY <2>1, DoneRowSet
    <2> QED  BY <2>1, <2>2, AnswerStays
  <1>4. ASSUME NEW h \in Handlers, ReassignTask(h)  PROVE AnswerInv'
    <2>0. PICK s \in Slots : \E i \in DOMAIN tasks[s] :
         /\ RowSet(s, i, "PENDING")
         /\ reopened' = reopened \cup (IF tasks[s][i] \in Open THEN {} ELSE {s})
         /\ answers' = answers
      BY <1>4, ReassignTaskEffect
    <2>1. PICK i \in DOMAIN tasks[s] :
         /\ RowSet(s, i, "PENDING")
         /\ reopened' = reopened \cup (IF tasks[s][i] \in Open THEN {} ELSE {s})
         /\ answers' = answers
      BY <2>0
    <2>2. \A q \in Slots : q \in reopened' \/ Done(q)' = Done(q)
      <3> TAKE q \in Slots
      <3>1. CASE q # s  BY <2>1, <3>1, DoneRowSet
      <3>2. CASE q = s /\ tasks[s][i] \in Open
        <4>1. tasks[s][i] # "COMPLETED"  BY <3>2 DEF Open
        <4> QED  BY <2>1, <3>2, <4>1, DoneRowSet
      <3>3. CASE q = s /\ tasks[s][i] \notin Open  BY <2>1, <3>3
      <3> QED  BY <3>1, <3>2, <3>3
    <2> QED  BY <2>1, <2>2, AnswerStays
  <1>5. ASSUME NEW h \in Handlers, CompleteTask(h)  PROVE AnswerInv'
    <2>0. reopened' = reopened  BY <1>5, CompleteTaskEffect
    <2>1. CASE UNCHANGED <<tasks, answers>>  BY <2>0, <2>1, <1>s
    <2>2. ASSUME NEW s \in Slots, NEW i \in DOMAIN tasks[s], tasks[s][i] \in Open,
                 RowSet(s, i, "COMPLETED"), answers' = [answers EXCEPT ![s] = @ + 1]
          PROVE  AnswerInv'
      <3>1. ASSUME NEW q \in Slots, q \notin reopened
            PROVE  answers'[q] <= Cardinality(Done(q)')
        <4>0. answers[q] \in Nat /\ answers[q] <= Cardinality(Done(q)) /\ Cardinality(Done(q)) \in Nat
              /\ IsFiniteSet(Done(q))
          BY <3>1, <1>t, TypeFacts, DoneFacts DEF AnswerInv
        <4>1. CASE q # s
          <5>1. Done(q)' = Done(q) /\ answers'[q] = answers[q]
            BY <2>2, <4>1, <1>t, TypeFacts, DoneRowSet
          <5> QED  BY <4>0, <5>1
        <4>2. CASE q = s
          <5>1. Done(q)' = Done(q) \cup {i}  BY <2>2, <4>2, DoneRowSet
          <5>2. i \notin Done(q)  BY <2>2, <4>2 DEF Done, Open
          <5>3. Cardinality(Done(q) \cup {i}) = Cardinality(Done(q)) + 1  BY <4>0, <5>2, FS_AddElement
          <5>4. answers'[q] = answers[q] + 1  BY <2>2, <4>2, <1>t, TypeFacts
          <5> QED  BY <4>0, <5>1, <5>3, <5>4
        <4> QED  BY <4>1, <4>2
      <3> QED  BY <2>0, <3>1 DEF AnswerInv
    <2> QED  BY <1>5, <2>1, <2>2, CompleteTaskEffect
  <1>6. ASSUME NEW h \in Handlers,
               \/ DriveIdles(h) \/ DriveEnd(h) \/ DriveRejected(h) \/ DriveRollsBack(h) \/ WakeBranch(h)
               \/ ContinueBranch(h) \/ ContinueRoot(h) \/ Release(h) \/ AdvanceRejected(h) \/ Cancel(h)
               \/ FireBranchTimer(h) \/ FireRootTimer(h) \/ SignalBranch(h) \/ SignalRoot(h)
               \/ ReadToComplete(h) \/ ReadToReassign(h) \/ ReadForCancel(h) \/ Retry(h) \/ Crash(h)
        PROVE  AnswerInv'
    <2>1. UNCHANGED <<tasks, answers, reopened>>
      BY <1>6 DEF DriveIdles, DriveEnd, DriveRejected, DriveRollsBack, WakeBranch, ContinueBranch, ContinueRoot,
         Release, AdvanceRejected, Cancel, FireBranchTimer, FireRootTimer, SignalBranch, SignalRoot,
         ReadToComplete, ReadToReassign, ReadForCancel, Retry, Crash, hist
    <2> QED  BY <2>1, <1>s
  <1>7. ASSUME Redeliver \/ UNCHANGED vars  PROVE AnswerInv'
    BY <1>7, <1>s DEF Redeliver, vars, hist
  <1> QED
    BY <1>1, <1>2, <1>3, <1>4, <1>5, <1>6, <1>7, DriveBranchesEffect, DriveStartEffect
    DEF Next, GoOn, Execute, Deliver, Ask

\* A task row is completed once, however many requests complete it together: each
\* success turns an open row into a completed one, and only a reassignment undoes it.
THEOREM AnsweredOnceHolds == Spec => []AnsweredOnce
  <1>1. Init => AnswerInv
    <2> SUFFICES ASSUME Init PROVE AnswerInv  OBVIOUS
    <2>1. Sound  BY SoundInit
    <2>2. \A s \in Slots : answers[s] = 0 /\ Cardinality(Done(s)) \in Nat  BY <2>1, DoneFacts DEF Init, Sound
    <2> QED  BY <2>2 DEF AnswerInv
  <1>2. Sound /\ AnswerInv /\ [Next]_vars => AnswerInv'  BY AnswerStep
  <1>3. Sound /\ AnswerInv => AnsweredOnce
    <2> SUFFICES ASSUME Sound, AnswerInv, NEW s \in Slots \ reopened
                 PROVE  answers[s] <= Len(tasks[s])
      BY DEF AnsweredOnce
    <2>1. TypeOK  BY DEF Sound
    <2>2. answers[s] \in Nat /\ Len(tasks[s]) \in Nat  BY <2>1, TypeFacts, LenProperties
    <2>3. Cardinality(Done(s)) \in Nat /\ Cardinality(Done(s)) <= Len(tasks[s])  BY <2>1, DoneFacts
    <2> QED  BY <2>2, <2>3 DEF AnswerInv
  <1> QED  BY <1>1, <1>2, <1>3, SoundHolds, PTL DEF Spec

-----------------------------------------------------------------------------
(* WorkInv *)

Driven == inst.status = "FORKED" => \A b \in Active(br) \ dropped : \E h \in Handlers : hs[h].pc = "drive" /\ hs[h].tok = b
Worked == inst.status = "RUNNING" /\ Root \notin dropped
            => \E h \in Handlers : hs[h].tok = Root /\ hs[h].pc \in {"advance", "drive"}
Lifted == inst.status \in {"RUNNING", "FAILED"} /\ inst.at \in Rests /\ Root \notin dropped
            => \E h \in Handlers : hs[h].tok = Root /\ hs[h].pc = "advance"
Carried == \A b \in Branches \ (dropped \cup stale) : Answered(b)

LEMMA WorkParts == WorkInv <=> Driven /\ Worked /\ Lifted /\ Carried
  BY DEF WorkInv, Driven, Worked, Lifted, Carried

LEMMA WorkPartsNext == WorkInv' <=> Driven' /\ Worked' /\ Lifted' /\ Carried'
  BY DEF WorkInv, Driven, Worked, Lifted, Carried

\* What the task of a paused branch asks of its slot and of the handler that carries it.
Tasked(b) == inst.status = "FORKED" /\ br[b].status = "PAUSED" /\ KindOf(br[b].at) = "task"
CarriesOn(g, b) == hs[g].tok = b /\ hs[g].at = br[b].at /\ hs[g].pc \in {"answered", "wake"}

LEMMA AnsweredBy ==
  ASSUME NEW b \in Branches
  PROVE  /\ Answered(b) <=> (Tasked(b) /\ Last(<<b, br[b].at>>) = "COMPLETED" => \E g \in Handlers : CarriesOn(g, b))
         /\ Answered(b)' <=> (Tasked(b)' /\ LastNow(<<b, br'[b].at>>) = "COMPLETED" => \E g \in Handlers : CarriesOn(g, b)')
  <1>1. \A g \in Handlers : (Slot(g) = <<b, br[b].at>> /\ hs[g].pc \in {"answered", "wake"}) <=> CarriesOn(g, b)
    BY DEF Slot, CarriesOn
  <1>2. \A g \in Handlers : (Slot(g)' = <<b, br'[b].at>> /\ hs'[g].pc \in {"answered", "wake"}) <=> CarriesOn(g, b)'
    BY DEF Slot, CarriesOn
  <1>3. Answered(b) <=> (Tasked(b) /\ Last(<<b, br[b].at>>) = "COMPLETED" => \E g \in Handlers : CarriesOn(g, b))
    BY <1>1 DEF Answered, Tasked, Sleeping
  <1>4. Answered(b)' <=> (Tasked(b)' /\ LastNow(<<b, br'[b].at>>) = "COMPLETED" => \E g \in Handlers : CarriesOn(g, b)')
    BY <1>2 DEF Answered, Tasked, Sleeping, Last, LastNow
  <1> QED  BY <1>3, <1>4

LEMMA TaskSlot ==
  ASSUME Sound, NEW b \in Branches, KindOf(br[b].at) = "task"
  PROVE  br[b].at \in Rests /\ <<b, br[b].at>> \in Slots
  <1>1. br[b].at \in Lane(b)  BY DEF Sound, PlaceInv, Placed
  <1>2. br[b].at \in Rests  BY <1>1, LaneFacts, MarkFacts
  <1> QED  BY <1>1, <1>2, LaneFacts

\* No row of the task a branch is parked at has become a completed one.
NoNewAnswer == \A b \in Branches : Tasked(b) /\ LastNow(<<b, br[b].at>>) = "COMPLETED" => Last(<<b, br[b].at>>) = "COMPLETED"
\* A handler that stops driving, or carrying an answer on, drops its token, or had none to wake.
HandsOver(h) ==
    /\ hs[h].pc \in {"drive", "advance"} => hs[h].tok \in dropped'
    /\ hs[h].pc \in {"answered", "wake"} =>
          \/ hs[h].tok \in dropped' \cup {Root} \/ KindOf(hs[h].at) # "task"
          \/ hs[h].tok \in Branches /\ ~Sleeping(hs[h].tok)
          \/ hs'[h].pc \in {"answered", "wake"} /\ hs'[h].tok = hs[h].tok /\ hs'[h].at = hs[h].at

LEMMA SameAnswers ==
  ASSUME Sound, tasks' = tasks
  PROVE  NoNewAnswer
  BY DEF NoNewAnswer, Last, LastNow

LEMMA WorkStays ==
  ASSUME Sound, WorkInv, NEW h \in Handlers, Alone(h), HandsOver(h), inst' = inst, br' = br, Grows,
         dropped \subseteq dropped', NoNewAnswer
  PROVE  WorkInv'
  <1>w. Driven /\ Worked /\ Lifted /\ Carried  BY WorkParts
  <1>a. \A g \in Handlers : g # h => hs'[g] = hs[g]  BY DEF Alone
  <1>1. Driven'
    <2> SUFFICES ASSUME inst'.status = "FORKED", NEW b \in Branches, br'[b].status = "ACTIVE", b \notin dropped'
                 PROVE  \E g \in Handlers : hs'[g].pc = "drive" /\ hs'[g].tok = b
      BY DEF Driven, Active
    <2>1. PICK g \in Handlers : hs[g].pc = "drive" /\ hs[g].tok = b
      BY <1>w DEF Driven, Active
    <2> QED  BY <2>1, <1>a DEF HandsOver
  <1>2. Worked'
    <2> SUFFICES ASSUME inst'.status = "RUNNING", Root \notin dropped'
                 PROVE  \E g \in Handlers : hs'[g].tok = Root /\ hs'[g].pc \in {"advance", "drive"}
      BY DEF Worked
    <2>1. PICK g \in Handlers : hs[g].tok = Root /\ hs[g].pc \in {"advance", "drive"}
      BY <1>w DEF Worked
    <2> QED  BY <2>1, <1>a DEF HandsOver
  <1>3. Lifted'
    <2> SUFFICES ASSUME inst'.status \in {"RUNNING", "FAILED"}, inst'.at \in Rests, Root \notin dropped'
                 PROVE  \E g \in Handlers : hs'[g].tok = Root /\ hs'[g].pc = "advance"
      BY DEF Lifted
    <2>1. PICK g \in Handlers : hs[g].tok = Root /\ hs[g].pc = "advance"
      BY <1>w DEF Lifted
    <2> QED  BY <2>1, <1>a DEF HandsOver
  <1>4. Carried'
    <2> SUFFICES ASSUME NEW b \in Branches, b \notin dropped', b \notin stale', Tasked(b)',
                        LastNow(<<b, br'[b].at>>) = "COMPLETED"
                 PROVE  \E g \in Handlers : CarriesOn(g, b)'
      BY AnsweredBy DEF Carried
    <2>1. Tasked(b) /\ br'[b] = br[b]  BY DEF Tasked
    <2>2. Last(<<b, br[b].at>>) = "COMPLETED"  BY <2>1 DEF NoNewAnswer
    <2>3. PICK g \in Handlers : CarriesOn(g, b)
      BY <1>w, <2>1, <2>2, AnsweredBy DEF Carried, Grows
    <2>4. CASE g # h  BY <2>1, <2>3, <2>4, <1>a DEF CarriesOn
    <2>5. CASE g = h
      <3>1. hs[h].tok = b /\ hs[h].at = br[b].at /\ hs[h].pc \in {"answered", "wake"}
        BY <2>3, <2>5 DEF CarriesOn
      <3>2. KindOf(hs[h].at) = "task" /\ Sleeping(b) /\ b # Root
        BY <3>1, <2>1, TokenFacts DEF Tasked, Sleeping
      <3>3. hs'[h].pc \in {"answered", "wake"} /\ hs'[h].tok = b /\ hs'[h].at = br'[b].at
        BY <3>1, <3>2, <2>1 DEF HandsOver
      <3> QED  BY <3>3 DEF CarriesOn
    <2> QED  BY <2>4, <2>5
  <1> QED  BY <1>1, <1>2, <1>3, <1>4, WorkPartsNext

\* A step in which no handler moves, and one that leaves the run neither forked nor running.
LEMMA WorkSame ==
  ASSUME Sound, WorkInv, UNCHANGED <<inst, br, hs, dropped>>, Grows, NoNewAnswer
  PROVE  WorkInv'
  <1>w. Driven /\ Worked /\ Lifted /\ Carried  BY WorkParts
  <1>1. Driven' /\ Worked' /\ Lifted'  BY <1>w DEF Driven, Worked, Lifted, Active
  <1>2. Carried'
    <2> SUFFICES ASSUME NEW b \in Branches, b \notin dropped', b \notin stale', Tasked(b)',
                        LastNow(<<b, br'[b].at>>) = "COMPLETED"
                 PROVE  \E g \in Handlers : CarriesOn(g, b)'
      BY AnsweredBy DEF Carried
    <2>1. Tasked(b)  BY DEF Tasked
    <2>2. Last(<<b, br[b].at>>) = "COMPLETED"  BY <2>1 DEF NoNewAnswer
    <2>3. PICK g \in Handlers : CarriesOn(g, b)
      BY <1>w, <2>1, <2>2, AnsweredBy DEF Carried, Grows
    <2> QED  BY <2>3 DEF CarriesOn
  <1> QED  BY <1>1, <1>2, WorkPartsNext

LEMMA WorkParked ==
  ASSUME inst'.status \notin {"FORKED", "RUNNING"}, inst'.status = "FAILED" => inst'.at \notin Rests
  PROVE  WorkInv'
  <1>1. Driven' /\ Worked' /\ Lifted'  BY DEF Driven, Worked, Lifted
  <1>2. Carried'  BY AnsweredBy DEF Carried, Tasked
  <1> QED  BY <1>1, <1>2, WorkPartsNext

\* A handler at any other step has nothing to hand over.
LEMMA WorkIdle ==
  ASSUME Sound, WorkInv, NEW h \in Handlers, hs[h].pc \notin {"drive", "advance", "answered", "wake"},
         Alone(h), UNCHANGED <<inst, br, dropped>>, Grows, NoNewAnswer
  PROVE  WorkInv'
  <1>1. HandsOver(h)  BY DEF HandsOver
  <1> QED  BY <1>1, WorkStays

\* The driver of the branches leaves none active, and what it parks at a task is unanswered.
LEMMA WorkSweeps ==
  ASSUME Sound, WorkInv, NEW h \in Handlers, SweepStep(h)
  PROVE  WorkInv'
  <1>w. Carried  BY WorkParts
  <1>1. PICK row \in [Branches -> BranchRecords] :
          /\ hs[h].pc = "drive" /\ Ends(h) /\ Sweeps(h, row) /\ dropped' = dropped
          /\ \/ row = br /\ inst.status = "FORKED"
             \/ \A b \in Branches : row[b].status = "ACTIVE"
    BY DEF SweepStep
  <1>2. CASE inst'.status = "PAUSED" \/ (inst'.status = "FAILED" /\ inst'.at \in {Join, Fork})
    BY <1>2, MarkFacts, WorkParked
  <1>3. CASE inst'.status = "FORKED" /\ ToldWaiting(row)
    <2>1. Driven'  BY <1>1 DEF Driven, Active, Sweeps
    <2>2. Worked' /\ Lifted'  BY <1>3 DEF Worked, Lifted
    <2>3. Carried'
      <3> SUFFICES ASSUME NEW b \in Branches, b \notin dropped', b \notin stale', Tasked(b)',
                          LastNow(<<b, br'[b].at>>) = "COMPLETED"
                   PROVE  \E g \in Handlers : CarriesOn(g, b)'
        BY AnsweredBy DEF Carried
      <3>1. br'[b].status = "PAUSED" /\ KindOf(br'[b].at) = "task"  BY DEF Tasked
      <3>2. /\ row[b].status # "ACTIVE" /\ br'[b] = row[b]
            /\ \A w \in Rests : <<b, w>> \in Slots => tasks'[<<b, w>>] = tasks[<<b, w>>]
        BY <1>3, <3>1 DEF ToldWaiting
      <3>3. row = br /\ inst.status = "FORKED"  BY <1>1, <3>2
      <3>4. br'[b] = br[b] /\ Tasked(b)  BY <3>1, <3>2, <3>3 DEF Tasked
      <3>5. br[b].at \in Rests /\ <<b, br[b].at>> \in Slots  BY <3>4, TaskSlot DEF Tasked
      <3>6. Last(<<b, br[b].at>>) = "COMPLETED"  BY <3>2, <3>4, <3>5 DEF Last, LastNow
      <3>7. b \notin stale /\ b \notin dropped  BY <1>1 DEF Sweeps, Grows
      <3>8. PICK g \in Handlers : CarriesOn(g, b)  BY <1>w, <3>4, <3>6, <3>7, AnsweredBy DEF Carried
      <3>9. hs'[g] = hs[g]  BY <1>1, <3>8 DEF CarriesOn, Ends, Alone
      <3> QED  BY <3>4, <3>8, <3>9 DEF CarriesOn
    <2> QED  BY <2>1, <2>2, <2>3, WorkPartsNext
  <1> QED  BY <1>1, <1>2, <1>3 DEF Sweeps

LEMMA WorkDriveIdles ==
  ASSUME Sound, WorkInv, NEW h \in Handlers, DriveIdles(h)
  PROVE  WorkInv'
  <1>w. Lifted  BY WorkParts
  <1>1. /\ hs[h].pc = "drive" /\ Ends(h) /\ UNCHANGED <<inst, br, tasks, dropped>>
        /\ inst.status \in {"COMPLETED", "CANCELLED", "PAUSED"} \/ inst.at \in Rests
    BY DriveIdlesEffect
  <1>2. inst.status # "FORKED"  BY <1>1, MarkFacts DEF Sound, YoungInv
  <1>3. Driven' /\ Carried'  BY <1>1, <1>2, AnsweredBy DEF Driven, Carried, Tasked
  <1>4. Lifted' /\ Worked'
    <2>1. ASSUME inst'.status \in {"RUNNING", "FAILED"}, inst'.at \in Rests, Root \notin dropped'
          PROVE  \E g \in Handlers : hs'[g].tok = Root /\ hs'[g].pc = "advance"
      <3>1. PICK g \in Handlers : hs[g].tok = Root /\ hs[g].pc = "advance"  BY <1>w, <1>1, <2>1 DEF Lifted
      <3> QED  BY <1>1, <3>1 DEF Ends, Alone
    <2> QED  BY <1>1, <2>1 DEF Lifted, Worked
  <1> QED  BY <1>3, <1>4, WorkPartsNext

LEMMA WorkDriveRollsBack ==
  ASSUME Sound, WorkInv, NEW h \in Handlers, DriveRollsBack(h)
  PROVE  WorkInv'
  <1>w. Driven /\ Lifted /\ Carried  BY WorkParts
  <1>1. /\ hs[h].pc = "drive" /\ Ends(h) /\ UNCHANGED <<br, tasks>> /\ Grows
        /\ inst.status \in {"RUNNING", "FORKED", "FAILED"} /\ inst'.at = inst.at
        /\ inst'.status = (IF inst.status = "RUNNING" THEN "FAILED" ELSE inst.status)
        /\ dropped' = dropped \cup {hs[h].tok}
    BY DriveRollsBackEffect
  <1>a. \A g \in Handlers : g # h => hs'[g] = hs[g]  BY <1>1 DEF Ends, Alone
  <1>2. Driven'
    <2> SUFFICES ASSUME inst'.status = "FORKED", NEW b \in Branches, br'[b].status = "ACTIVE", b \notin dropped'
                 PROVE  \E g \in Handlers : hs'[g].pc = "drive" /\ hs'[g].tok = b
      BY DEF Driven, Active
    <2>1. inst.status = "FORKED"  BY <1>1
    <2>2. PICK g \in Handlers : hs[g].pc = "drive" /\ hs[g].tok = b
      BY <1>w, <1>1, <2>1 DEF Driven, Active
    <2> QED  BY <1>1, <1>a, <2>2
  <1>3. Worked'  BY <1>1 DEF Worked
  <1>4. Lifted'
    <2> SUFFICES ASSUME inst'.status \in {"RUNNING", "FAILED"}, inst'.at \in Rests, Root \notin dropped'
                 PROVE  \E g \in Handlers : hs'[g].tok = Root /\ hs'[g].pc = "advance"
      BY DEF Lifted
    <2>1. inst.status \in {"RUNNING", "FAILED"}  BY <1>1
    <2>2. PICK g \in Handlers : hs[g].tok = Root /\ hs[g].pc = "advance"  BY <1>w, <1>1, <2>1 DEF Lifted
    <2> QED  BY <1>1, <1>a, <2>2
  <1>5. Carried'
    <2> SUFFICES ASSUME NEW b \in Branches, b \notin dropped', b \notin stale', Tasked(b)',
                        LastNow(<<b, br'[b].at>>) = "COMPLETED"
                 PROVE  \E g \in Handlers : CarriesOn(g, b)'
      BY AnsweredBy DEF Carried
    <2>1. Tasked(b) /\ br'[b] = br[b]  BY <1>1 DEF Tasked
    <2>2. Last(<<b, br[b].at>>) = "COMPLETED"  BY <1>1, <2>1 DEF Last, LastNow
    <2>3. PICK g \in Handlers : CarriesOn(g, b)
      BY <1>w, <1>1, <2>1, <2>2, AnsweredBy DEF Carried, Grows
    <2> QED  BY <1>1, <1>a, <2>1, <2>3 DEF CarriesOn
  <1> QED  BY <1>2, <1>3, <1>4, <1>5, WorkPartsNext

LEMMA WorkWakes ==
  ASSUME Sound, WorkInv, NEW h \in Handlers, WakeBranch(h)
  PROVE  WorkInv'
  <1>w. Driven /\ Worked /\ Lifted /\ Carried  BY WorkParts
  <1>1. /\ hs[h].pc = "wake" /\ KeepsTo(h, "drive") /\ hs[h].tok \in Branches /\ Grows
        /\ \A b \in Branches : b # hs[h].tok => br'[b] = br[b]
        /\ br'[hs[h].tok].status = "ACTIVE"
        /\ UNCHANGED <<inst, tasks, dropped>>
    BY WakeBranchEffect
  <1>a. \A g \in Handlers : g # h => hs'[g] = hs[g]  BY <1>1 DEF KeepsTo, Alone
  <1>h. hs'[h].pc = "drive" /\ hs'[h].tok = hs[h].tok  BY <1>1 DEF KeepsTo
  <1>2. Driven'
    <2> SUFFICES ASSUME inst'.status = "FORKED", NEW b \in Branches, br'[b].status = "ACTIVE", b \notin dropped'
                 PROVE  \E g \in Handlers : hs'[g].pc = "drive" /\ hs'[g].tok = b
      BY DEF Driven, Active
    <2>1. CASE b = hs[h].tok  BY <1>h, <2>1
    <2>2. CASE b # hs[h].tok
      <3>1. br[b].status = "ACTIVE"  BY <1>1, <2>2
      <3>2. PICK g \in Handlers : hs[g].pc = "drive" /\ hs[g].tok = b
        BY <1>w, <1>1, <3>1 DEF Driven, Active
      <3> QED  BY <1>1, <1>a, <3>2
    <2> QED  BY <2>1, <2>2
  <1>3. Worked'
    <2> SUFFICES ASSUME inst'.status = "RUNNING", Root \notin dropped'
                 PROVE  \E g \in Handlers : hs'[g].tok = Root /\ hs'[g].pc \in {"advance", "drive"}
      BY DEF Worked
    <2>1. PICK g \in Handlers : hs[g].tok = Root /\ hs[g].pc \in {"advance", "drive"}
      BY <1>w, <1>1 DEF Worked
    <2> QED  BY <1>1, <1>a, <2>1
  <1>4. Lifted'
    <2> SUFFICES ASSUME inst'.status \in {"RUNNING", "FAILED"}, inst'.at \in Rests, Root \notin dropped'
                 PROVE  \E g \in Handlers : hs'[g].tok = Root /\ hs'[g].pc = "advance"
      BY DEF Lifted
    <2>1. PICK g \in Handlers : hs[g].tok = Root /\ hs[g].pc = "advance"  BY <1>w, <1>1 DEF Lifted
    <2> QED  BY <1>1, <1>a, <2>1
  <1>5. Carried'
    <2> SUFFICES ASSUME NEW b \in Branches, b \notin dropped', b \notin stale', Tasked(b)',
                        LastNow(<<b, br'[b].at>>) = "COMPLETED"
                 PROVE  \E g \in Handlers : CarriesOn(g, b)'
      BY AnsweredBy DEF Carried
    <2>1. b # hs[h].tok  BY <1>1 DEF Tasked
    <2>2. Tasked(b) /\ br'[b] = br[b]  BY <1>1, <2>1 DEF Tasked
    <2>3. Last(<<b, br[b].at>>) = "COMPLETED"  BY <1>1, <2>2 DEF Last, LastNow
    <2>4. PICK g \in Handlers : CarriesOn(g, b)
      BY <1>w, <1>1, <2>2, <2>3, AnsweredBy DEF Carried, Grows
    <2>5. g # h  BY <2>1, <2>4 DEF CarriesOn
    <2> QED  BY <1>a, <2>2, <2>4, <2>5 DEF CarriesOn
  <1> QED  BY <1>2, <1>3, <1>4, <1>5, WorkPartsNext

\* The answer that counts is carried on by the handler that gave it.
LEMMA WorkAnswers ==
  ASSUME Sound, WorkInv, NEW h \in Handlers, CompleteTask(h)
  PROVE  WorkInv'
  <1>w. Driven /\ Worked /\ Lifted /\ Carried  BY WorkParts
  <1>g. Grows  BY TypeFacts, CompleteTaskEffect DEF Sound, Grows
  <1>1. hs[h].pc = "submit" /\ UNCHANGED <<inst, br, dropped, stale>>  BY CompleteTaskEffect
  <1>2. CASE Ends(h) /\ tasks' = tasks
    <2>1. NoNewAnswer  BY <1>2, SameAnswers
    <2> QED  BY <1>1, <1>2, <1>g, <2>1, WorkIdle DEF Ends
  <1>3. ASSUME NEW s \in Slots, Slot(h) = s, KeepsTo(h, "answered"), \A q \in Slots : q # s => tasks'[q] = tasks[q]
        PROVE  WorkInv'
    <2>a. \A g \in Handlers : g # h => hs'[g] = hs[g]  BY <1>3 DEF KeepsTo, Alone
    <2>h. hs'[h].pc = "answered" /\ <<hs'[h].tok, hs'[h].at>> = s  BY <1>3 DEF KeepsTo, Slot
    <2>1. Driven' /\ Worked' /\ Lifted'
      <3>1. \A g \in Handlers : hs[g].pc \in {"drive", "advance"} => hs'[g] = hs[g]  BY <1>1, <2>a
      <3> QED  BY <1>1, <1>w, <3>1 DEF Driven, Worked, Lifted, Active
    <2>2. Carried'
      <3> SUFFICES ASSUME NEW b \in Branches, b \notin dropped', b \notin stale', Tasked(b)',
                          LastNow(<<b, br'[b].at>>) = "COMPLETED"
                   PROVE  \E g \in Handlers : CarriesOn(g, b)'
        BY AnsweredBy DEF Carried
      <3>1. Tasked(b) /\ br'[b] = br[b]  BY <1>1 DEF Tasked
      <3>2. CASE <<b, br[b].at>> = s  BY <2>h, <3>1, <3>2 DEF CarriesOn
      <3>3. CASE <<b, br[b].at>> # s
        <4>1. <<b, br[b].at>> \in Slots  BY <3>1, TaskSlot DEF Tasked
        <4>2. Last(<<b, br[b].at>>) = "COMPLETED"  BY <1>3, <3>1, <3>3, <4>1 DEF Last, LastNow
        <4>3. PICK g \in Handlers : CarriesOn(g, b)
          BY <1>w, <1>1, <3>1, <4>2, AnsweredBy DEF Carried
        <4>4. g # h  BY <1>1, <4>3 DEF CarriesOn
        <4> QED  BY <2>a, <3>1, <4>3, <4>4 DEF CarriesOn
      <3> QED  BY <3>2, <3>3
    <2> QED  BY <2>1, <2>2, WorkPartsNext
  <1> QED  BY <1>2, <1>3, CompleteTaskEffect DEF RowSet

\* Whoever lifts the pause of the run, moves its cursor or retries it, drives it next.
LEMMA WorkRoot ==
  ASSUME Sound, WorkInv, NEW h \in Handlers, Release(h) \/ Advance(h) \/ Retry(h)
  PROVE  WorkInv'
  <1>w. Worked /\ Lifted  BY WorkParts
  <1>1. Alone(h) /\ hs'[h].tok = Root /\ dropped' = dropped
    BY ReleaseStepEffect, AdvanceEffect, RetryEffect DEF KeepsTo, Starts
  <1>2. inst'.status # "FORKED"
    <2>1. ~Young => inst.status # "FORKED"  BY DEF Sound, YoungInv, Young
    <2> QED  BY <2>1, ReleaseStepEffect, AdvanceEffect, RetryEffect
  <1>3. Driven' /\ Carried'  BY <1>2, AnsweredBy DEF Driven, Carried, Tasked
  <1>4. hs'[h].pc \in {"advance", "drive"}
    BY ReleaseStepEffect, AdvanceEffect, RetryEffect DEF KeepsTo, Starts
  <1>5. Worked'  BY <1>1, <1>4 DEF Worked
  <1>6. Lifted'
    <2>1. CASE Release(h)
      <3>1. hs'[h].pc = "advance"  BY <2>1, ReleaseStepEffect DEF KeepsTo
      <3> QED  BY <1>1, <3>1 DEF Lifted
    <2>2. CASE Advance(h)
      <3>1. inst'.at \in Rests => inst'.status = "PAUSED"  BY <2>2, AdvanceEffect
      <3> QED  BY <3>1 DEF Lifted
    <2>3. CASE Retry(h)
      <3>1. hs[h].pc = "idle" /\ inst.status = "FAILED" /\ inst'.at = inst.at
        BY <2>3, RetryEffect DEF Starts
      <3> SUFFICES ASSUME inst'.at \in Rests, Root \notin dropped'
                   PROVE  \E g \in Handlers : hs'[g].tok = Root /\ hs'[g].pc = "advance"
        BY DEF Lifted
      <3>2. PICK g \in Handlers : hs[g].tok = Root /\ hs[g].pc = "advance"  BY <1>1, <1>w, <3>1 DEF Lifted
      <3> QED  BY <1>1, <3>1, <3>2 DEF Alone
    <2> QED  BY <2>1, <2>2, <2>3
  <1> QED  BY <1>3, <1>5, <1>6, WorkPartsNext

\* A handler that dies before it did anything can be replaced by another event.
LEMMA WorkCrashes ==
  ASSUME Sound, WorkInv, NEW h \in Handlers, Crash(h)
  PROVE  WorkInv'
  <1>t. Grows  BY TypeFacts, CrashEffect DEF Sound, Grows
  <1>1. /\ Alone(h) /\ (Carries(h) => hs[h].tok \in dropped') /\ dropped \subseteq dropped'
        /\ UNCHANGED <<inst, br, tasks, stale>>
    BY CrashEffect DEF Ends
  <1>2. NoNewAnswer  BY <1>1, SameAnswers
  <1>3. HandsOver(h)
    <2>1. hs[h].pc = "wake" /\ hs[h].row = 0 => KindOf(hs[h].at) # "task"  BY DEF Sound, PlaceInv, Engaged
    <2>2. hs[h].row \in Nat  BY HandlerFacts DEF Sound
    <2> QED  BY <1>1, <2>1, <2>2 DEF HandsOver, Carries
  <1> QED  BY <1>t, <1>1, <1>2, <1>3, WorkStays

LEMMA RowOpened ==
  ASSUME Sound, NEW s \in Slots, NEW i \in DOMAIN tasks[s], NEW status, RowSet(s, i, status), status # "COMPLETED"
  PROVE  NoNewAnswer
  <1>1. ASSUME NEW q \in Slots, LastNow(q) = "COMPLETED"  PROVE Last(q) = "COMPLETED"
    <2>1. tasks[q] \in Seq(TaskStatus) /\ tasks'[q] \in Seq(TaskStatus) /\ DOMAIN tasks'[q] = DOMAIN tasks[q]
      BY TypeFacts DEF Sound, RowSet
    <2>2. Len(tasks'[q]) = Len(tasks[q]) /\ DOMAIN tasks[q] = 1..Len(tasks[q]) /\ Len(tasks[q]) \in Nat
      BY <2>1, LenProperties
    <2>3. CASE q # s  BY <1>1, <2>3 DEF RowSet, Last, LastNow
    <2>4. CASE q = s
      <3>1. i \in 1..Len(tasks[q])  BY <2>2, <2>4
      <3>2. Len(tasks[q]) \in DOMAIN tasks[q]  BY <2>2, <3>1
      <3>3. Len(tasks[q]) # i  BY <1>1, <2>2, <2>4 DEF RowSet, LastNow
      <3> QED  BY <1>1, <2>2, <2>4, <3>2, <3>3 DEF RowSet, Last, LastNow
    <2> QED  BY <2>3, <2>4
  <1> QED  BY <1>1, TaskSlot DEF NoNewAnswer, Tasked

LEMMA WorkStep ==
  ASSUME Sound, WorkInv, [Next]_vars
  PROVE  WorkInv'
  <1>g. stale' = stale => Grows  BY TypeFacts DEF Sound, Grows
  <1>i. \A h \in Handlers : hs[h].pc = "idle" => hs[h].pc \notin {"drive", "advance", "answered", "wake"}
    OBVIOUS
  <1>1. ASSUME NEW h \in Handlers, DriveRoot(h) \/ DriveEnd(h) \/ DriveRejected(h) \/ Cancel(h)  PROVE WorkInv'
    <2>1. inst'.status \in {"PAUSED", "COMPLETED", "CANCELLED"} \/ (inst'.status = "FAILED" /\ inst'.at \notin Rests)
      BY <1>1, DriveRootEffect, DriveEndEffect, DriveRejectedEffect, CancelEffect, MarkFacts
    <2> QED  BY <2>1, WorkParked
  <1>2. ASSUME NEW h \in Handlers, FireBranchTimer(h) \/ SignalBranch(h) \/ SignalRoot(h)
                 \/ ReadToComplete(h) \/ ReadToReassign(h) \/ ReadForCancel(h)
        PROVE  WorkInv'
    <2>1. hs[h].pc = "idle" /\ Alone(h) /\ UNCHANGED <<inst, br, tasks, dropped>> /\ Grows
      BY <1>2, <1>g, FireBranchTimerEffect, SignalBranchEffect, SignalRootEffect, ReadToCompleteEffect,
         ReadToReassignEffect, ReadForCancelEffect DEF Starts, Ends
    <2> QED  BY <2>1, <1>i, SameAnswers, WorkIdle
  <1>3. ASSUME NEW h \in Handlers, FireRootTimer(h)  PROVE WorkInv'
    <2>1. hs[h].pc = "idle" /\ (hs' = hs \/ Alone(h)) /\ UNCHANGED <<inst, br, tasks, dropped>> /\ Grows
      BY <1>3, FireRootTimerEffect DEF Starts
    <2> QED  BY <2>1, <1>i, SameAnswers, WorkIdle, WorkSame
  <1>4. ASSUME ClaimTask  PROVE WorkInv'
    <2>1. NoNewAnswer  BY <1>4, ClaimTaskEffect, RowOpened
    <2> QED  BY <1>4, <2>1, <1>g, ClaimTaskEffect, WorkSame
  <1>5. ASSUME NEW h \in Handlers, ReassignTask(h)  PROVE WorkInv'
    <2>1. NoNewAnswer  BY <1>5, ReassignTaskEffect, RowOpened
    <2>2. hs[h].pc = "reassign" /\ Alone(h) /\ UNCHANGED <<inst, br, dropped, stale>>
      BY <1>5, ReassignTaskEffect DEF Ends
    <2> QED  BY <2>1, <2>2, <1>g, WorkIdle
  <1>6. ASSUME NEW h \in Handlers, ContinueBranch(h)  PROVE WorkInv'
    <2>1. /\ hs[h].pc = "answered" /\ hs[h].tok \in Branches /\ Grows /\ UNCHANGED <<inst, br, tasks, dropped>>
          /\ KeepsTo(h, "wake") \/ (~Sleeping(hs[h].tok) /\ Ends(h))
      BY <1>6, ContinueBranchEffect
    <2>2. HandsOver(h) /\ Alone(h)  BY <2>1 DEF HandsOver, KeepsTo, Ends
    <2> QED  BY <2>1, <2>2, SameAnswers, WorkStays
  <1>7. ASSUME NEW h \in Handlers, ContinueRoot(h)  PROVE WorkInv'
    <2>1. /\ hs[h].pc = "answered" /\ hs[h].tok = Root /\ Alone(h) /\ Grows
          /\ UNCHANGED <<inst, br, tasks, dropped>>
      BY <1>7, ContinueRootEffect DEF Ends
    <2>2. HandsOver(h)  BY <2>1 DEF HandsOver
    <2> QED  BY <2>1, <2>2, SameAnswers, WorkStays
  <1>8. ASSUME NEW h \in Handlers, AdvanceRejected(h)  PROVE WorkInv'
    <2>1. /\ hs[h].pc = "advance" /\ hs[h].tok = Root /\ Alone(h) /\ dropped' = dropped \cup {Root}
          /\ UNCHANGED <<inst, br, tasks, stale>>
      BY <1>8, AdvanceRejectedEffect DEF Ends
    <2>2. HandsOver(h)  BY <2>1 DEF HandsOver
    <2> QED  BY <2>1, <2>2, <1>g, SameAnswers, WorkStays
  <1>9. ASSUME Redeliver \/ UNCHANGED vars  PROVE WorkInv'
    <2>1. UNCHANGED <<inst, br, hs, tasks, dropped, stale>>  BY <1>9 DEF Redeliver, vars, hist
    <2> QED  BY <2>1, <1>g, SameAnswers, WorkSame
  <1> QED
    BY <1>1, <1>2, <1>3, <1>4, <1>5, <1>6, <1>7, <1>8, <1>9, WorkSweeps, WorkDriveIdles, WorkDriveRollsBack,
       WorkWakes, WorkAnswers, WorkRoot, WorkCrashes, DriveBranchesEffect, DriveStartEffect
    DEF Next, GoOn, Execute, Deliver, Ask

LEMMA WorkInit ==
  ASSUME Init
  PROVE  WorkInv
  <1>1. inst.status = "RUNNING" /\ inst.at = Start  BY DEF Init
  <1>2. Driven /\ Lifted  BY <1>1, MarkFacts DEF Driven, Lifted
  <1>3. Carried  BY <1>1, AnsweredBy DEF Carried, Tasked
  <1>4. Worked
    <2>1. PICK c \in Callers : hs = [h \in Handlers |-> IF h = c THEN [Idle EXCEPT !.pc = "drive"] ELSE Idle]
      BY DEF Init
    <2>2. PICK k : k = [Idle EXCEPT !.pc = "drive"]  OBVIOUS
    <2>3. k.pc = "drive" /\ k.tok = Root  BY <2>2, IdleFacts DEF HandlerRecords
    <2>4. c \in Handlers /\ hs[c] = k  BY <2>1, <2>2 DEF Handlers
    <2> QED  BY <2>3, <2>4 DEF Worked
  <1> QED  BY <1>2, <1>3, <1>4, WorkParts

\* Work that has begun has somebody to finish it, unless that handler died: a branch that
\* was woken has a driver, a run that is on its way a handler, and a completed task of a
\* parked branch the request that completed it.
THEOREM NoLostWorkHolds == Spec => []NoLostWork
  <1>1. Init => Sound /\ WorkInv  BY SoundInit, WorkInit
  <1>2. (Sound /\ WorkInv) /\ [Next]_vars => (Sound /\ WorkInv)'
    BY TypeStep, PlaceStep, YoungStep, WorkStep DEF Sound
  <1>3. WorkInv => NoLostWork
    <2> SUFFICES ASSUME WorkInv PROVE NoLostWork  OBVIOUS
    <2>1. Driven /\ Worked /\ Carried  BY WorkParts
    <2>2. inst.status = "FORKED" => \A b \in Active(br) \ dropped : \E h \in Handlers : hs[h].pc = "drive"
      BY <2>1 DEF Driven
    <2>3. \A b \in Branches \ (dropped \cup stale) :
            /\ inst.status = "FORKED" /\ Sleeping(b) /\ KindOf(br[b].at) = "task" /\ Last(<<b, br[b].at>>) = "COMPLETED"
            => \E h \in Handlers : Slot(h) = <<b, br[b].at>> /\ hs[h].pc \in {"answered", "wake"}
      BY <2>1 DEF Carried, Answered
    <2> QED  BY <2>1, <2>2, <2>3 DEF NoLostWork, Worked
  <1> QED  BY <1>1, <1>2, <1>3, PTL DEF Spec
=============================================================================
