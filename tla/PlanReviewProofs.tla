--------------------------- MODULE PlanReviewProofs ---------------------------
(***************************************************************************)
(* What the approval of a plan is worth when no edit commits over another  *)
(* one: a version number stands for one contents, so an approved plan is   *)
(* what a reviewer has seen, and the plan implements PlanGate.             *)
(***************************************************************************)
EXTENDS PlanReview, TLAPS, SequenceTheorems

Orderly == "edit" \notin PlanRaces

\* reviews as a sequence, for the library's facts about Append.
AllData == UNION {[S -> [version : Nat \ {0}, body : Bodies]] : S \in SUBSET Slides \ {{}}}
ReviewRow == [version : Nat \ {0}, decision : {"approve", "reject"}, data : AllData]
ReviewsAreRows == reviews \in Seq(ReviewRow)

-------------------------------------------------------------------------------
(* The contents of plans *)

LEMMA DataIsFunction == \A d : Gate!IsData(d) <=> d \in AllData
<1> TAKE d
<1>1. ASSUME Gate!IsData(d) PROVE d \in AllData
  BY <1>1 DEF Gate!IsData, Gate!Versioned, AllData
<1>2. ASSUME d \in AllData PROVE Gate!IsData(d)
  <2>1. PICK S \in SUBSET Slides \ {{}} : d \in [S -> [version : Nat \ {0}, body : Bodies]]
    BY <1>2 DEF AllData
  <2> QED BY <2>1 DEF Gate!IsData, Gate!Versioned
<1> QED BY <1>1, <1>2

\* What users send, at its first and at its next versions, is data of a plan.
LEMMA FirstIsData ==
  ASSUME NEW c \in Gate!Contents
  PROVE  Gate!IsData(Gate!First(c)) /\ DOMAIN Gate!First(c) = DOMAIN c
<1>1. PICK S \in SUBSET Slides \ {{}} : c \in [S -> Bodies]
  BY DEF Gate!Contents
<1> QED BY <1>1 DEF Gate!First, Gate!IsData, Gate!Versioned

LEMMA NumberedIsData ==
  ASSUME NEW c \in Gate!Contents, NEW d, Gate!IsData(d)
  PROVE  Gate!IsData(Gate!Numbered(d, c)) /\ DOMAIN Gate!Numbered(d, c) = DOMAIN c
<1>1. PICK S \in SUBSET Slides \ {{}} : c \in [S -> Bodies]
  BY DEF Gate!Contents
<1>2. \A s \in DOMAIN d : d[s].version \in Nat \ {0} /\ d[s].body \in Bodies
  BY DEF Gate!IsData, Gate!Versioned
<1>3. \A s \in S : Gate!Numbered(d, c)[s] \in Gate!Versioned
  BY <1>1, <1>2 DEF Gate!Numbered, Gate!Versioned
<1>4. Gate!Numbered(d, c) \in [S -> Gate!Versioned]
  BY <1>1, <1>3 DEF Gate!Numbered
<1> QED BY <1>1, <1>4 DEF Gate!IsData

-------------------------------------------------------------------------------
(* Rows *)

LEMMA EditedIsRow ==
  ASSUME NEW p, IsPlanRow(p), NEW c \in Gate!Contents
  PROVE  IsPlanRow(Edited(p, c))
BY NumberedIsData DEF IsPlanRow, Edited

LEMMA DecidedIsRow ==
  ASSUME NEW p, IsPlanRow(p), NEW d \in {"approve", "reject"}
  PROVE  IsPlanRow(Decided(p, d))
BY DEF IsPlanRow, Decided

LEMMA FlushedFields ==
  ASSUME NEW r, NEW old, NEW new
  PROVE  LET f == FlushPlan(r, old, new) IN
         /\ f.version = IF new.version # old.version THEN new.version ELSE r.version
         /\ f.status = IF new.status # old.status THEN new.status ELSE r.status
         /\ f.approved_version =
              IF new.approved_version # old.approved_version
              THEN new.approved_version ELSE r.approved_version
         /\ f.data = IF new.data # old.data THEN new.data ELSE r.data
         /\ f = [version |-> f.version, status |-> f.status,
                 approved_version |-> f.approved_version, data |-> f.data]
BY DEF FlushPlan

LEMMA FlushedIsRow ==
  ASSUME NEW r, NEW old, NEW new, IsPlanRow(r), IsPlanRow(old), IsPlanRow(new)
  PROVE  IsPlanRow(FlushPlan(r, old, new))
<1> DEFINE f == FlushPlan(r, old, new)
<1>1. f = [version |-> f.version, status |-> f.status,
           approved_version |-> f.approved_version, data |-> f.data]
  BY FlushedFields
<1>2. /\ f.version \in Nat \ {0}
      /\ f.status \in {"VALIDATED", "DRAFT", "APPROVED", "REJECTED"}
      /\ f.approved_version \in Nat \cup {None}
      /\ Gate!IsData(f.data)
  BY FlushedFields DEF IsPlanRow
<1>3. IsPlanRow(f)
  <2> HIDE DEF f
  <2> QED BY <1>1, <1>2 DEF IsPlanRow
<1> QED BY <1>3

LEMMA MissingRows ==
  ASSUME NEW rows, NEW d, Gate!IsData(d)
  PROVE  Missing(rows, d) \subseteq [slide : Slides, version : Nat \ {0}, body : Bodies]
<1>1. \A s \in DOMAIN d : s \in Slides /\ d[s].version \in Nat \ {0} /\ d[s].body \in Bodies
  BY DEF Gate!IsData, Gate!Versioned
<1> QED BY <1>1 DEF Missing

-------------------------------------------------------------------------------
(* Types *)

TypedRows == PlanTypeOK /\ ReviewsAreRows

LEMMA InitTyped == PlanInit => TypedRows
<1> SUFFICES ASSUME PlanInit PROVE TypedRows
  OBVIOUS
<1>1. PICK c \in Gate!Contents :
        plan = [version |-> 1, status |-> "VALIDATED", approved_version |-> None,
                data |-> Gate!First(c)]
  BY DEF PlanInit
<1>2. IsPlanRow(plan)
  BY <1>1, FirstIsData DEF IsPlanRow
<1>3. slides \subseteq [slide : Slides, version : Nat \ {0}, body : Bodies]
  BY <1>2, MissingRows DEF PlanInit, IsPlanRow
<1> QED BY <1>2, <1>3 DEF PlanInit, TypedRows, PlanTypeOK, ReviewsAreRows

LEMMA StepTyped ==
  ASSUME TypedRows, NEW c \in Clients, PlanStep(c)
  PROVE  TypedRows'
<1> USE DEF TypedRows, ReviewsAreRows
<1>1. CASE Look(c)
  BY <1>1 DEF Look, PlanTypeOK, IsPlanRow, IsScreen
<1>2. CASE EditLoad(c)
  <2>1. PICK new \in Gate!Contents :
          request' = [request EXCEPT ![c] =
            [op |-> "edit", old |-> plan, new |-> Edited(plan, new), reviews |-> Len(reviews),
             seen |-> plan.data]]
    BY <1>2 DEF EditLoad
  <2>2. IsPlanRow(plan) /\ IsPlanRow(Edited(plan, new)) /\ Gate!IsData(plan.data) /\ Len(reviews) \in Nat
    <3>1. IsPlanRow(plan)
      BY DEF PlanTypeOK
    <3>2. IsPlanRow(Edited(plan, new))
      BY <3>1, EditedIsRow
    <3> QED BY <3>1, <3>2 DEF IsPlanRow
  <2>3. IsRequest(request'[c])
    BY <2>1, <2>2 DEF IsRequest, PlanTypeOK
  <2> QED BY <1>2, <2>1, <2>3 DEF EditLoad, PlanTypeOK
<1>3. CASE DecideLoad(c)
  <2>1. PICK decision \in {"approve", "reject"} :
          request' = [request EXCEPT ![c] =
            [op |-> decision, old |-> plan, new |-> Decided(plan, decision),
             reviews |-> Len(reviews), seen |-> screen[c].data]]
    BY <1>3 DEF DecideLoad
  <2>2. IsPlanRow(plan) /\ IsPlanRow(Decided(plan, decision)) /\ Gate!IsData(screen[c].data)
        /\ Len(reviews) \in Nat
    <3>1. IsPlanRow(plan)
      BY DEF PlanTypeOK
    <3>2. IsPlanRow(Decided(plan, decision))
      BY <3>1, DecidedIsRow
    <3> QED BY <1>3, <3>1, <3>2 DEF PlanTypeOK, IsScreen, DecideLoad
  <2>3. IsRequest(request'[c])
    BY <2>1, <2>2 DEF IsRequest, PlanTypeOK
  <2> QED BY <1>3, <2>1, <2>3 DEF DecideLoad, PlanTypeOK
<1>4. CASE EditCommit(c)
  <2>1. IsRequest(request[c]) /\ IsPlanRow(plan)
    BY <1>4 DEF EditCommit, PlanTypeOK
  <2>2. IsPlanRow(plan')
    BY <1>4, <2>1, FlushedIsRow DEF EditCommit, IsRequest
  <2>3. slides' \subseteq [slide : Slides, version : Nat \ {0}, body : Bodies]
    BY <1>4, <2>1, MissingRows DEF EditCommit, IsRequest, IsPlanRow, PlanTypeOK
  <2> QED BY <1>4, <2>2, <2>3 DEF EditCommit, PlanTypeOK
<1>5. CASE DecideCommit(c)
  <2> DEFINE q == request[c]
             r == [version |-> q.old.version, decision |-> q.op, data |-> q.seen]
  <2>1. IsRequest(q) /\ IsPlanRow(plan) /\ q.op \in {"approve", "reject"}
    BY <1>5 DEF DecideCommit, PlanTypeOK
  <2>2. IsPlanRow(plan')
    BY <1>5, <2>1, FlushedIsRow DEF DecideCommit, IsRequest
  <2>3. q.old.version \in Nat \ {0} /\ Gate!IsData(q.seen)
    BY <2>1 DEF IsRequest, IsPlanRow
  <2>4. r \in ReviewRow /\ IsReview(r)
    BY <2>1, <2>3, DataIsFunction DEF ReviewRow, IsReview
  <2>5. reviews' = Append(reviews, r)
    BY <1>5 DEF DecideCommit
  <2> HIDE DEF r
  <2>6. /\ reviews' \in Seq(ReviewRow) /\ Len(reviews') = Len(reviews) + 1
        /\ \A i \in DOMAIN reviews' : reviews'[i] = IF i = Len(reviews) + 1 THEN r ELSE reviews[i]
        /\ DOMAIN reviews' = 1 .. Len(reviews')
    BY <2>4, <2>5, AppendProperties
  <2>7. \A i \in DOMAIN reviews' : IsReview(reviews'[i])
    BY <2>4, <2>6 DEF PlanTypeOK
  <2> QED BY <1>5, <2>2, <2>6, <2>7 DEF DecideCommit, PlanTypeOK
<1>6. CASE PlanRequestFails(c)
  BY <1>6 DEF PlanRequestFails, PlanTypeOK
<1> QED BY <1>1, <1>2, <1>3, <1>4, <1>5, <1>6 DEF PlanStep

LEMMA Typed == PlanSpec => []TypedRows
<1>1. TypedRows /\ [\E c \in Clients : PlanStep(c)]_planVars => TypedRows'
  <2> SUFFICES ASSUME TypedRows, [\E c \in Clients : PlanStep(c)]_planVars PROVE TypedRows'
    OBVIOUS
  <2>1. CASE \E c \in Clients : PlanStep(c)
    BY <2>1, StepTyped
  <2>2. CASE UNCHANGED planVars
    BY <2>2 DEF planVars, TypedRows, PlanTypeOK, ReviewsAreRows
  <2> QED BY <2>1, <2>2
<1> QED BY <1>1, InitTyped, PTL DEF PlanSpec

\* Any requests, whatever they do to each other, leave rows and requests well-formed.
THEOREM PlanTypeCorrect == PlanSpec => []PlanTypeOK
BY Typed, PTL DEF TypedRows

-------------------------------------------------------------------------------
(* What commits do to the plan *)

\* An edit renumbers what the row holds now.
Renewed(new) ==
  /\ plan.version < MaxVersion
  /\ Restores \/ (DOMAIN new \ DOMAIN plan.data) \cap UsedIds = {}
  /\ plan'.version = plan.version + 1
  /\ plan'.data = Gate!Numbered(plan.data, new)
  /\ plan'.approved_version \in {None, plan.approved_version}
  /\ slides' = slides \cup Missing(slides, plan'.data)

LEMMA EditEffect ==
  ASSUME Orderly, PlanInv, NEW c \in Clients, EditCommit(c)
  PROVE  \E new \in Gate!Contents : Renewed(new)
<1> DEFINE q == request[c]
<1>1. q # NoRequest /\ q.op = "edit" /\ plan.version = q.old.version /\ plan' = FlushPlan(plan, q.old, q.new)
      /\ slides' = slides \cup Missing(slides, q.new.data)
  BY DEF EditCommit, Orderly
<1>2. IsPlanRow(plan) /\ IsPlanRow(q.old)
  BY <1>1 DEF PlanInv, PlanTypeOK, IsRequest
<1>3. q.old.data = plan.data /\ q.old.version < MaxVersion
  BY <1>1 DEF PlanInv, RequestsTrue, RequestTrue, Same
<1>4. PICK new \in Gate!Contents :
        /\ q.new = Edited(q.old, new)
        /\ Restores \/ (DOMAIN new \ DOMAIN plan.data) \cap UsedIds = {}
  BY <1>1 DEF PlanInv, RequestsTrue, RequestTrue
<1>5. /\ q.new.version = q.old.version + 1 /\ q.new.approved_version = None
      /\ q.new.data = Gate!Numbered(q.old.data, new)
  BY <1>4 DEF Edited
<1>6. /\ plan'.version = plan.version + 1
      /\ plan'.data = q.new.data
      /\ plan'.approved_version \in {None, plan.approved_version}
  <2>1. q.old.version + 1 # q.old.version
    BY <1>2 DEF IsPlanRow
  <2> HIDE DEF q
  <2> QED BY <1>1, <1>3, <1>5, <2>1, FlushedFields
<1> QED BY <1>1, <1>3, <1>4, <1>5, <1>6 DEF Renewed

\* A decision leaves the contents alone and records what was decided on.
Resolved(number, decision, seen) ==
  /\ plan'.version = plan.version /\ plan'.data = plan.data /\ slides' = slides
  /\ \/ plan'.approved_version \in {None, plan.approved_version}
     \/ plan'.approved_version = number /\ decision = "approve"
  /\ reviews' = Append(reviews, [version |-> number, decision |-> decision, data |-> seen])

LEMMA DecideEffect ==
  ASSUME PlanInv, NEW c \in Clients, DecideCommit(c)
  PROVE  /\ Resolved(request[c].old.version, request[c].op, request[c].seen)
         /\ Same(request[c].old.version, request[c].seen)
         /\ request[c].old.version \in Nat
<1> DEFINE q == request[c]
<1>1. /\ q # NoRequest /\ q.op \in {"approve", "reject"} /\ plan' = FlushPlan(plan, q.old, q.new)
      /\ reviews' = Append(reviews, [version |-> q.old.version, decision |-> q.op, data |-> q.seen])
      /\ slides' = slides
  BY DEF DecideCommit
<1>2. IsPlanRow(q.old)
  BY <1>1 DEF PlanInv, PlanTypeOK, IsRequest
<1>3. q.new = Decided(q.old, q.op) /\ q.seen = q.old.data /\ Same(q.old.version, q.old.data)
  BY <1>1 DEF PlanInv, RequestsTrue, RequestTrue
<1>4. /\ q.new.version = q.old.version /\ q.new.data = q.old.data
      /\ q.new.approved_version = None \/ (q.new.approved_version = q.old.version /\ q.op = "approve")
  BY <1>1, <1>3 DEF Decided
<1>5. /\ plan'.version = plan.version /\ plan'.data = plan.data
      /\ \/ plan'.approved_version \in {None, plan.approved_version}
         \/ plan'.approved_version = q.old.version /\ q.op = "approve"
  <2> HIDE DEF q
  <2> QED BY <1>1, <1>4, FlushedFields
<1> QED BY <1>1, <1>2, <1>3, <1>5 DEF Resolved, IsPlanRow

-------------------------------------------------------------------------------
(* The inductive invariant *)

Numbers ==
  /\ plan.version \in Nat
  /\ \A c \in Clients : request[c] # NoRequest => request[c].old.version \in Nat
  /\ \A c \in Clients : screen[c] # NoScreen => screen[c].version \in Nat
  /\ \A i \in DOMAIN reviews : reviews[i].version \in Nat

LEMMA TypedNumbers == PlanTypeOK => Numbers
BY DEF PlanTypeOK, Numbers, IsPlanRow, IsRequest, IsScreen, IsReview

LEMMA InitInv == PlanInit => PlanInv
<1> SUFFICES ASSUME PlanInit PROVE PlanInv
  OBVIOUS
<1>1. PlanTypeOK
  BY InitTyped DEF TypedRows
<1>2. plan.version = 1 /\ plan.approved_version = None
  BY DEF PlanInit
<1> QED BY <1>1, <1>2, NoneAssumption DEF PlanInit, PlanInv, RequestsTrue, RequestTrue, ScreensTrue, ReviewsTrue, ApprovalBacked

\* An edit leaves every earlier number behind.
LEMMA EditKeepsInv ==
  ASSUME Orderly, PlanInv, PlanTypeOK', NEW c \in Clients, EditCommit(c)
  PROVE  PlanInv'
<1>1. PICK new \in Gate!Contents : Renewed(new)
  BY EditEffect
<1>2. Numbers
  BY TypedNumbers DEF PlanInv
<1>3. /\ screen' = screen /\ reviews' = reviews
      /\ request' = [request EXCEPT ![c] = NoRequest]
  BY DEF EditCommit
<1>4. \A n \in Nat : \A d : Same(n, d) => Same(n, d)' /\ n # plan'.version
  BY <1>1, <1>2 DEF Same, Renewed, Numbers
<1>5. \A k \in Clients : request'[k] # NoRequest => request'[k] = request[k]
  BY <1>3 DEF PlanInv, PlanTypeOK
<1>6. RequestsTrue'
  <2> SUFFICES ASSUME NEW k \in Clients, request'[k] # NoRequest
               PROVE  RequestTrue(request[k])'
    BY DEF RequestsTrue
  <2>1. request'[k] = request[k] /\ request[k] # NoRequest /\ request[k].old.version \in Nat
    BY <1>2, <1>5 DEF Numbers
  <2>2. RequestTrue(request[k]) /\ Same(request[k].old.version, request[k].old.data)
    BY <2>1 DEF PlanInv, RequestsTrue, RequestTrue
  <2>3. Same(request[k].old.version, request[k].old.data)' /\ request[k].old.version # plan'.version
    BY <1>4, <1>5, <2>1, <2>2 DEF Same
  <2> QED BY <2>1, <2>2, <2>3 DEF RequestTrue, Same
<1>7. ScreensTrue'
  BY <1>2, <1>3, <1>4 DEF PlanInv, ScreensTrue, Numbers, Same
<1>8. ReviewsTrue'
  BY <1>2, <1>3, <1>4 DEF PlanInv, ReviewsTrue, Numbers, Same
<1>9. ApprovalBacked'
  BY <1>1, <1>2, NoneAssumption DEF PlanInv, PlanTypeOK, IsPlanRow, ApprovalBacked, Renewed, Numbers
<1> QED BY <1>6, <1>7, <1>8, <1>9 DEF PlanInv

LEMMA DecisionKeepsInv ==
  ASSUME PlanInv, ReviewsAreRows, PlanTypeOK', NEW c \in Clients, DecideCommit(c)
  PROVE  PlanInv'
<1> DEFINE number == request[c].old.version
           decision == request[c].op
           seen == request[c].seen
           r == [version |-> number, decision |-> decision, data |-> seen]
<1>1. Resolved(number, decision, seen) /\ Same(number, seen) /\ number \in Nat
  BY DecideEffect
<1>2. /\ screen' = screen /\ request' = [request EXCEPT ![c] = NoRequest]
      /\ request[c] # NoRequest /\ decision \in {"approve", "reject"}
  BY DEF DecideCommit
<1>3. \A k \in Clients : request'[k] # NoRequest => request'[k] = request[k]
  BY <1>2 DEF PlanInv, PlanTypeOK
<1>4. plan'.version = plan.version /\ plan'.data = plan.data /\ UsedIds' = UsedIds
  BY <1>1 DEF Resolved, UsedIds
<1>5. RequestsTrue'
  BY <1>3, <1>4 DEF PlanInv, RequestsTrue, RequestTrue, Same
<1>6. ScreensTrue'
  BY <1>2, <1>4 DEF PlanInv, ScreensTrue, Same
<1>7. r \in ReviewRow
  BY <1>1, <1>2, DataIsFunction DEF PlanInv, PlanTypeOK, IsRequest, IsPlanRow, ReviewRow
<1>8. reviews' = Append(reviews, r) /\ r.version = number /\ r.decision = decision /\ r.data = seen
  BY <1>1 DEF Resolved
<1>9. /\ DOMAIN reviews' = 1 .. Len(reviews) + 1 /\ DOMAIN reviews = 1 .. Len(reviews)
      /\ Len(reviews) \in Nat
      /\ \A i \in 1 .. Len(reviews) : reviews'[i] = reviews[i]
      /\ reviews'[Len(reviews) + 1] = r
  <2> HIDE DEF r
  <2> QED BY <1>7, <1>8, AppendProperties, LenProperties DEF ReviewsAreRows
<1> HIDE DEF number, decision, seen, r
<1>10. ReviewsTrue'
  BY <1>1, <1>4, <1>8, <1>9 DEF PlanInv, ReviewsTrue, Same
<1>11. ApprovalBacked'
  <2>1. plan'.approved_version # None => plan'.approved_version <= plan'.version
    BY <1>1, <1>4 DEF PlanInv, ApprovalBacked, Resolved, Same
  <2>2. ASSUME plan'.approved_version = plan'.version
        PROVE  \E i \in DOMAIN reviews' :
                 reviews'[i].decision = "approve" /\ reviews'[i].version = plan'.version
    <3>1. CASE plan'.approved_version = number /\ decision = "approve"
      BY <1>8, <1>9, <2>2, <3>1
    <3>2. CASE plan'.approved_version \in {None, plan.approved_version}
      <4>1. plan.approved_version = plan.version
        BY <1>4, <2>2, <3>2, TypedNumbers, NoneAssumption DEF Numbers, PlanInv
      <4>2. PICK i \in DOMAIN reviews : reviews[i].decision = "approve" /\ reviews[i].version = plan.version
        BY <4>1 DEF PlanInv, ApprovalBacked
      <4> QED BY <1>4, <1>9, <4>2
    <3> QED BY <1>1, <3>1, <3>2 DEF Resolved
  <2> QED BY <2>1, <2>2 DEF ApprovalBacked
<1> QED BY <1>5, <1>6, <1>10, <1>11 DEF PlanInv

LEMMA ReadingKeepsInv ==
  ASSUME PlanInv, PlanTypeOK', NEW c \in Clients,
         Look(c) \/ EditLoad(c) \/ DecideLoad(c) \/ PlanRequestFails(c)
  PROVE  PlanInv'
<1>1. UNCHANGED <<plan, slides, reviews>>
  BY DEF Look, EditLoad, DecideLoad, PlanRequestFails
<1>2. ReviewsTrue' /\ ApprovalBacked' /\ UsedIds' = UsedIds
  BY <1>1 DEF PlanInv, ReviewsTrue, ApprovalBacked, Same, UsedIds
<1>3. DOMAIN request = Clients /\ DOMAIN screen = Clients /\ plan.version \in Nat
  BY DEF PlanInv, PlanTypeOK, IsPlanRow
<1>4. ScreensTrue'
  BY <1>1, <1>3 DEF PlanInv, ScreensTrue, Same, Look, EditLoad, DecideLoad, PlanRequestFails
<1>5. \A q : RequestTrue(q) <=> RequestTrue(q)'
  BY <1>1, <1>2 DEF RequestTrue, Same
<1>6. RequestsTrue'
  <2>1. CASE Look(c) \/ PlanRequestFails(c)
    BY <1>3, <1>5, <2>1 DEF PlanInv, RequestsTrue, Look, PlanRequestFails
  <2>2. CASE EditLoad(c)
    <3>1. PICK new \in Gate!Contents :
            /\ Restores \/ (DOMAIN new \ DOMAIN plan.data) \cap UsedIds = {}
            /\ request' = [request EXCEPT ![c] =
                 [op |-> "edit", old |-> plan, new |-> Edited(plan, new), reviews |-> Len(reviews),
                  seen |-> plan.data]]
      BY <2>2 DEF EditLoad
    <3>2. RequestTrue(request'[c])
      BY <1>3, <2>2, <3>1 DEF RequestTrue, Same, EditLoad
    <3> QED BY <1>3, <1>5, <3>1, <3>2 DEF PlanInv, RequestsTrue
  <2>3. CASE DecideLoad(c)
    <3>1. PICK decision \in {"approve", "reject"} :
            request' = [request EXCEPT ![c] =
              [op |-> decision, old |-> plan, new |-> Decided(plan, decision),
               reviews |-> Len(reviews), seen |-> screen[c].data]]
      BY <2>3 DEF DecideLoad
    <3>2. screen[c].data = plan.data
      BY <2>3 DEF DecideLoad, PlanInv, ScreensTrue, Same
    <3>3. RequestTrue(request'[c])
      BY <1>3, <3>1, <3>2 DEF RequestTrue, Same
    <3> QED BY <1>3, <1>5, <3>1, <3>3 DEF PlanInv, RequestsTrue
  <2> QED BY <2>1, <2>2, <2>3
<1> QED BY <1>2, <1>4, <1>6 DEF PlanInv

PlanNext == \E c \in Clients : PlanStep(c)

LEMMA StepKeepsInv ==
  ASSUME Orderly, PlanInv, ReviewsAreRows, PlanTypeOK', [PlanNext]_planVars
  PROVE  PlanInv'
<1>1. CASE PlanNext
  BY <1>1, EditKeepsInv, DecisionKeepsInv, ReadingKeepsInv DEF PlanNext, PlanStep
<1>2. CASE UNCHANGED planVars
  BY <1>2 DEF planVars, PlanInv, RequestsTrue, RequestTrue, ScreensTrue, ReviewsTrue, ApprovalBacked, Same,
              UsedIds, PlanTypeOK
<1> QED BY <1>1, <1>2

\* Unless an edit commits over another edit, a version number of a plan never comes to
\* stand for other contents, whatever decisions, edits and failures overlap.
THEOREM PlanInductive == Orderly => (PlanSpec => []PlanInv)
<1> SUFFICES ASSUME Orderly PROVE PlanSpec => []PlanInv
  OBVIOUS
<1>1. PlanInv /\ TypedRows /\ TypedRows' /\ [PlanNext]_planVars => PlanInv'
  BY StepKeepsInv DEF TypedRows
<1> QED BY <1>1, InitInv, Typed, PTL DEF PlanSpec, PlanNext

\* Then generation only ever starts from contents that a reviewer had on the screen and
\* approved, also when decisions overlap each other and edits.
THEOREM ApprovalsAreInformed == Orderly => (PlanSpec => []ApprovedAsSeen)
<1>1. PlanInv => ApprovedAsSeen
  <2> SUFFICES ASSUME PlanInv, ~ReviewPass, Approved(plan)
               PROVE  \E i \in DOMAIN reviews :
                        /\ reviews[i].decision = "approve"
                        /\ reviews[i].version = plan.version
                        /\ reviews[i].data = plan.data
    BY DEF ApprovedAsSeen
  <2>1. plan.approved_version = plan.version
    BY DEF Approved
  <2> QED BY <2>1 DEF PlanInv, ApprovalBacked, ReviewsTrue, Same
<1> QED BY <1>1, PlanInductive, PTL

-------------------------------------------------------------------------------
(* The plan implements PlanGate *)

\* save_slides leaves a row for every slide of the plan.
LEMMA MissingNames ==
  ASSUME NEW rows, NEW d
  PROVE  /\ \A s \in DOMAIN d : \E r \in rows \cup Missing(rows, d) : r.slide = s
         /\ \A r \in Missing(rows, d) : r.slide \in DOMAIN d
<1>1. ASSUME NEW s \in DOMAIN d, ~\E r \in rows : r.slide = s
      PROVE  \E r \in Missing(rows, d) : r.slide = s
  <2> DEFINE w == [slide |-> s, version |-> d[s].version, body |-> d[s].body]
  <2>1. w \in Missing(rows, d)
    BY <1>1 DEF Missing
  <2>2. w.slide = s
    OBVIOUS
  <2> QED BY <2>1, <2>2
<1>2. \A r \in Missing(rows, d) : r.slide \in DOMAIN d
  BY DEF Missing
<1> QED BY <1>1, <1>2

LEMMA UsedAfterEdit ==
  ASSUME NEW d, slides' = slides \cup Missing(slides, d)
  PROVE  UsedIds' = UsedIds \cup DOMAIN d
<1>1. UsedIds' = {r.slide : r \in slides \cup Missing(slides, d)}
  BY DEF UsedIds
<1> QED BY <1>1, MissingNames DEF UsedIds

LEMMA GateStarts == PlanInit => Gate!GateInit
<1> SUFFICES ASSUME PlanInit PROVE Gate!GateInit
  OBVIOUS
<1>1. PICK c \in Gate!Contents :
        plan = [version |-> 1, status |-> "VALIDATED", approved_version |-> None,
                data |-> Gate!First(c)]
  BY DEF PlanInit
<1>2. DOMAIN plan.data = DOMAIN c
  BY <1>1, FirstIsData
<1>3. UsedIds = DOMAIN plan.data
  <2>1. slides = {} \cup Missing({}, plan.data)
    BY DEF PlanInit
  <2> QED BY <2>1, MissingNames DEF UsedIds
<1>4. Approved(plan) = ReviewPass
  BY <1>1, SwitchAssumption DEF Approved
<1> QED BY <1>1, <1>2, <1>3, <1>4 DEF Gate!GateInit

LEMMA EditMovesGate ==
  ASSUME Orderly, PlanInv, NEW c \in Clients, EditCommit(c)
  PROVE  Gate!Edit
<1>1. PICK new \in Gate!Contents : Renewed(new)
  BY EditEffect
<1>2. IsPlanRow(plan) /\ plan.version \in Nat
  BY DEF PlanInv, PlanTypeOK, IsPlanRow
<1>3. DOMAIN plan'.data = DOMAIN new
  BY <1>1, <1>2, NumberedIsData DEF Renewed, IsPlanRow
<1>4. UsedIds' = UsedIds \cup DOMAIN new
  BY <1>1, <1>3, UsedAfterEdit DEF Renewed
<1>5. plan'.approved_version # plan'.version
  BY <1>1, <1>2, NoneAssumption DEF Renewed, PlanInv, ApprovalBacked
<1>6. Approved(plan)' = ReviewPass
  BY <1>5, SwitchAssumption DEF Approved
<1> QED BY <1>1, <1>4, <1>6 DEF Gate!Edit, Renewed

LEMMA DecisionMovesGate ==
  ASSUME PlanInv, NEW c \in Clients, DecideCommit(c)
  PROVE  Gate!Decide
<1>1. Resolved(request[c].old.version, request[c].op, request[c].seen)
  BY DecideEffect
<1>2. Approved(plan)' \in {ReviewPass, TRUE}
  BY SwitchAssumption DEF Approved
<1> QED BY <1>1, <1>2 DEF Gate!Decide, Resolved, UsedIds

\* Whatever its requests do to each other short of two edits of one version, the plan
\* keeps the promise on which generation relies.
THEOREM PlanImplementsGate == Orderly => (PlanSpec => KeepsGate)
<1> SUFFICES ASSUME Orderly PROVE PlanSpec => KeepsGate
  OBVIOUS
<1>1. PlanInv /\ [PlanNext]_planVars => [Gate!GateNext]_<<plan.version, plan.data, Approved(plan), UsedIds>>
  <2> SUFFICES ASSUME PlanInv, [PlanNext]_planVars
               PROVE  Gate!GateNext \/ UNCHANGED <<plan.version, plan.data, Approved(plan), UsedIds>>
    OBVIOUS
  <2>1. CASE UNCHANGED <<plan, slides>>
    BY <2>1 DEF UsedIds, Approved
  <2>2. CASE \E c \in Clients : EditCommit(c)
    BY <2>2, EditMovesGate DEF Gate!GateNext
  <2>3. CASE \E c \in Clients : DecideCommit(c)
    BY <2>3, DecisionMovesGate DEF Gate!GateNext
  <2> QED BY <2>1, <2>2, <2>3
          DEF PlanNext, PlanStep, planVars, Look, EditLoad, DecideLoad, PlanRequestFails
<1>2. Gate!gateVars = <<plan.version, plan.data, Approved(plan), UsedIds>>
  BY DEF Gate!gateVars
<1> QED BY <1>1, <1>2, GateStarts, PlanInductive, PTL DEF PlanSpec, PlanNext, KeepsGate, Gate!GateSpec, Gate!gateVars

-------------------------------------------------------------------------------
(* Decisions in their order *)

DecisionsAlone == "review" \notin PlanRaces

\* A row that has been approved in its version was approved by the last decision.
LastApproved ==
  plan.approved_version = plan.version =>
    /\ Len(reviews) > 0
    /\ reviews[Len(reviews)].version = plan.version
    /\ reviews[Len(reviews)].decision = "approve"

\* As long as no decision has come in between, what a request has loaded is the row,
\* or an edit has made a version that nobody has decided on.
Undecided(q) ==
  /\ q.reviews <= Len(reviews)
  /\ q.reviews = Len(reviews) =>
       IF q.old.version = plan.version THEN q.old = plan
       ELSE plan.approved_version # plan.version

DecisionInv ==
  LastApproved /\ \A c \in Clients : request[c] # NoRequest => Undecided(request[c])

LEMMA EditKeepsDecisions ==
  ASSUME Orderly, PlanInv, ReviewsAreRows, DecisionInv, NEW c \in Clients, EditCommit(c)
  PROVE  DecisionInv'
<1>1. PICK new \in Gate!Contents : Renewed(new)
  BY EditEffect
<1>2. /\ reviews' = reviews /\ request' = [request EXCEPT ![c] = NoRequest]
  BY DEF EditCommit
<1>3. plan.version \in Nat \ {0} /\ plan'.version = plan.version + 1
  BY <1>1 DEF Renewed, PlanInv, PlanTypeOK, IsPlanRow
<1>4. plan'.approved_version # plan'.version
  BY <1>1, <1>3, NoneAssumption DEF Renewed, PlanInv, PlanTypeOK, IsPlanRow, ApprovalBacked
<1>5. ASSUME NEW k \in Clients, request'[k] # NoRequest
      PROVE  Undecided(request[k])'
  <2>1. request'[k] = request[k] /\ request[k] # NoRequest
    BY <1>2, <1>5 DEF PlanInv, PlanTypeOK
  <2>2. request[k].old.version \in Nat /\ request[k].old.version <= plan.version
    BY <2>1, TypedNumbers DEF PlanInv, Numbers, RequestsTrue, RequestTrue, Same
  <2>3. request[k].old.version # plan'.version /\ request[k].reviews <= Len(reviews)
    BY <1>3, <2>1, <2>2 DEF DecisionInv, Undecided
  <2> QED BY <1>2, <1>4, <2>1, <2>3 DEF Undecided
<1> QED BY <1>4, <1>5 DEF DecisionInv, LastApproved

LEMMA DecisionKeepsDecisions ==
  ASSUME DecisionsAlone, PlanInv, ReviewsAreRows, DecisionInv, NEW c \in Clients, DecideCommit(c)
  PROVE  DecisionInv'
<1> DEFINE q == request[c]
           r == [version |-> q.old.version, decision |-> q.op, data |-> q.seen]
<1>1. /\ q # NoRequest /\ q.op \in {"approve", "reject"} /\ q.reviews = Len(reviews)
      /\ plan' = FlushPlan(plan, q.old, q.new) /\ reviews' = Append(reviews, r)
      /\ request' = [request EXCEPT ![c] = NoRequest]
  BY DEF DecideCommit, DecisionsAlone
<1>2. /\ IsRequest(q) /\ IsPlanRow(plan) /\ IsPlanRow(q.old)
      /\ Undecided(q) /\ q.new = Decided(q.old, q.op) /\ Same(q.old.version, q.old.data)
  BY <1>1 DEF PlanInv, PlanTypeOK, IsRequest, DecisionInv, RequestsTrue, RequestTrue
<1>3. r \in ReviewRow /\ r.version = q.old.version /\ r.decision = q.op
  BY <1>1, <1>2, DataIsFunction DEF IsRequest, IsPlanRow, ReviewRow
<1> HIDE DEF r
<1>4. Len(reviews') = Len(reviews) + 1 /\ reviews'[Len(reviews')] = r /\ Len(reviews) \in Nat
  BY <1>1, <1>3, AppendProperties, LenProperties DEF ReviewsAreRows
<1>5. plan'.version = plan.version
  BY DecideEffect DEF Resolved
<1>6. LastApproved'
  <2>1. CASE q.old.version = plan.version
    <3>1. q.old = plan
      BY <1>1, <1>2, <2>1 DEF Undecided
    <3>2. plan'.approved_version = q.new.approved_version
      BY <1>1, <3>1, FlushedFields
    <3>3. q.op = "approve" \/ plan'.approved_version = None
      BY <1>1, <1>2, <3>2 DEF Decided
    <3>4. plan.version # None
      BY <1>2, NoneAssumption DEF IsPlanRow
    <3> QED BY <1>3, <1>4, <1>5, <2>1, <3>3, <3>4 DEF LastApproved
  <2>2. CASE q.old.version # plan.version
    <3>1. plan.approved_version # plan.version
      BY <1>1, <1>2, <2>2 DEF Undecided
    <3>2. plan'.approved_version \in {None, plan.approved_version, q.old.version}
      BY DecideEffect DEF Resolved
    <3>3. plan.version # None
      BY <1>2, NoneAssumption DEF IsPlanRow
    <3> QED BY <1>5, <2>2, <3>1, <3>2, <3>3 DEF LastApproved
  <2> QED BY <2>1, <2>2
<1>7. ASSUME NEW k \in Clients, request'[k] # NoRequest
      PROVE  Undecided(request[k])'
  <2>1. request'[k] = request[k] /\ request[k] # NoRequest
    BY <1>1, <1>7 DEF PlanInv, PlanTypeOK
  <2>2. request[k].reviews <= Len(reviews) /\ request[k].reviews \in Nat
    BY <2>1 DEF DecisionInv, Undecided, PlanInv, PlanTypeOK, IsRequest
  <2> QED BY <1>4, <2>1, <2>2 DEF Undecided
<1> QED BY <1>6, <1>7 DEF DecisionInv

LEMMA ReadingKeepsDecisions ==
  ASSUME PlanInv, ReviewsAreRows, DecisionInv, NEW c \in Clients,
         Look(c) \/ EditLoad(c) \/ DecideLoad(c) \/ PlanRequestFails(c)
  PROVE  DecisionInv'
<1>1. UNCHANGED <<plan, reviews>> /\ Len(reviews) \in Nat
  BY LenProperties DEF Look, EditLoad, DecideLoad, PlanRequestFails, ReviewsAreRows
<1>2. DOMAIN request = Clients
  BY DEF PlanInv, PlanTypeOK
<1>3. ASSUME NEW k \in Clients
      PROVE  \/ request'[k] \in {request[k], NoRequest}
             \/ request'[k].old = plan /\ request'[k].reviews = Len(reviews)
  BY <1>2 DEF Look, EditLoad, DecideLoad, PlanRequestFails
<1> QED BY <1>1, <1>3 DEF DecisionInv, LastApproved, Undecided

\* Unless a decision commits over a decision, or an edit over an edit, the last
\* decision on a version is the one that counts (review_plan, require_approved).
THEOREM LastDecisionCounts == Orderly /\ DecisionsAlone => (PlanSpec => []LastDecisionStands)
<1> SUFFICES ASSUME Orderly, DecisionsAlone PROVE PlanSpec => []LastDecisionStands
  OBVIOUS
<1>1. PlanInit => DecisionInv
  BY NoneAssumption DEF PlanInit, DecisionInv, LastApproved
<1>2. PlanInv /\ TypedRows /\ DecisionInv /\ [PlanNext]_planVars => DecisionInv'
  <2> SUFFICES ASSUME PlanInv, ReviewsAreRows, DecisionInv, [PlanNext]_planVars
               PROVE  DecisionInv'
    BY DEF TypedRows
  <2>1. CASE UNCHANGED planVars
    BY <2>1 DEF planVars, DecisionInv, LastApproved, Undecided
  <2> QED BY <2>1, EditKeepsDecisions, DecisionKeepsDecisions, ReadingKeepsDecisions
          DEF PlanNext, PlanStep
<1>3. DecisionInv /\ TypedRows => LastDecisionStands
  <2> SUFFICES ASSUME DecisionInv, ReviewsAreRows, ~ReviewPass, Approved(plan)
               PROVE  LET n == Len(reviews) IN
                      n > 0 /\ (reviews[n].version = plan.version => reviews[n].decision = "approve")
    BY DEF LastDecisionStands, TypedRows
  <2> QED BY DEF DecisionInv, LastApproved, Approved
<1> QED BY <1>1, <1>2, <1>3, PlanInductive, Typed, PTL DEF PlanSpec, PlanNext

-------------------------------------------------------------------------------
(* The rows of slides *)

\* A slide version stands for one body; the plan has the last one.
SlidesTrue ==
  \A r \in slides : r.slide \in DOMAIN plan.data =>
    /\ r.version <= plan.data[r.slide].version
    /\ r.version = plan.data[r.slide].version => r.body = plan.data[r.slide].body

LEMMA MissingRecords ==
  ASSUME NEW rows, NEW d,
         \A r \in rows : /\ r = [slide |-> r.slide, version |-> r.version, body |-> r.body]
                         /\ r.slide \in DOMAIN d /\ r.version = d[r.slide].version =>
                              r.body = d[r.slide].body
  PROVE  \A s \in DOMAIN d :
           [slide |-> s, version |-> d[s].version, body |-> d[s].body] \in rows \cup Missing(rows, d)
<1> TAKE s \in DOMAIN d
<1>1. CASE \E r \in rows : r.slide = s /\ r.version = d[s].version
  BY <1>1
<1>2. CASE ~\E r \in rows : r.slide = s /\ r.version = d[s].version
  BY <1>2 DEF Missing
<1> QED BY <1>1, <1>2

SlidesInv == SlidesTrue /\ SlidesRecorded

LEMMA RowFields ==
  ASSUME PlanTypeOK, NEW r \in slides
  PROVE  /\ r = [slide |-> r.slide, version |-> r.version, body |-> r.body]
         /\ r.version \in Nat \ {0} /\ r.slide \in UsedIds
BY DEF PlanTypeOK, UsedIds

LEMMA SlidesStart == PlanInit => SlidesInv
<1> SUFFICES ASSUME PlanInit PROVE SlidesInv
  OBVIOUS
<1>1. slides = {} \cup Missing({}, plan.data)
  BY DEF PlanInit
<1>2. SlidesRecorded
  BY <1>1, MissingRecords DEF SlidesRecorded
<1>3. IsPlanRow(plan)
  BY InitTyped DEF TypedRows, PlanTypeOK
<1>4. \A r \in slides : r.slide \in DOMAIN plan.data /\ r.version = plan.data[r.slide].version
                          /\ r.body = plan.data[r.slide].body
  BY <1>1 DEF Missing
<1>5. \A s \in DOMAIN plan.data : plan.data[s].version \in Nat
  BY <1>3 DEF IsPlanRow, Gate!IsData, Gate!Versioned
<1> QED BY <1>2, <1>4, <1>5 DEF SlidesInv, SlidesTrue

LEMMA EditKeepsSlides ==
  ASSUME Orderly, ~Restores, PlanInv, SlidesInv, NEW c \in Clients, EditCommit(c)
  PROVE  SlidesInv'
<1>1. PICK new \in Gate!Contents : Renewed(new)
  BY EditEffect
<1> DEFINE d == plan.data
           e == Gate!Numbered(d, new)
<1>2. /\ plan'.data = e /\ slides' = slides \cup Missing(slides, e)
      /\ (DOMAIN new \ DOMAIN d) \cap UsedIds = {}
  BY <1>1 DEF Renewed
<1>3. Gate!IsData(d)
  BY DEF PlanInv, PlanTypeOK, IsPlanRow
<1>4. Gate!IsData(e) /\ DOMAIN e = DOMAIN new
  BY <1>3, NumberedIsData
<1>5. \A s \in DOMAIN e :
        /\ e[s].version = (IF s \notin DOMAIN d THEN 1
                           ELSE IF new[s] = d[s].body THEN d[s].version ELSE d[s].version + 1)
        /\ e[s].body = new[s] /\ e[s].version \in Nat
  BY <1>4 DEF Gate!Numbered, Gate!IsData, Gate!Versioned
<1>6. \A s \in DOMAIN d : d[s].version \in Nat
  BY <1>3 DEF Gate!IsData, Gate!Versioned
<1> HIDE DEF d, e
<1>7. ASSUME NEW r \in slides, r.slide \in DOMAIN e
      PROVE  /\ r.version <= e[r.slide].version
             /\ r.version = e[r.slide].version => r.body = e[r.slide].body
  <2>1. r.slide \in UsedIds /\ r.version \in Nat
    BY RowFields DEF PlanInv
  <2>2. r.slide \in DOMAIN d
    BY <1>2, <1>4, <1>7, <2>1
  <2>3. r.version <= d[r.slide].version /\ (r.version = d[r.slide].version => r.body = d[r.slide].body)
    BY <2>2 DEF SlidesInv, SlidesTrue, d
  <2> QED BY <1>5, <1>6, <1>7, <2>1, <2>2, <2>3
<1>8. \A r \in Missing(slides, e) : r.slide \in DOMAIN e /\ r.version = e[r.slide].version
                                      /\ r.body = e[r.slide].body
  BY DEF Missing
<1>9. SlidesTrue'
  BY <1>2, <1>5, <1>7, <1>8 DEF SlidesTrue
<1>10. SlidesRecorded'
  <2>1. \A r \in slides : r = [slide |-> r.slide, version |-> r.version, body |-> r.body]
    BY RowFields DEF PlanInv
  <2> QED BY <1>2, <1>7, <2>1, MissingRecords DEF SlidesRecorded
<1> QED BY <1>9, <1>10 DEF SlidesInv

\* Unless an edit commits over an edit, or a slide comes back under an identifier that
\* was removed, the slide rows say what the plan says (save_slides).
THEOREM SlideRowsFollow == Orderly /\ ~Restores => (PlanSpec => []SlidesRecorded)
<1> SUFFICES ASSUME Orderly, ~Restores PROVE PlanSpec => []SlidesRecorded
  OBVIOUS
<1>1. PlanInv /\ SlidesInv /\ [PlanNext]_planVars => SlidesInv'
  <2> SUFFICES ASSUME PlanInv, SlidesInv, [PlanNext]_planVars PROVE SlidesInv'
    OBVIOUS
  <2>1. CASE UNCHANGED <<plan, slides>>
    BY <2>1 DEF SlidesInv, SlidesTrue, SlidesRecorded
  <2>2. CASE \E c \in Clients : EditCommit(c)
    BY <2>2, EditKeepsSlides
  <2>3. CASE \E c \in Clients : DecideCommit(c)
    <3>1. plan'.data = plan.data /\ slides' = slides
      BY <2>3, DecideEffect DEF Resolved
    <3> QED BY <3>1 DEF SlidesInv, SlidesTrue, SlidesRecorded
  <2> QED BY <2>1, <2>2, <2>3
          DEF PlanNext, PlanStep, planVars, Look, EditLoad, DecideLoad, PlanRequestFails
<1>2. SlidesInv => SlidesRecorded
  BY DEF SlidesInv
<1> QED BY <1>1, <1>2, SlidesStart, PlanInductive, PTL DEF PlanSpec, PlanNext
===============================================================================
