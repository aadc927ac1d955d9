------------------------------ MODULE PlanReview ------------------------------
(***************************************************************************)
(* A slide plan under edit and review (plans.py and its API handlers).     *)
(* Users replace the whole content of the plan; reviewers read a version   *)
(* on their screen and decide on it; generation asks require_approved.     *)
(* A handler works on the row it has loaded, and its commit writes the     *)
(* columns it changed over whatever the row holds by then.                 *)
(*                                                                         *)
(* A definition whose name starts with Bug is a mistake that the code next *)
(* to it could have made; Spec does not use it.                            *)
(***************************************************************************)
EXTENDS Naturals, Sequences

CONSTANTS
  Slides, Bodies, Restores, ReviewPass, MaxVersion,   \* as in PlanGate
  Clients,     \* API requests in flight at a time
  PlanRaces,   \* the windows in which one request may overtake another
  MaxReviews,  \* bound: rows of reviews
  None, NoRequest, NoScreen   \* null values

\* "edit": an edit commits over another edit; "review": a decision commits over
\* another decision.
PlanRaceKinds == {"edit", "review"}

ASSUME SwitchAssumption == ReviewPass \in BOOLEAN
ASSUME ReviewsAssumption == MaxReviews \in Nat
ASSUME PlanRacesAssumption == PlanRaces \subseteq PlanRaceKinds
ASSUME NoneAssumption == None \notin Nat

VARIABLES
  plan,      \* slide_plans: the row
  slides,    \* the rows of slides
  reviews,   \* the rows of reviews in order of commit, with what was reviewed
  screen,    \* what each client has read
  request    \* the request each client has in flight

planVars == <<plan, slides, reviews, screen, request>>

-------------------------------------------------------------------------------
(* Rows and sessions *)

\* save_slides: the rows that are still missing.
Missing(rows, data) ==
  {[slide |-> s, version |-> data[s].version, body |-> data[s].body] :
     s \in {t \in DOMAIN data :
              ~\E r \in rows : r.slide = t /\ r.version = data[t].version}}

\* The UPDATE of a session that loaded the row as old and holds it as new.
FlushPlan(r, old, new) ==
  LET Column(c) == IF new[c] # old[c] THEN new[c] ELSE r[c]
  IN  [version |-> Column("version"), status |-> Column("status"),
       approved_version |-> Column("approved_version"), data |-> Column("data")]

\* require_approved, without and with its check of the version.
BugApproved(p) == ReviewPass \/ p.status = "APPROVED"

Approved(p) == ReviewPass \/ (p.status = "APPROVED" /\ p.approved_version = p.version)

UsedIds == {r.slide : r \in slides}

Gate == INSTANCE PlanGate WITH
  version <- plan.version, data <- plan.data, open <- Approved(plan), used <- UsedIds

\* The plan as PLAN_VALIDATE leaves it.
PlanInit ==
  /\ \E c \in Gate!Contents :
       plan = [version |-> 1, status |-> "VALIDATED", approved_version |-> None,
               data |-> Gate!First(c)]
  /\ slides = Missing({}, plan.data)
  /\ reviews = <<>>
  /\ screen = [c \in Clients |-> NoScreen]
  /\ request = [c \in Clients |-> NoRequest]

-------------------------------------------------------------------------------
(* Handlers *)

\* GET /slide-plans/{id}
Look(c) ==
  /\ screen' = [screen EXCEPT ![c] = [version |-> plan.version, data |-> plan.data]]
  /\ UNCHANGED <<plan, slides, reviews, request>>

\* update_plan that keeps the version.
BugEditedInPlace(p, new) ==
  [p EXCEPT !.status = "DRAFT", !.approved_version = None, !.data = Gate!Numbered(p.data, new)]

Edited(p, new) ==
  [version |-> p.version + 1, status |-> "DRAFT", approved_version |-> None,
   data |-> Gate!Numbered(p.data, new)]

EditLoad(c) ==
  /\ request[c] = NoRequest
  /\ plan.version < MaxVersion
  /\ \E new \in Gate!Contents :
       /\ Restores \/ (DOMAIN new \ DOMAIN plan.data) \cap UsedIds = {}
       /\ request' = [request EXCEPT ![c] =
            [op |-> "edit", old |-> plan, new |-> Edited(plan, new), reviews |-> Len(reviews),
             seen |-> plan.data]]
  /\ UNCHANGED <<plan, slides, reviews, screen>>

\* update_plan without save_slides.
BugEditUnsaved(c) ==
  /\ request[c] # NoRequest
  /\ request[c].op = "edit"
  /\ "edit" \in PlanRaces \/ plan.version = request[c].old.version
  /\ plan' = FlushPlan(plan, request[c].old, request[c].new)
  /\ request' = [request EXCEPT ![c] = NoRequest]
  /\ UNCHANGED <<slides, reviews, screen>>

\* The first query after plan.data is assigned flushes it and takes the lock of
\* the row, so that from there on the edit is one step for everybody else.
EditCommit(c) ==
  LET q == request[c] IN
  /\ q # NoRequest
  /\ q.op = "edit"
  /\ "edit" \in PlanRaces \/ plan.version = q.old.version
  /\ plan' = FlushPlan(plan, q.old, q.new)
  /\ slides' = slides \cup Missing(slides, q.new.data)
  /\ request' = [request EXCEPT ![c] = NoRequest]
  /\ UNCHANGED <<reviews, screen>>

\* review_plan that leaves a rejected plan as it is.
BugDecided(p, decision) ==
  IF decision = "approve" THEN [p EXCEPT !.status = "APPROVED", !.approved_version = p.version]
  ELSE p

Decided(p, decision) ==
  [version |-> p.version,
   status |-> IF decision = "approve" THEN "APPROVED" ELSE "REJECTED",
   approved_version |-> IF decision = "approve" THEN p.version ELSE None,
   data |-> p.data]

\* A decision names the version on the screen; another version is a conflict.
DecideLoad(c) ==
  /\ request[c] = NoRequest
  /\ screen[c] # NoScreen
  /\ screen[c].version = plan.version
  /\ \E decision \in {"approve", "reject"} :
       request' = [request EXCEPT ![c] =
         [op |-> decision, old |-> plan, new |-> Decided(plan, decision),
          reviews |-> Len(reviews), seen |-> screen[c].data]]
  /\ UNCHANGED <<plan, slides, reviews, screen>>

DecideCommit(c) ==
  LET q == request[c] IN
  /\ q # NoRequest
  /\ q.op \in {"approve", "reject"}
  /\ "review" \in PlanRaces \/ Len(reviews) = q.reviews
  /\ Len(reviews) < MaxReviews
  /\ plan' = FlushPlan(plan, q.old, q.new)
  /\ reviews' = Append(reviews,
       [version |-> q.old.version, decision |-> q.op, data |-> q.seen])
  /\ request' = [request EXCEPT ![c] = NoRequest]
  /\ UNCHANGED <<slides, screen>>

\* The request fails before its commit.
PlanRequestFails(c) ==
  /\ request[c] # NoRequest
  /\ request' = [request EXCEPT ![c] = NoRequest]
  /\ UNCHANGED <<plan, slides, reviews, screen>>

PlanStep(c) ==
  Look(c) \/ EditLoad(c) \/ EditCommit(c) \/ DecideLoad(c) \/ DecideCommit(c) \/ PlanRequestFails(c)

PlanSpec == PlanInit /\ [][\E c \in Clients : PlanStep(c)]_planVars

-------------------------------------------------------------------------------
(* Properties *)

IsPlanRow(p) ==
  /\ DOMAIN p = {"version", "status", "approved_version", "data"}
  /\ p = [version |-> p.version, status |-> p.status,
          approved_version |-> p.approved_version, data |-> p.data]
  /\ p.version \in Nat \ {0}
  /\ p.status \in {"VALIDATED", "DRAFT", "APPROVED", "REJECTED"}
  /\ p.approved_version \in Nat \cup {None}
  /\ Gate!IsData(p.data)

IsReview(r) ==
  r.version \in Nat \ {0} /\ r.decision \in {"approve", "reject"} /\ Gate!IsData(r.data)

IsScreen(s) == s.version \in Nat \ {0} /\ Gate!IsData(s.data)

IsRequest(q) ==
  /\ q.op \in {"edit", "approve", "reject"}
  /\ IsPlanRow(q.old) /\ IsPlanRow(q.new) /\ Gate!IsData(q.seen)
  /\ q.reviews \in Nat

\* The rows and requests hold values of their types.
PlanTypeOK ==
  /\ IsPlanRow(plan)
  /\ slides \subseteq [slide : Slides, version : Nat \ {0}, body : Bodies]
  /\ DOMAIN reviews = 1 .. Len(reviews) /\ \A i \in DOMAIN reviews : IsReview(reviews[i])
  /\ DOMAIN screen = Clients /\ \A c \in Clients : screen[c] # NoScreen => IsScreen(screen[c])
  /\ DOMAIN request = Clients
  /\ \A c \in Clients : request[c] # NoRequest => IsRequest(request[c])

\* Which contents a version number stands for: whatever a request loaded, a screen
\* shows or a review is about is older than the row or says the same.
Same(number, d) == number <= plan.version /\ (number = plan.version => d = plan.data)

RequestTrue(q) ==
  /\ Same(q.old.version, q.old.data)
  /\ q.op = "edit" =>
       /\ q.old.version < MaxVersion
       /\ \E new \in Gate!Contents :
            /\ q.new = Edited(q.old, new)
            /\ q.old.version = plan.version =>
                 Restores \/ (DOMAIN new \ DOMAIN plan.data) \cap UsedIds = {}
  /\ q.op # "edit" => q.new = Decided(q.old, q.op) /\ q.seen = q.old.data

RequestsTrue == \A c \in Clients : request[c] # NoRequest => RequestTrue(request[c])

ScreensTrue ==
  \A c \in Clients : screen[c] # NoScreen => Same(screen[c].version, screen[c].data)

ReviewsTrue == \A i \in DOMAIN reviews : Same(reviews[i].version, reviews[i].data)

\* An approval of the current version has its review, even one that no longer counts
\* because a decision in between changed the status.
ApprovalBacked ==
  /\ plan.approved_version # None => plan.approved_version <= plan.version
  /\ plan.approved_version = plan.version =>
       \E i \in DOMAIN reviews :
         reviews[i].decision = "approve" /\ reviews[i].version = plan.version

\* The inductive invariant: version numbers are never reused for other contents, which
\* is what the comparisons of versions in review_plan and require_approved rely on.
PlanInv ==
  PlanTypeOK /\ RequestsTrue /\ ScreensTrue /\ ReviewsTrue /\ ApprovalBacked

\* What require_approved lets through is what a reviewer has read and approved,
\* whatever edits and decisions were in flight around the approval.
ApprovedAsSeen ==
  ~ReviewPass /\ Approved(plan) =>
    \E i \in DOMAIN reviews :
      /\ reviews[i].decision = "approve"
      /\ reviews[i].version = plan.version
      /\ reviews[i].data = plan.data

\* A plan that the last decision on it rejected is not let through.
LastDecisionStands ==
  ~ReviewPass /\ Approved(plan) =>
    LET n == Len(reviews) IN
    n > 0 /\ (reviews[n].version = plan.version => reviews[n].decision = "approve")

\* Whatever its requests do to each other, the plan keeps the promise that
\* generation relies on.
KeepsGate == Gate!GateSpec

\* The rows of slides hold what the plan says under the same slide version.
SlidesRecorded ==
  \A s \in DOMAIN plan.data :
    [slide |-> s, version |-> plan.data[s].version, body |-> plan.data[s].body] \in slides
===============================================================================
