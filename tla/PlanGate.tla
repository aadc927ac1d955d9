------------------------------- MODULE PlanGate -------------------------------
(***************************************************************************)
(* What a slide plan promises to generation: every edit is a new version   *)
(* with new contents and closes the gate; a reviewer's decision opens or   *)
(* closes it for the version that is current.                              *)
(***************************************************************************)
EXTENDS Naturals

CONSTANTS
  Slides,      \* slide_id
  Bodies,      \* what a slide says, without its version
  Restores,    \* do users bring back a slide_id that they have removed?
  ReviewPass,  \* settings().prototype_review_pass: the gate is always open
  MaxVersion   \* bound: the version of the plan

ASSUME SlidesAssumption == Slides # {} /\ Bodies # {}
ASSUME SwitchesAssumption == Restores \in BOOLEAN /\ ReviewPass \in BOOLEAN
ASSUME MaxVersionAssumption == MaxVersion \in Nat \ {0}

\* What a user sends as the slides of a plan; the versions in it are ignored.
Contents == UNION {[S -> Bodies] : S \in SUBSET Slides \ {{}}}

\* plan.data: some slides, each with its own version.
Versioned == [version : Nat \ {0}, body : Bodies]
IsData(d) == d \in [DOMAIN d -> Versioned] /\ DOMAIN d \in SUBSET Slides \ {{}}

First(c) == [s \in DOMAIN c |-> [version |-> 1, body |-> c[s]]]

\* A slide that changed gets the next version, a slide the plan did not have
\* the first one.
Numbered(old, c) ==
  [s \in DOMAIN c |->
     [version |-> IF s \notin DOMAIN old THEN 1
                  ELSE IF c[s] = old[s].body THEN old[s].version
                  ELSE old[s].version + 1,
      body |-> c[s]]]

VARIABLES
  version,  \* plan.version
  data,     \* plan.data
  open,     \* require_approved lets the plan through
  used      \* the slide ids that have been in the plan

gateVars == <<version, data, open, used>>

GateInit ==
  /\ version = 1
  /\ \E c \in Contents : data = First(c) /\ used = DOMAIN c
  /\ open = ReviewPass

Edit ==
  /\ version < MaxVersion
  /\ \E c \in Contents :
       /\ Restores \/ (DOMAIN c \ DOMAIN data) \cap used = {}
       /\ data' = Numbered(data, c)
       /\ used' = used \cup DOMAIN c
  /\ version' = version + 1
  /\ open' = ReviewPass

Decide ==
  /\ open' \in {ReviewPass, TRUE}
  /\ UNCHANGED <<version, data, used>>

GateNext == Edit \/ Decide

GateSpec == GateInit /\ [][GateNext]_gateVars
===============================================================================
