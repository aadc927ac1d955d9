------------------------------ MODULE MCJobQueue ------------------------------
(***************************************************************************)
(* Small instances of JobQueue.                                            *)
(***************************************************************************)
EXTENDS JobQueue, TLC

\* One worker per queue, as compose.yml starts them, named after the queue.
PptWorkers == {"image", "ppt"}
OwnQueue == [w \in Workers |-> w]

\* Several workers of one queue.
Twins == {"document-1", "document-2"}
DocumentQueue == [w \in Workers |-> "document"]

Uploads == [j \in Jobs |-> "upload"]
References == [j \in Jobs |-> "design_reference"]
Decks == [j \in Jobs |-> "ppt"]

SymmetricClients == Permutations(Clients)
===============================================================================
