--------------------------------- MODULE Calls ---------------------------------
(***************************************************************************)
(* What a step waits for: the adapter of the language model (llm.py), the  *)
(* adapter of ComfyUI (comfy.py), and child processes, of the renderer     *)
(* (rendering.py run_process) and of the parser (parsers.py safe_parse).   *)
(* A client gives up after its timeout; the adapter, a service of its own, *)
(* does not notice and goes on.                                            *)
(***************************************************************************)
EXTENDS Naturals, Sequences, FiniteSets

CONSTANTS
  Kinds,      \* bound: the kinds of calls made
  MaxCalls,   \* bound: calls made
  Retries,    \* settings().llm_retries
  MaxPolls,   \* looks at the history of a prompt within 120 s
  Nothing     \* null value

ASSUME CallsAssumption == MaxCalls \in Nat /\ Retries \in Nat /\ MaxPolls \in Nat

VARIABLES
  calls,    \* how many calls the worker has made
  call,     \* what it waits for
  threads,  \* what the adapters do for each call that was sent to them
  comfyui,  \* the prompts that ComfyUI has, in order, with their states
  child,    \* the child process
  output    \* the file that the parser writes to
callVars == <<calls, call, threads, comfyui, child, output>>

Numbers == 1 .. MaxCalls
NoCall == [kind |-> Nothing, pc |-> "idle"]
Serving(kind) == [kind |-> kind, pc |-> "called", tries |-> 0]
Asleep == [kind |-> Nothing, pc |-> "asleep", tries |-> 0]

CallsInit ==
  /\ calls \in 0 .. MaxCalls
  /\ call = NoCall
  /\ threads = [n \in Numbers |-> Asleep]
  /\ comfyui = <<>>
  /\ child = Nothing
  /\ output = FALSE

-------------------------------------------------------------------------------
(* The worker *)

\* LLMClient.generate and ComfyClient.generate
Send(kind) ==
  /\ call = NoCall /\ calls < MaxCalls /\ kind \in Kinds \cap {"llm", "comfy"}
  /\ calls' = calls + 1
  /\ call' = [kind |-> kind, pc |-> "sent"]
  /\ threads' = [threads EXCEPT ![calls + 1] = Serving(kind)]
  /\ UNCHANGED <<comfyui, child, output>>

\* The answer of the adapter, or an error of the connection.
Receive ==
  /\ call.pc = "sent" /\ threads[calls].pc = "answered"
  /\ call' = NoCall
  /\ UNCHANGED <<calls, threads, comfyui, child, output>>

GiveUpOnAdapter ==
  /\ call.pc = "sent"
  /\ call' = NoCall
  /\ UNCHANGED <<calls, threads, comfyui, child, output>>

Spawn(kind) ==
  /\ call = NoCall /\ calls < MaxCalls /\ kind \in Kinds \cap {"render", "parse"}
  /\ calls' = calls + 1
  /\ call' = [kind |-> kind, pc |-> "watching"]
  /\ child' = "running"
  /\ UNCHANGED <<threads, comfyui, output>>

\* The child is found to have ended: its code and its output are looked at, and the
\* finally clauses run.
SeeExit ==
  /\ call.pc \in {"watching", "terminated", "killed"} /\ child = "exited"
  /\ child' = Nothing /\ output' = FALSE
  /\ call' = NoCall
  /\ UNCHANGED <<calls, threads, comfyui>>

\* The time is over, or cancelled() raises: terminate, and 3 seconds later kill.
\* subprocess.run kills at once.
Terminate ==
  /\ call.pc = "watching" /\ child = "running"
  /\ call' = [call EXCEPT !.pc = IF call.kind = "render" THEN "terminated" ELSE "killed"]
  /\ child' = IF call.kind = "render" THEN child ELSE "dying"
  /\ UNCHANGED <<calls, threads, comfyui, output>>

BugKill ==
  /\ call.pc = "terminated" /\ child = "running"
  /\ call' = [call EXCEPT !.pc = "killed"]
  /\ UNCHANGED <<calls, threads, comfyui, child, output>>

Kill ==
  /\ call.pc = "terminated" /\ child = "running"
  /\ call' = [call EXCEPT !.pc = "killed"]
  /\ child' = "dying"
  /\ UNCHANGED <<calls, threads, comfyui, output>>

\* The child at work: the parser may write its output, and either may end, or not.
Write ==
  /\ call.kind = "parse" /\ child = "running" /\ output' = TRUE
  /\ UNCHANGED <<calls, call, threads, comfyui, child>>

Exit ==
  /\ child \in {"running", "dying"} /\ child' = "exited"
  /\ UNCHANGED <<calls, call, threads, comfyui, output>>

-------------------------------------------------------------------------------
(* The adapters *)

Serves(n, r) ==
  threads' = [threads EXCEPT ![n] = r] /\ UNCHANGED <<calls, call, child, output>>

Ends(n) == Serves(n, [threads[n] EXCEPT !.pc = "answered"])

\* LocalLLMAdapter.generate: an answer that validates is the answer.
Accept(n) ==
  /\ threads[n].kind = "llm" /\ threads[n].pc = "called"
  /\ Ends(n) /\ UNCHANGED comfyui

\* Anything else, a timeout too, is tried again.
Try(n) ==
  /\ threads[n].kind = "llm" /\ threads[n].pc = "called"
  /\ IF threads[n].tries = Retries THEN Ends(n)
     ELSE Serves(n, [threads[n] EXCEPT !.tries = @ + 1])
  /\ UNCHANGED comfyui

\* RealComfyAdapter.generate: the prompt is posted, and its history looked at.
Post(n) ==
  /\ threads[n].kind = "comfy" /\ threads[n].pc = "called"
  /\ Serves(n, [threads[n] EXCEPT !.pc = "posted"])
  /\ comfyui' = Append(comfyui, [of |-> n, state |-> "queued"])

Recorded(n) == \E i \in DOMAIN comfyui : comfyui[i] = [of |-> n, state |-> "done"]

Look(n) ==
  /\ threads[n].pc = "posted" /\ threads[n].tries < MaxPolls
  /\ IF Recorded(n) THEN Ends(n) ELSE Serves(n, [threads[n] EXCEPT !.tries = @ + 1])
  /\ UNCHANGED comfyui

\* After 120 s: /interrupt stops what ComfyUI is running.
Interrupt(n) ==
  /\ threads[n].pc = "posted" /\ threads[n].tries = MaxPolls
  /\ Ends(n)
  /\ \/ comfyui' = [i \in DOMAIN comfyui |->
                      IF comfyui[i].state = "running" THEN [comfyui[i] EXCEPT !.state = "done"]
                      ELSE comfyui[i]]
     \/ UNCHANGED comfyui   \* the request fails

\* A request fails: the prompt stays with ComfyUI.
Fault(n) ==
  /\ threads[n].kind = "comfy" /\ threads[n].pc \in {"called", "posted"}
  /\ Ends(n)
  /\ \/ UNCHANGED comfyui
     \/ threads[n].pc = "called" /\ comfyui' = Append(comfyui, [of |-> n, state |-> "queued"])

\* ComfyUI runs one prompt at a time; what it ran is in its history.
Render(i) ==
  /\ \/ comfyui[i].state = "queued" /\ \A j \in DOMAIN comfyui :
          comfyui[j].state # "running" /\ (j < i => comfyui[j].state = "done")
     \/ comfyui[i].state = "running"
  /\ comfyui' = [comfyui EXCEPT ![i].state = IF @ = "queued" THEN "running" ELSE "done"]
  /\ UNCHANGED <<calls, call, threads, child, output>>

Worker ==
  \/ \E kind \in Kinds : Send(kind) \/ Spawn(kind)
  \/ Receive \/ GiveUpOnAdapter \/ SeeExit \/ Terminate \/ Kill
Adapter(n) == Accept(n) \/ Try(n) \/ Post(n) \/ Look(n) \/ Interrupt(n) \/ Fault(n)

CallsNext ==
  \/ Worker \/ Write \/ Exit
  \/ \E n \in Numbers : Adapter(n)
  \/ \E i \in DOMAIN comfyui : Render(i)

\* Every wait of the worker and of an adapter has a timeout, and a killed process
\* ends.  Nothing is assumed of a model, of ComfyUI or of a child that is alive.
CallsFair ==
  /\ WF_callVars(Receive \/ GiveUpOnAdapter)
  /\ WF_callVars(SeeExit \/ Terminate \/ Kill)
  /\ WF_callVars(child = "dying" /\ Exit)
  /\ \A n \in Numbers : WF_callVars(Adapter(n))

-------------------------------------------------------------------------------
(* Properties *)

Working(n) == threads[n].pc \in {"called", "posted"}

\* Every call comes to an end, whatever a model, ComfyUI or a child process does;
\* so does what an adapter does for a client that has given up; and a call that is
\* over has left no process and no file behind (generate, run_process, safe_parse).
CallsEnd ==
  /\ call # NoCall ~> call = NoCall
  /\ \A n \in Numbers : Working(n) ~> ~Working(n)
  /\ [](call = NoCall => child = Nothing /\ ~output)
===============================================================================
