----------------------------- MODULE DhmpDaRPCInv -----------------------------
(***************************************************************************)
(* What the DaRPC calls promise: the window is neither overrun nor ever    *)
(* lost, and the server applies the calls in the order of the work list.   *)
(***************************************************************************)
EXTENDS DhmpDaRPC

(* The variables keep their types, and para_request_num stays in the window.  *)
TypeOK ==
  /\ pc \in [Thread -> {"idle", "window", "entered", "waiting", "done"}]
  /\ call \in [Thread -> Log!Calls \cup {NoCall}]
  /\ para_request_num \in 0..Window
  /\ work_list \in Seq(Thread)
  /\ worker \in [pc : {"idle", "taken", "posted", "delivered"}, t : Thread \cup {NoOne}]
  /\ requests \in Seq(Log!Calls)
  /\ mem \in [Object -> Value]
  /\ cur_pos \in 0..Ring
  /\ posted \in Seq(0..(Ring - 1))
  /\ responses \in Nat

(* The places of the window that are taken: by a thread about to put its work *)
(* in the list, by work that waits or is being sent, by a request or response *)
(* on its way.                                                                *)
Taken ==
  Cardinality({t \in Thread : pc[t] = "entered"}) + Len(work_list) + Len(NotSent)
    + Len(requests) + Len(posted) + responses

(* No place in the window is lost or made up, whatever threads and responses   *)
(* do to para_request_num at the same time.                                    *)
WindowKept == para_request_num + Taken = Window

(* The work list has the work of each waiting thread once, unless the work     *)
(* thread has it, so done_flag is set in no frame but that of a waiting call.  *)
WorkIsWaitedFor ==
  /\ \A i, j \in DOMAIN work_list : work_list[i] = work_list[j] => i = j
  /\ \A i \in DOMAIN work_list : pc[work_list[i]] = "waiting" /\ work_list[i] # worker.t
  /\ worker.pc # "idle" => worker.t \in Thread /\ pc[worker.t] = "waiting"

(* A response is never written over one the adapter has still to send: the     *)
(* window is what guards the server's send region.                             *)
NoResponseOverwritten ==
  \A i, j \in DOMAIN posted : posted[i] = posted[j] => i = j

(* The server's objects change as if the calls were put into one log and       *)
(* applied in its order, each once, with no more than the window ahead.        *)
ImplementsLog == Log!Spec

(* A full window opens again.                                                  *)
WindowOpens == para_request_num = 0 ~> para_request_num > 0

(* Work in the list is done, though the thread that waits has no answer yet.   *)
CallReturns == \A t \in Thread : pc[t] = "entered" ~> pc[t] = "idle"
===============================================================================
