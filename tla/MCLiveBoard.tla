----------------------------- MODULE MCLiveBoard -----------------------------
(***************************************************************************)
(* Small instances of LiveBoard for TLC.                                   *)
(*                                                                         *)
(* Writers and GET handlers are interchangeable, and symmetry reduction is *)
(* not sound for liveness.  Instead they are numbered, and who starts is   *)
(* the first that is free: every other behaviour is one of these renamed.  *)
(***************************************************************************)
EXTENDS LiveBoard

FirstFree(pc, S) ==
  \A s \in S : pc[s] = "idle" /\ pc'[s] # "idle" => \A r \in S : r < s => pc[r] # "idle"

\* Bounds, with faults: a page's socket and its server's subscription are not down
\* at once, and who reloads a page has an old board on it.
MCNext ==
  /\ Next
  /\ FirstFree(wpc, Writers)
  /\ FirstFree(hpc, Handlers)
  /\ \A b \in Browsers : Faults => /\ connected'[b] \/ subscribed'[b]
                                   /\ Reload(b) => shown[b] # version

MCSpec == Init /\ [][MCNext]_vars /\ Fairness

=============================================================================
