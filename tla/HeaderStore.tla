---------------------------- MODULE HeaderStore ----------------------------
(***************************************************************************)
(* What the shared header cache promises the units of a build, with no      *)
(* locks and no half-made entries: the outcome of reading a key is settled  *)
(* once, for the whole build, and a unit's open-once map is filled from     *)
(* settled outcomes of its own scanner settings only.                      *)
(***************************************************************************)
CONSTANTS Units, Routes, Displays, Modes, Contents, DisplayOf, ModeOf,
          Shareable, None, Absent

VARIABLES val,   \* key -> its settled outcome: tokens, Absent, or None yet
          files  \* the open-once map of every unit

vars == <<val, files>>

Init ==
  /\ val = [k \in Routes \X Modes |-> None]
  /\ files = [u \in Units |-> [d \in Displays |-> None]]

Resolve(r, md) ==
  /\ val[<<r, md>>] = None
  /\ \E x \in (Contents \X {md}) \cup {Absent} :
       val' = [val EXCEPT ![<<r, md>>] = x]
  /\ UNCHANGED files

Deliver(u, r) ==
  /\ files[u][DisplayOf[r]] = None
  /\ \/ r \in Shareable /\ val[<<r, ModeOf[u]>>] \notin {None, Absent}
        /\ files' = [files EXCEPT ![u][DisplayOf[r]] =
                       [via |-> r, toks |-> val[<<r, ModeOf[u]>>]]]
     \/ r \notin Shareable
        /\ \E c \in Contents :
             files' = [files EXCEPT ![u][DisplayOf[r]] =
                         [via |-> r, toks |-> <<c, ModeOf[u]>>]]
  /\ UNCHANGED val

Next ==
  \/ \E r \in Routes, md \in Modes : Resolve(r, md)
  \/ \E u \in Units, r \in Routes : Deliver(u, r)

Spec == Init /\ [][Next]_vars
=============================================================================
