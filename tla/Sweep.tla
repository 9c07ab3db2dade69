-------------------------------- MODULE Sweep --------------------------------
(***************************************************************************)
(* What a cleanup of a directory promises to the owner of the files, with  *)
(* none of the steps it takes.  A call first condemns files, then removes  *)
(* some of them; it removes nothing it did not condemn, condemns nothing   *)
(* once it has begun to remove, takes no name twice, and takes nothing at  *)
(* all unless the call is armed (apply, by root).  Everybody else may      *)
(* change the directory at any time.                                       *)
(***************************************************************************)
CONSTANT File

VARIABLES stock,      \* names the directory holds
          condemned,  \* names this call may remove
          taken,      \* names this call has removed
          armed,      \* the call is allowed to remove
          open        \* a call is in progress

vars == <<stock, condemned, taken, armed, open>>

Init == /\ stock \in SUBSET File
        /\ condemned = {} /\ taken = {}
        /\ armed \in BOOLEAN
        /\ open = FALSE

Begin == /\ ~open /\ open' = TRUE
         /\ condemned' = {} /\ taken' = {}
         /\ armed' \in BOOLEAN
         /\ UNCHANGED stock

Condemn(f) == /\ open /\ taken = {}
              /\ f \in stock
              /\ condemned' = condemned \cup {f}
              /\ UNCHANGED <<stock, taken, armed, open>>

Remove(f) == /\ open /\ armed
             /\ f \in (condemned \cap stock) \ taken
             /\ taken' = taken \cup {f}
             /\ stock' = stock \ {f}
             /\ UNCHANGED <<condemned, armed, open>>

End == /\ open /\ open' = FALSE
       /\ UNCHANGED <<stock, condemned, taken, armed>>

Others == /\ stock' \in SUBSET File
          /\ UNCHANGED <<condemned, taken, armed, open>>

Next == \/ Begin \/ End \/ Others
        \/ \E f \in File : Condemn(f) \/ Remove(f)

Spec == Init /\ [][Next]_vars
==============================================================================
