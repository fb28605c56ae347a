------------------------- MODULE CatalogPublication -------------------------
(***************************************************************************)
(* What sync_catalog promises its callers: the output path is a write-once *)
(* register.  It takes at most one catalog, which then never changes; a    *)
(* call is answered with the catalog in it or with an error, and a call    *)
(* that asked for another catalog never hears Ok.                          *)
(***************************************************************************)
CONSTANTS Caller, Catalogs, None, Failed

VARIABLES catalog, answer
vars == <<catalog, answer>>

Init == catalog = None /\ answer = [c \in Caller |-> None]

Publish ==
  /\ catalog = None
  /\ catalog' \in Catalogs
  /\ UNCHANGED answer

\* Ok, with what is in the register.
Accept(c) ==
  /\ catalog # None
  /\ answer[c] = None
  /\ answer' = [answer EXCEPT ![c] = catalog]
  /\ UNCHANGED catalog

\* Err says nothing about the register.
Refuse(c) ==
  /\ answer[c] = None
  /\ answer' = [answer EXCEPT ![c] = Failed]
  /\ UNCHANGED catalog

\* The caller asks again, or is gone.
Forget(c) ==
  /\ answer[c] # None
  /\ answer' = [answer EXCEPT ![c] = None]
  /\ UNCHANGED catalog

Next == Publish \/ \E c \in Caller : Accept(c) \/ Refuse(c) \/ Forget(c)
Spec == Init /\ [][Next]_vars
=============================================================================
