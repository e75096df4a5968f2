----------------------------- MODULE StoreContract -----------------------------
(***************************************************************************)
(* What a store of profiles promises its user, with processes, coroutines  *)
(* and files left out.  An edit adds or removes one profile, all at once,  *)
(* and leaves the others and the secret that protects them alone.  A crash *)
(* leaves what was in use or what had been flushed before, nothing else.   *)
(*                                                                         *)
(* Neither the desktop nor the phone keeps two edits apart: one that read  *)
(* the store before another replaced it may leave anything behind.  That   *)
(* is the only exception, and lost tells that it has happened.             *)
(***************************************************************************)
CONSTANTS Keys,      \* profile identifiers
          Secrets,   \* what may protect the store
          None       \* what protects a store nobody has written

VARIABLES content,   \* the store in use
          safe,      \* the store that a crash may bring back
          lost       \* an edit may have been lost to another

vars == <<content, safe, lost>>

Stores == [secret : Secrets, keys : SUBSET Keys]
Empty == [secret |-> None, keys |-> {}]

Init == content = Empty /\ safe = Empty /\ lost = FALSE

Add(k, s) == /\ content.secret \in {None, s}
             /\ content' = [secret |-> s, keys |-> content.keys \cup {k}]
             /\ UNCHANGED <<safe, lost>>

Remove(k) == /\ content' = [content EXCEPT !.keys = @ \ {k}]
             /\ UNCHANGED <<safe, lost>>

Overlap == lost' = TRUE /\ content' \in Stores /\ UNCHANGED safe

Flush == safe' = content /\ UNCHANGED <<content, lost>>

Crash == content' \in {content, safe} /\ safe' = content' /\ UNCHANGED lost

Next == \/ \E k \in Keys : Remove(k) \/ \E s \in Secrets : Add(k, s)
        \/ Overlap \/ Flush \/ Crash

Spec == Init /\ [][Next]_vars
=============================================================================
