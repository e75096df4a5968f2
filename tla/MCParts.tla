-------------------------------- MODULE MCParts --------------------------------
(***************************************************************************)
(* The desktop's profile file, the phone's preference, a link shared with  *)
(* both, and the kill-switch commands.  The four have no state in common,  *)
(* so each behaviour is that of one of them while the others are not used. *)
(***************************************************************************)
EXTENDS Links, ProfileStore, AndroidProfiles, KillSwitchCommand, TLC

CONSTANTS p1, p2, x1, x2, t1, t2, e1, e2, m1, m2

MCProcesses == {p1, p2}
MCProfiles == {x1, x2}
MCTasks == {t1, t2}
MCEntries == {e1, e2}
MCManagers == {m1, m2}
MCNames == {"first", "second"}

\* A link that both devices take, and for each field values that a parser or the
\* engine tells apart: every link that differs from the first in at most two.
MCOnce(value) == [first |-> value, last |-> value]
MCPadded(text) == [text |-> text, padded |-> TRUE]
MCGoodLink == [takes |-> {"desktop", "phone"}, uuid |-> Plain("good"), password |-> FALSE,
               address |-> "lower", port |-> MaxPort,
               security |-> MCOnce(Plain("reality")), flow |-> MCOnce(Plain("vision")),
               pbk |-> MCOnce(Plain("good")), sid |-> MCOnce(Plain("good")),
               sni |-> MCOnce(Plain("first")), host |-> MCOnce(Plain("second")),
               peer |-> MCOnce(Plain("second")), fp |-> MCOnce(Plain("first")),
               type |-> MCOnce(Plain("first")), spx |-> MCOnce(Plain("plain"))]

\* Absent, blank, bare, padded, wrong, and the two orders of a good and another.
MCReadings(good, others) ==
    {MCOnce(v) : v \in {Missing, Blank, MCPadded(""), MCPadded(good)} \cup {Plain(o) : o \in others}}
    \cup {[first |-> Blank, last |-> Missing]}
    \cup {[first |-> Plain(good), last |-> Plain(o)] : o \in others \cup {""}}
    \cup {[first |-> Plain(o), last |-> Plain(good)] : o \in others \cup {""}}
MCValues == [takes |-> SUBSET {"desktop", "phone"},
             uuid |-> Optional({"good", "odd", "bad"}), password |-> {TRUE},
             address |-> {"upper", "bracketed"}, port |-> {NoPort, 0, 65536},
             security |-> MCReadings("reality", {"other"}), flow |-> MCReadings("vision", {"other"}),
             pbk |-> MCReadings("good", {"bad"}), sid |-> MCReadings("good", {"bad"}),
             sni |-> MCReadings("first", {"second"}), host |-> {MCOnce(Missing)},
             peer |-> {MCOnce(Missing)},
             fp |-> MCReadings("first", {"second"}), type |-> MCReadings("first", {"second"}),
             spx |-> MCReadings("plain", {"escaped", "broken"})]

MCChanges == UNION {{<<field, value>> : value \in MCValues[field]} : field \in DOMAIN MCValues}
MCLinks == {[MCGoodLink EXCEPT ![c[1]] = c[2], ![d[1]] = d[2]] : c, d \in MCChanges}

VARIABLE part

vars == <<storeVars, phoneVars, linkVars, commandVars, part>>

\* The variables of every part hold what they may: an iptables rule is never
\* deleted that is not there.
TypeOK == StoreTypeOK /\ PhoneTypeOK /\ LinksTypeOK /\ CommandTypeOK

Init == /\ StoreInit /\ PhoneInit /\ LinksInit /\ CommandInit
        /\ \/ part = "links"
           \/ /\ part \in {"file", "preference", "command"}
              /\ link = MCGoodLink

Next ==
    /\ UNCHANGED part
    /\ \/ part = "file" /\ StoreNext /\ UNCHANGED <<phoneVars, linkVars, commandVars>>
       \/ part = "preference" /\ PhoneNext /\ UNCHANGED <<storeVars, linkVars, commandVars>>
       \/ part = "links" /\ LinksNext /\ UNCHANGED <<storeVars, phoneVars, commandVars>>
       \/ part = "command" /\ CommandNext /\ UNCHANGED <<storeVars, phoneVars, linkVars>>

Spec == Init /\ [][Next]_vars

\* Both stores of profiles keep the promise of StoreContract: one whole edit at
\* a time, through crashes, unless two edits have overlapped.
StoresAreAtomic == FileIsAtomic /\ PreferenceIsAtomic

\* Of the larger part only: every state is compared under every permutation.
Symmetry == Permutations(MCProcesses) \cup Permutations(MCProfiles)
=============================================================================
