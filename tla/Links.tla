-------------------------------- MODULE Links --------------------------------
(***************************************************************************)
(* What becomes of a vless:// share link on the desktop and on the phone.  *)
(*                                                                         *)
(* Each has a parser of its own (parsers/vless.py, VlessLinkParser.kt) and *)
(* hands the profile it stores to the same engine (vless_builder.rs), the  *)
(* last to refuse it.  A value in a link is what the two parsers and the   *)
(* engine tell apart: what is between its blanks, and whether there are    *)
(* any around it.                                                          *)
(***************************************************************************)
EXTENDS Naturals

CONSTANTS Names,     \* server names, fingerprints, transports
          NoPort,    \* the link has no port
          AllLinks   \* the links that may be shared

ASSUME NoPortAssumption == NoPort \notin Nat

Plain(text) == [text |-> text, padded |-> FALSE]
Blank == Plain("")
Missing == Plain("missing")
Optional(texts) == [text : texts \cup {""}, padded : BOOLEAN] \cup {Missing}

\* A query parameter may be given more than once.  The desktop reads the first
\* of them, and one without "=" as blank; the phone reads the last with "=".
Param(texts) == {q \in [first : Optional(texts), last : Optional(texts)] :
                    /\ q.first = Missing => q.last = Missing
                    /\ q.last = Missing => q.first \in {Missing, Blank}}

\* takes: whose URI class (urlparse, java.net.URI) finds the scheme vless, a host
\* and numbers for a port in the text; raw blanks, underscores in the host and
\* much else pass only one of them.  A uuid that is "odd" is not spelt as str()
\* spells it.  password: the user-info has a colon after the uuid.  spx is
\* "escaped" if decoding it once more changes it, "broken" if it cannot be.
Link == [takes    : SUBSET {"desktop", "phone"},
         uuid     : Optional({"good", "odd", "bad"}),
         password : BOOLEAN,
         address  : {"lower", "upper", "bracketed"},
         port     : Nat \cup {NoPort},
         security : Param({"reality", "other"}),
         flow     : Param({"vision", "other"}),
         pbk      : Param({"good", "bad"}), sid : Param({"good", "bad"}),
         sni      : Param(Names), host : Param(Names), peer : Param(Names),
         fp       : Param(Names), type : Param(Names),
         spx      : Param({"plain", "escaped", "broken"})]

ASSUME LinksAssumption == AllLinks \subseteq Link

VARIABLES link,     \* the link that is shared
          desktop,  \* what has become of it on the desktop
          phone     \* and on the phone

linkVars == <<link, desktop, phone>>

Verdicts == {"unread", "refused", "crashed", "stored", "used", "unusable"}

\* One invariant per module says what the variables may hold.
LinksTypeOK == link \in Link /\ desktop \in Verdicts /\ phone \in Verdicts

LinksInit == link \in AllLinks /\ desktop = "unread" /\ phone = "unread"

MaxPort == 65535
ValidPort(port) == port \in Nat /\ port > 0 /\ port <= MaxPort
OrElse(value, default) == IF value.text = "" THEN default ELSE value

\* What the desktop reads of a parameter, trimmed or not, and what the phone reads.
Strip(value) == Plain(value.text)
FirstOf(q) == IF q.first = Missing THEN Blank ELSE q.first
Trimmed(q) == Strip(FirstOf(q))
LastOf(q, default) == IF q.last = Missing THEN default ELSE q.last

-----------------------------------------------------------------------------
(* Faulty variants of the definitions below: what would go wrong without    *)
(* the line they change.                                                   *)

DesktopAcceptsAnyPort(l) == /\ "desktop" \in l.takes
                            /\ l.uuid.text \in {"good", "odd"}
                            /\ Trimmed(l.security).text = "reality"
                            /\ Trimmed(l.flow).text = "vision"
                            /\ Trimmed(l.pbk) # Blank

DesktopServerNameIsHost(l) == OrElse(Trimmed(l.host), Trimmed(l.sni))

PhoneWantsVision(l) == /\ "phone" \in l.takes /\ l.uuid # Missing
                       /\ l.port # NoPort /\ l.port > 0
                       /\ l.security.last = Plain("reality")
                       /\ l.flow.last = Plain("vision")
                       /\ l.pbk.last # Missing

-----------------------------------------------------------------------------
(* The desktop: parse_vless_link, then outbound_kwargs                      *)

DesktopAccepts(l) == /\ "desktop" \in l.takes
                     /\ l.uuid.text \in {"good", "odd"}
                     /\ l.port = NoPort \/ ValidPort(l.port)
                     /\ Trimmed(l.security).text = "reality"
                     /\ Trimmed(l.flow).text = "vision"
                     /\ Trimmed(l.pbk) # Blank

DesktopPort(l) == IF l.port = NoPort THEN 443 ELSE l.port

\* urlparse puts a host name in lower case and an IPv6 address out of brackets.
DesktopAddress(l) == IF l.address = "bracketed" THEN "bare" ELSE "lower"

\* A blank server name is taken from the host parameter.
DesktopServerName(l) == OrElse(Trimmed(l.sni), Trimmed(l.host))

\* The UUID is rewritten, and what follows a colon left out.
DesktopProfile(l) == [uuid |-> Plain("good"), password |-> FALSE,
                      address |-> DesktopAddress(l), port |-> DesktopPort(l),
                      flow |-> Trimmed(l.flow), pbk |-> Trimmed(l.pbk), sid |-> Trimmed(l.sid),
                      sni |-> DesktopServerName(l),
                      fp |-> OrElse(Trimmed(l.fp), Plain("chrome")),
                      type |-> OrElse(Trimmed(l.type), Plain("tcp")),
                      spx |-> FirstOf(l.spx)]

-----------------------------------------------------------------------------
(* The phone: VlessLinkParser.parse, then toUniffiProfile                   *)

\* Values are not trimmed, the flow and the form of the UUID not looked at,
\* and only the lower bound of the port is.
PhoneAccepts(l) == /\ "phone" \in l.takes /\ l.uuid # Missing
                   /\ l.port # NoPort /\ l.port > 0
                   /\ l.security.last = Plain("reality")
                   /\ l.pbk.last # Missing

\* A blank server name stays blank; a missing one is the peer parameter.
PhoneServerName(l) == LastOf(l.sni, LastOf(l.peer, Blank))

\* parseQuery has decoded the value before.
DecodedAgain(value) == IF value.text = "escaped" THEN [value EXCEPT !.text = "unescaped"]
                       ELSE value

PhoneProfile(l) == [uuid |-> l.uuid, password |-> l.password,
                    address |-> l.address, port |-> l.port,
                    flow |-> LastOf(l.flow, Blank), pbk |-> l.pbk.last,
                    sid |-> LastOf(l.sid, Blank),
                    sni |-> PhoneServerName(l),
                    fp |-> LastOf(l.fp, Plain("chrome")),
                    type |-> LastOf(l.type, Plain("tcp")),
                    spx |-> DecodedAgain(LastOf(l.spx, Blank))]

-----------------------------------------------------------------------------
(* The engine: validate_params and build_vless_reality_outbound             *)

\* Nothing decodes to no bytes and is no error; a blank around a value is one.
Decodes(value) == value \in {Blank, Plain("good")}

EngineAccepts(profile) == /\ profile.uuid # Blank \/ profile.password
                          /\ ValidPort(profile.port)
                          /\ Decodes(profile.pbk) /\ Decodes(profile.sid)

-----------------------------------------------------------------------------
(* What happens to the link                                                *)

DesktopReads == /\ desktop = "unread"
                /\ desktop' = IF DesktopAccepts(link) THEN "stored" ELSE "refused"
                /\ UNCHANGED <<link, phone>>

DesktopUses == /\ desktop = "stored"
               /\ desktop' = IF EngineAccepts(DesktopProfile(link)) THEN "used" ELSE "unusable"
               /\ UNCHANGED <<link, phone>>

\* Only a VlessLinkParseException is caught: decoding spx again throws another.
PhoneReads == /\ phone = "unread"
              /\ phone' = IF ~PhoneAccepts(link) THEN "refused"
                          ELSE IF link.spx.last.text = "broken" THEN "crashed" ELSE "stored"
              /\ UNCHANGED <<link, desktop>>

PhoneUses == /\ phone = "stored"
             /\ phone' = IF EngineAccepts(PhoneProfile(link)) THEN "used" ELSE "unusable"
             /\ UNCHANGED <<link, desktop>>

\* Nobody has to use the link.
LinksRest == UNCHANGED linkVars

LinksNext == DesktopReads \/ DesktopUses \/ PhoneReads \/ PhoneUses \/ LinksRest

LinksSpec == LinksInit /\ [][LinksNext]_linkVars

-----------------------------------------------------------------------------
(* Properties                                                              *)

Kept(verdict) == verdict \in {"stored", "used", "unusable"}

\* The engine refuses what a device has stored only for a key or a short id that
\* cannot be decoded: these are first looked at when connecting.  The phone
\* stores more that is refused: blanks around either, an empty UUID and a port
\* above 65535.
StoredIsUsable ==
    /\ desktop = "unusable" => link.pbk.first.text = "bad" \/ link.sid.first.text = "bad"
    /\ phone = "unusable" =>
          \/ link.pbk.last.text = "bad" \/ link.pbk.last.padded
          \/ link.sid.last.text = "bad" \/ link.sid.last.padded
          \/ link.uuid = Blank \/ link.port > MaxPort

\* A link that one device stores is refused by the other only for these
\* reasons, though VlessLinkParser.kt:11 says that both accept the same: the
\* URI classes differ; the phone wants a port, does not trim and cannot read
\* every spider-x; the desktop looks at the UUID, the flow, the key and the
\* bound of the port; and of a repeated parameter each sees another value.
RefusedElsewhere ==
    /\ Kept(desktop) /\ phone \in {"refused", "crashed"} =>
          \/ "phone" \notin link.takes \/ link.port = NoPort
          \/ link.security.first # link.security.last \/ link.security.last.padded
          \/ link.spx.last.text = "broken"
    /\ Kept(phone) /\ desktop = "refused" =>
          \/ "desktop" \notin link.takes \/ link.port > MaxPort
          \/ link.uuid.text \notin {"good", "odd"}
          \/ link.security.first # link.security.last
          \/ link.flow.first.text # "vision" \/ link.pbk.first.text = ""

\* A link that both devices use leads both to the same server, in the same way,
\* if it is written as the desktop would write it: every parameter once and not
\* padded, the UUID in its usual spelling with no password, a host name in lower
\* case, a server name, no blank fingerprint or transport, and a spider-x that
\* decoding does not change any more.
Once(q) == q.first = q.last /\ ~q.last.padded
SameServerOnBoth ==
    /\ desktop = "used" /\ phone = "used"
    /\ link.uuid = Plain("good") /\ ~link.password /\ link.address = "lower"
    /\ Once(link.flow) /\ Once(link.pbk) /\ Once(link.sid) /\ Once(link.sni)
    /\ Once(link.fp) /\ Once(link.type) /\ link.spx.first = link.spx.last
    /\ link.sni.last \notin {Missing, Blank} /\ link.fp.last # Blank /\ link.type.last # Blank
    /\ link.spx.last.text # "escaped"
    => DesktopProfile(link) = PhoneProfile(link)
=============================================================================
