----------------------------- MODULE Parts_proofs -----------------------------
(***************************************************************************)
(* The four parts that MCParts puts side by side.  What is shown of links  *)
(* by checking some is proved here for all: any port and any combination   *)
(* of values, however often a parameter is repeated.  A verdict is tied to *)
(* the judgement it came from (DesktopJudged, PhoneJudged); the properties *)
(* then only compare the two parsers with each other and with the engine.  *)
(* The other three parts have proofs of their own, and every behaviour of  *)
(* the parts together is one of each part: a step of one is a step in      *)
(* which the others rest.                                                  *)
(***************************************************************************)
EXTENDS MCParts, Stores_proofs, KillSwitchCommand_proofs, TLAPS

DesktopJudged ==
    /\ desktop = "refused" => ~DesktopAccepts(link)
    /\ Kept(desktop) => DesktopAccepts(link)
    /\ desktop = "used" => EngineAccepts(DesktopProfile(link))
    /\ desktop = "unusable" => ~EngineAccepts(DesktopProfile(link))

PhoneJudged ==
    /\ phone = "refused" => ~PhoneAccepts(link)
    /\ phone = "crashed" => link.spx.last.text = "broken"
    /\ Kept(phone) => PhoneAccepts(link)
    /\ phone = "used" => EngineAccepts(PhoneProfile(link))
    /\ phone = "unusable" => ~EngineAccepts(PhoneProfile(link))

LinksIInv == LinksTypeOK /\ DesktopJudged /\ PhoneJudged

-----------------------------------------------------------------------------
LEMMA LinkFields ==
    ASSUME NEW l \in Link
    PROVE  /\ l.port \in Nat \cup {NoPort}
           /\ l.uuid \in Optional({"good", "odd", "bad"})
           /\ l.security \in Param({"reality", "other"})
           /\ l.flow \in Param({"vision", "other"})
           /\ l.pbk \in Param({"good", "bad"}) /\ l.sid \in Param({"good", "bad"})
           /\ l.sni \in Param(Names) /\ l.fp \in Param(Names) /\ l.type \in Param(Names)
           /\ l.spx \in Param({"plain", "escaped", "broken"})
  BY DEF Link

\* A value is its text and its blanks.
LEMMA Values ==
    ASSUME NEW texts, NEW value \in Optional(texts)
    PROVE  /\ value # Missing => value.text \in texts \cup {""}
           /\ ~value.padded => value = Plain(value.text)
<1>1. CASE value = Missing
  BY <1>1 DEF Plain, Missing
<1>2. CASE value \in [text : texts \cup {""}, padded : BOOLEAN]
  <2>1. value.text \in texts \cup {""} /\ value.padded \in BOOLEAN
    BY <1>2
  <2>2. value = [text |-> value.text, padded |-> value.padded]
    BY <1>2
  <2>. QED
    BY <2>1, <2>2 DEF Plain
<1>. QED
  BY <1>1, <1>2 DEF Optional

\* Plain values are told apart by their text.
LEMMA PlainTexts ==
    /\ Missing.text = "missing" /\ Blank.text = "" /\ Missing # Blank
    /\ \A text : Plain(text).text = text /\ ~Plain(text).padded
    /\ \A text : Plain(text) = Blank => text = ""
<1>1. \A text : Plain(text).text = text /\ ~Plain(text).padded
  BY DEF Plain
<1>. QED
  BY <1>1 DEF Missing, Blank

LEMMA Readings ==
    ASSUME NEW texts, NEW q \in Param(texts)
    PROVE  /\ q.first \in Optional(texts) /\ q.last \in Optional(texts)
           /\ q.first = Missing => q.last = Missing
           /\ q.last = Missing => q.first \in {Missing, Blank}
  BY DEF Param

\* What the desktop sees of a value, its blanks apart.
LEMMA TrimmedText ==
    ASSUME NEW texts, NEW q \in Param(texts)
    PROVE  /\ Trimmed(q) = Plain(Trimmed(q).text)
           /\ q.first = Missing => Trimmed(q) = Blank
           /\ q.first # Missing => Trimmed(q).text = q.first.text
           /\ Trimmed(q) = Blank <=> Trimmed(q).text = ""
  BY DEF Trimmed, Strip, FirstOf, Plain, Blank, Missing

\* A parameter that is given once, unpadded, reads the same on both devices.
LEMMA ReadAlike ==
    ASSUME NEW texts, NEW q \in Param(texts), Once(q)
    PROVE  /\ Trimmed(q) = LastOf(q, Blank)
           /\ q.last # Missing => Trimmed(q) = q.last
           /\ q.last # Blank => \A default : OrElse(Trimmed(q), default) = LastOf(q, default)
<1>1. q.first = q.last /\ q.last = Plain(q.last.text)
  BY Readings, Values DEF Once
<1>2. CASE q.last = Missing
  <2>1. Trimmed(q) = Blank /\ Blank.text = ""
    BY <1>1, <1>2, TrimmedText, PlainTexts
  <2>. QED
    BY <1>2, <2>1 DEF LastOf, OrElse
<1>3. CASE q.last # Missing
  <2>1. Trimmed(q) = q.last
    BY <1>1, <1>3, TrimmedText
  <2>2. q.last # Blank => q.last.text # ""
    BY <1>1 DEF Blank
  <2>. QED
    BY <1>3, <2>1, <2>2 DEF LastOf, OrElse
<1>. QED
  BY <1>2, <1>3

LEMMA PhonePort ==
    ASSUME NEW l \in Link, PhoneAccepts(l)
    PROVE  ValidPort(l.port) \/ l.port > MaxPort
<1>1. MaxPort \in Nat
  BY DEF MaxPort
<1>. QED
  BY <1>1, LinkFields DEF PhoneAccepts, ValidPort

LEMMA DesktopPortIsValid ==
    ASSUME NEW l \in Link, DesktopAccepts(l)
    PROVE  ValidPort(DesktopPort(l))
<1>1. CASE l.port = NoPort
  BY <1>1 DEF DesktopPort, ValidPort, MaxPort
<1>2. CASE l.port # NoPort
  BY <1>2 DEF DesktopAccepts, DesktopPort
<1>. QED
  BY <1>1, <1>2

LEMMA LinksInitially == LinksInit => LinksIInv
<1>. SUFFICES ASSUME LinksInit PROVE LinksIInv
  OBVIOUS
<1>1. LinksTypeOK
  BY LinksAssumption DEF LinksInit, LinksTypeOK, Verdicts
<1>2. DesktopJudged /\ PhoneJudged
  BY DEF LinksInit, DesktopJudged, PhoneJudged, Kept
<1>. QED
  BY <1>1, <1>2 DEF LinksIInv

LEMMA LinksPreserved == LinksIInv /\ [LinksNext]_linkVars => LinksIInv'
<1>. SUFFICES ASSUME LinksIInv, [LinksNext]_linkVars PROVE LinksIInv'
  OBVIOUS
<1>. USE DEF LinksIInv, LinksTypeOK, Verdicts, Kept
<1>1. CASE DesktopReads
  <2>1. link' = link /\ phone' = phone
    BY <1>1 DEF DesktopReads
  <2>2. DesktopJudged'
    BY <1>1, <2>1 DEF DesktopReads, DesktopJudged
  <2>. QED
    BY <1>1, <2>1, <2>2 DEF DesktopReads, PhoneJudged
<1>2. CASE DesktopUses
  <2>1. link' = link /\ phone' = phone
    BY <1>2 DEF DesktopUses
  <2>2. DesktopJudged'
    BY <1>2, <2>1 DEF DesktopUses, DesktopJudged
  <2>. QED
    BY <1>2, <2>1, <2>2 DEF DesktopUses, PhoneJudged
<1>3. CASE PhoneReads
  <2>1. link' = link /\ desktop' = desktop
    BY <1>3 DEF PhoneReads
  <2>2. PhoneJudged'
    BY <1>3, <2>1 DEF PhoneReads, PhoneJudged
  <2>. QED
    BY <1>3, <2>1, <2>2 DEF PhoneReads, DesktopJudged
<1>4. CASE PhoneUses
  <2>1. link' = link /\ desktop' = desktop
    BY <1>4 DEF PhoneUses
  <2>2. PhoneJudged'
    BY <1>4, <2>1 DEF PhoneUses, PhoneJudged
  <2>. QED
    BY <1>4, <2>1, <2>2 DEF PhoneUses, DesktopJudged
<1>5. CASE UNCHANGED linkVars
  BY <1>5 DEF linkVars, DesktopJudged, PhoneJudged
<1>. QED
  BY <1>1, <1>2, <1>3, <1>4, <1>5 DEF LinksNext, LinksRest

LEMMA LinksInductive == LinksSpec => []LinksIInv
  BY LinksInitially, LinksPreserved, PTL DEF LinksSpec

-----------------------------------------------------------------------------
\* What a device stores the engine refuses only for the listed reasons
\* (parse_vless_link and VlessLinkParser.parse against validate_params).
THEOREM StoresWhatWorks == LinksSpec => []StoredIsUsable
<1>1. ASSUME LinksIInv, desktop = "unusable"
      PROVE  link.pbk.first.text = "bad" \/ link.sid.first.text = "bad"
  <2>1. link \in Link /\ ~EngineAccepts(DesktopProfile(link)) /\ DesktopAccepts(link)
    BY <1>1 DEF LinksIInv, LinksTypeOK, DesktopJudged, Kept
  <2>2. ValidPort(DesktopPort(link)) /\ Plain("good") # Blank
    BY <2>1, DesktopPortIsValid DEF Plain, Blank
  <2>3. ~Decodes(Trimmed(link.pbk)) \/ ~Decodes(Trimmed(link.sid))
    BY <2>1, <2>2 DEF EngineAccepts, DesktopProfile
  <2>4. ASSUME NEW q \in Param({"good", "bad"}), ~Decodes(Trimmed(q)) PROVE q.first.text = "bad"
    <3>1. Trimmed(q) \notin {Blank, Plain("good")}
      BY <2>4 DEF Decodes
    <3>2. q.first # Missing /\ Trimmed(q).text = q.first.text
      BY <3>1, TrimmedText
    <3>3. Trimmed(q).text \notin {"", "good"}
      BY <3>1, TrimmedText DEF Blank
    <3>4. q.first.text \in {"", "good", "bad"}
      <4>1. q.first \in Optional({"good", "bad"})
        BY <2>4, Readings
      <4>2. q.first.text \in {"good", "bad"} \cup {""}
        BY <3>2, <4>1, Values
      <4>. QED
        BY <4>2
    <3>. QED
      BY <3>2, <3>3, <3>4
  <2>. QED
    BY <2>1, <2>3, <2>4, LinkFields
<1>2. ASSUME LinksIInv, phone = "unusable"
      PROVE  \/ link.pbk.last.text = "bad" \/ link.pbk.last.padded
             \/ link.sid.last.text = "bad" \/ link.sid.last.padded
             \/ link.uuid = Blank \/ link.port > MaxPort
  <2>1. link \in Link /\ ~EngineAccepts(PhoneProfile(link)) /\ PhoneAccepts(link)
    BY <1>2 DEF LinksIInv, LinksTypeOK, PhoneJudged, Kept
  <2>2. ValidPort(link.port) \/ link.port > MaxPort
    BY <2>1, PhonePort
  <2>3. \/ link.uuid = Blank \/ link.port > MaxPort
        \/ ~Decodes(link.pbk.last) \/ ~Decodes(LastOf(link.sid, Blank))
    BY <2>1, <2>2 DEF EngineAccepts, PhoneProfile
  <2>4. ASSUME NEW q \in Param({"good", "bad"}), q.last # Missing, ~Decodes(q.last)
        PROVE  q.last.text = "bad" \/ q.last.padded
    <3>1. q.last \in Optional({"good", "bad"})
      BY <2>4, Readings
    <3>2. q.last.text \in {"good", "bad"} \cup {""}
      BY <2>4, <3>1, Values
    <3>3. q.last.text \in {"", "good", "bad"}
      BY <3>2
    <3>4. ~q.last.padded => q.last = Plain(q.last.text)
      BY <3>1, Values
    <3>. QED
      BY <2>4, <3>3, <3>4 DEF Decodes, Blank
  <2>5. link.pbk.last # Missing /\ Decodes(Blank)
    BY <2>1 DEF PhoneAccepts, Decodes
  <2>6. ~Decodes(LastOf(link.sid, Blank)) => link.sid.last # Missing /\ ~Decodes(link.sid.last)
    BY <2>5 DEF LastOf
  <2>. QED
    BY <2>1, <2>3, <2>4, <2>5, <2>6, LinkFields
<1>3. LinksIInv => StoredIsUsable
  BY <1>1, <1>2 DEF StoredIsUsable
<1>. QED
  BY LinksInductive, <1>3, PTL

\* The list of reasons why one device stores a link and the other refuses it, or
\* crashes over it, is complete, for every link.
THEOREM DifferencesAreKnown == LinksSpec => []RefusedElsewhere
<1>1. LinksIInv => RefusedElsewhere
  <2>. SUFFICES ASSUME LinksIInv PROVE RefusedElsewhere
    OBVIOUS
  <2>1. link \in Link
    BY DEF LinksIInv, LinksTypeOK
  <2>2. ASSUME DesktopAccepts(link), ~PhoneAccepts(link)
        PROVE  \/ "phone" \notin link.takes \/ link.port = NoPort
               \/ link.security.first # link.security.last \/ link.security.last.padded
    <3>1. link.port = NoPort \/ link.port > 0
      BY <2>2 DEF DesktopAccepts, ValidPort
    <3>2. link.uuid # Missing
      BY <2>2, PlainTexts DEF DesktopAccepts
    <3>3. link.pbk.last # Missing
      <4>1. link.pbk \in Param({"good", "bad"})
        BY <2>1, LinkFields
      <4>2. Trimmed(link.pbk) # Blank
        BY <2>2 DEF DesktopAccepts
      <4>3. link.pbk.first # Missing
        BY <4>1, <4>2, TrimmedText
      <4>4. link.pbk.first.text # ""
        BY <4>1, <4>2, <4>3, TrimmedText
      <4>5. link.pbk.first # Blank
        BY <4>4, PlainTexts
      <4>. QED
        BY <4>1, <4>3, <4>5, Readings
    <3>4. ASSUME Once(link.security) PROVE link.security.last = Plain("reality")
      <4>1. link.security \in Param({"reality", "other"})
        BY <2>1, LinkFields
      <4>2. Trimmed(link.security) = Plain("reality")
        BY <2>2, <4>1, TrimmedText DEF DesktopAccepts
      <4>3. Trimmed(link.security) # Blank
        BY <4>2, PlainTexts
      <4>4. link.security.last # Missing
        BY <3>4, <4>1, <4>3, TrimmedText DEF Once
      <4>. QED
        BY <3>4, <4>1, <4>2, <4>4, ReadAlike
    <3>. QED
      BY <2>2, <3>1, <3>2, <3>3, <3>4 DEF PhoneAccepts, Once
  <2>3. ASSUME PhoneAccepts(link), ~DesktopAccepts(link)
        PROVE  \/ "desktop" \notin link.takes \/ link.port > MaxPort
               \/ link.uuid.text \notin {"good", "odd"}
               \/ link.security.first # link.security.last
               \/ link.flow.first.text # "vision" \/ link.pbk.first.text = ""
    <3>1. ValidPort(link.port) \/ link.port > MaxPort
      BY <2>1, <2>3, PhonePort
    <3>2. Trimmed(link.security).text = "reality" \/ link.security.first # link.security.last
      <4>1. Plain("reality") # Missing /\ Plain("reality").text = "reality"
        BY PlainTexts
      <4>. QED
        BY <2>1, <2>3, <4>1, LinkFields, TrimmedText DEF PhoneAccepts
    <3>3. link.flow.first.text = "vision" => Trimmed(link.flow).text = "vision"
      BY <2>1, LinkFields, TrimmedText, PlainTexts
    <3>4. Trimmed(link.pbk) # Blank \/ link.pbk.first.text = ""
      <4>1. link.pbk.first # Missing
        BY <2>1, <2>3, LinkFields, Readings DEF PhoneAccepts
      <4>. QED
        BY <2>1, <4>1, LinkFields, TrimmedText
    <3>5. "desktop" \notin link.takes \/ link.uuid.text \notin {"good", "odd"} \/ ~ValidPort(link.port)
            \/ Trimmed(link.security).text # "reality" \/ Trimmed(link.flow).text # "vision"
            \/ Trimmed(link.pbk) = Blank
      BY <2>3 DEF DesktopAccepts
    <3>. QED
      BY <3>1, <3>2, <3>3, <3>4, <3>5
  <2>4. ASSUME Kept(desktop), phone \in {"refused", "crashed"}
        PROVE  \/ "phone" \notin link.takes \/ link.port = NoPort
               \/ link.security.first # link.security.last \/ link.security.last.padded
               \/ link.spx.last.text = "broken"
    BY <2>2, <2>4 DEF LinksIInv, DesktopJudged, PhoneJudged
  <2>5. ASSUME Kept(phone), desktop = "refused"
        PROVE  \/ "desktop" \notin link.takes \/ link.port > MaxPort
               \/ link.uuid.text \notin {"good", "odd"}
               \/ link.security.first # link.security.last
               \/ link.flow.first.text # "vision" \/ link.pbk.first.text = ""
    <3>1. PhoneAccepts(link) /\ ~DesktopAccepts(link)
      BY <2>5 DEF LinksIInv, DesktopJudged, PhoneJudged
    <3>. QED
      BY <2>3, <3>1
  <2>. QED
    BY <2>4, <2>5 DEF RefusedElsewhere
<1>. QED
  BY LinksInductive, <1>1, PTL

\* Two devices that use one link written as the desktop would write it give the
\* engine the same profile, in every field of it (outbound_kwargs against
\* toUniffiProfile).
THEOREM DevicesAgree == LinksSpec => []SameServerOnBoth
<1>1. LinksIInv => SameServerOnBoth
  <2>. SUFFICES ASSUME LinksIInv, desktop = "used", phone = "used",
                       link.uuid = Plain("good"), ~link.password, link.address = "lower",
                       Once(link.flow), Once(link.pbk), Once(link.sid), Once(link.sni),
                       Once(link.fp), Once(link.type), link.spx.first = link.spx.last,
                       link.sni.last \notin {Missing, Blank}, link.fp.last # Blank,
                       link.type.last # Blank, link.spx.last.text # "escaped"
                PROVE  DesktopProfile(link) = PhoneProfile(link)
    BY DEF SameServerOnBoth
  <2>1. link \in Link /\ PhoneAccepts(link)
    BY DEF LinksIInv, LinksTypeOK, PhoneJudged, Kept
  <2>2. /\ DesktopPort(link) = link.port /\ link.pbk.last # Missing
        /\ DesktopAddress(link) = link.address /\ link.password = FALSE
    <3>1. link.password \in BOOLEAN
      BY <2>1 DEF Link
    <3>. QED
      BY <2>1, <3>1 DEF DesktopPort, DesktopAddress, PhoneAccepts
  <2>3. Trimmed(link.flow) = LastOf(link.flow, Blank) /\ Trimmed(link.sid) = LastOf(link.sid, Blank)
    BY <2>1, LinkFields, ReadAlike
  <2>4. Trimmed(link.pbk) = link.pbk.last
    BY <2>1, <2>2, LinkFields, ReadAlike
  <2>5. DesktopServerName(link) = PhoneServerName(link)
    BY <2>1, LinkFields, ReadAlike DEF DesktopServerName, PhoneServerName, LastOf
  <2>6. /\ OrElse(Trimmed(link.fp), Plain("chrome")) = LastOf(link.fp, Plain("chrome"))
        /\ OrElse(Trimmed(link.type), Plain("tcp")) = LastOf(link.type, Plain("tcp"))
    BY <2>1, LinkFields, ReadAlike
  <2>7. FirstOf(link.spx) = DecodedAgain(LastOf(link.spx, Blank))
    BY DEF FirstOf, LastOf, DecodedAgain, Blank, Plain
  <2>. QED
    BY <2>2, <2>3, <2>4, <2>5, <2>6, <2>7 DEF DesktopProfile, PhoneProfile
<1>. QED
  BY LinksInductive, <1>1, PTL

-----------------------------------------------------------------------------
(* The parts together.                                                     *)

LEMMA PartsAreParts == Spec => StoreSpec /\ PhoneSpec /\ LinksSpec /\ CommandSpec
<1>1. Init => StoreInit /\ PhoneInit /\ LinksInit /\ CommandInit
  BY DEF Init
<1>2. ASSUME [Next]_vars
      PROVE  /\ [StoreNext]_storeVars /\ [PhoneNext]_phoneVars
             /\ [LinksNext]_linkVars /\ [CommandNext]_commandVars
  BY <1>2 DEF Next, vars
<1>. QED
  BY <1>1, <1>2, PTL DEF Spec, StoreSpec, PhoneSpec, LinksSpec, CommandSpec

\* The variables of all four parts keep their types, whatever the constants.
THEOREM TypeCorrect == Spec => []TypeOK
<1>1. LinksIInv => LinksTypeOK
  BY DEF LinksIInv
<1>2. LinksSpec => []LinksTypeOK
  BY <1>1, LinksInductive, PTL
<1>3. StoreTypeOK /\ PhoneTypeOK /\ LinksTypeOK /\ CommandTypeOK => TypeOK
  BY DEF TypeOK
<1>. QED
  BY <1>2, <1>3, PartsAreParts, StoreTypeCorrect, PhoneTypeCorrect, CommandTypeCorrect, PTL

\* Both stores of profiles keep the promise of one contract: whole edits, one at a
\* time, that a crash keeps or undoes, unless two edits have overlapped.
THEOREM StoresAreStores == Spec => StoresAreAtomic
  BY PartsAreParts, FileIsAStore, PreferenceIsAStore DEF StoresAreAtomic
=============================================================================
