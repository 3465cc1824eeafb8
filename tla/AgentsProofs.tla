---------------------------- MODULE AgentsProofs ----------------------------
(***************************************************************************)
(* What the agents are given and how they work together: the settings, the *)
(* extensions file with the tools that follow from it, the teams, the      *)
(* evaluations of a skill's description and the mounts, for any number of  *)
(* threads, writers, members, queries, tries, sessions, paths and links.   *)
(***************************************************************************)
EXTENDS Settings, Extensions, Swarm, EvalLoop, SandboxMounts, Lemmas

-----------------------------------------------------------------------------
(***************************************************************************)
(* The settings. Loads interleave section by section. While they are all   *)
(* of one text, a section follows it as soon as one of them is past it,    *)
(* since every other can only set it to the same, or a getter to the       *)
(* default.                                                                *)
(***************************************************************************)

LoadsTyped ==
    /\ loads \in [Loaders -> [text : ConfigTexts \cup {NoConfig}, next : Nat]]
    /\ globals = [s \in Sections |-> globals[s]]
    /\ making \in [Loaders -> Lazy \cup {NoSection}]
    /\ \A l \in Loaders : Loading(l) =>
          /\ loads[l].text \in read /\ loads[l].next \in 1 .. Len(Order) + 1
          /\ \A i \in 1 .. Len(Order) : i < loads[l].next => loads[l].text[Order[i]] # Invalid

\* A section is as the text says, or lingers, or a getter has undone it.
Follows(text, s) ==
    \/ text[s] = Missing /\ s \in Lingering
    \/ s \in undone /\ globals[s] = Default
    \/ globals[s] = IF text[s] = Missing THEN Default ELSE text[s]

\* While loads of one text go on, a section follows it as soon as one of them is past it.
SectionsSet ==
    ~failed => \A text \in read : read = {text} => \A i \in 1 .. Len(Order) :
        \/ Follows(text, Order[i])
        \/ ~Quiet /\ \A l \in Loaders : Loading(l) => loads[l].next <= i

SettingsInv == SettingsTypeOK /\ LoadsTyped /\ SectionsSet /\ CachedIsValid

\* A text of a config file is not the absence of one.
LEMMA NoConfigIsNoText == NoConfig \notin ConfigTexts
<1>1. DOMAIN NoConfig = {"none"}
  BY DEF NoConfig
<1>2. "app" \notin DOMAIN NoConfig
  BY <1>1
<1> QED
  BY <1>2, SettingsAssumption

\* The sections, by their place in the order.
LEMMA SectionsInOrder ==
  /\ Len(Order) \in Nat /\ DOMAIN Order = 1 .. Len(Order)
  /\ \A i \in 1 .. Len(Order) : Order[i] \in Sections
  /\ \A s \in Sections : \E i \in 1 .. Len(Order) : s = Order[i]
  BY SettingsAssumption DEF Sections

\* What holds of a load that goes on.
LEMMA LoadKnown ==
  ASSUME SettingsInv, NEW l \in Loaders, Loading(l)
  PROVE  /\ loads[l].text \in ConfigTexts /\ loads[l].text \in read
         /\ loads[l].next \in 1 .. Len(Order) + 1
         /\ \A i \in 1 .. Len(Order) : i < loads[l].next => loads[l].text[Order[i]] # Invalid
  BY DEF SettingsInv, SettingsTypeOK, LoadsTyped

\* The invariant and SectionsFollow.
LEMMA SettingsImplied == SettingsInv => SettingsHold
<1> SUFFICES ASSUME SettingsInv PROVE SettingsHold
  OBVIOUS
<1>1. SectionsFollow
  <2>1. SUFFICES ASSUME Quiet, ~failed, NEW text \in read, read = {text}, NEW s \in Sections
                 PROVE  Follows(text, s)
    BY DEF SectionsFollow, Follows
  <2>2. PICK i \in 1 .. Len(Order) : s = Order[i]
    BY SectionsInOrder
  <2> QED
    BY <2>1, <2>2 DEF SettingsInv, SectionsSet
<1> QED
  BY <1>1 DEF SettingsInv, SettingsHold

\* Nothing is loaded at the start.
LEMMA SettingsInitially == SettingsInit => SettingsInv
<1> SUFFICES ASSUME SettingsInit PROVE SettingsInv
  OBVIOUS
<1>1. \A l \in Loaders : ~Loading(l)
  BY DEF SettingsInit, Loading
<1>2. SettingsTypeOK
  <2>1. \A s \in Sections : globals[s] \notin {Missing, Invalid} /\ (globals[s] = Unset => s \in Lazy)
    BY DEF SettingsInit, Missing, Invalid, Default, Unset
  <2>2. 0 \in 0 .. MaxConfigLoads /\ 0 \in 0 .. MaxEdits
    BY SettingsAssumption
  <2> QED
    BY <1>1, <2>1, <2>2 DEF SettingsInit, SettingsTypeOK
<1>3. LoadsTyped
  BY <1>1 DEF SettingsInit, LoadsTyped, NoLoad
<1> QED
  BY <1>2, <1>3 DEF SettingsInit, SettingsInv, SectionsSet, CachedIsValid

\* A file is opened.
LEMMA BeginLoadKeeps ==
  ASSUME SettingsInv, NEW l \in Loaders, NEW text \in ConfigTexts, BeginLoad(l, text)
  PROVE  SettingsInv'
<1> DEFINE new == [text |-> text, next |-> 1]
<1>1. new # NoLoad
  BY NoConfigIsNoText DEF NoLoad
<1>2. loads'[l] = new /\ \A o \in Loaders \ {l} : loads'[o] = loads[o]
  BY DEF BeginLoad, sectionVars, SettingsInv, LoadsTyped
<1>3. Loading(l)' /\ (\A o \in Loaders \ {l} : Loading(o)' <=> Loading(o)) /\ ~Loading(l)
  BY <1>1, <1>2 DEF Loading, BeginLoad
<1>4. loads'[l].text = text /\ loads'[l].next = 1
  BY <1>2
<1>5. text \in read' /\ read' \subseteq ConfigTexts /\ (~Quiet => read \subseteq read')
  BY DEF BeginLoad, sectionVars, SettingsInv, SettingsTypeOK
<1>6. \A o \in Loaders \ {l} : Loading(o) => ~Quiet
  BY DEF Quiet
<1> HIDE DEF new
<1>7. Len(Order) \in Nat
  BY SectionsInOrder
<1>8. SettingsTypeOK'
  <2>1. ASSUME NEW o \in Loaders, Loading(o)'
        PROVE  loads'[o].text \in read' /\ loads'[o].next \in 1 .. Len(Order) + 1
    <3>1. CASE o = l
      BY <1>4, <1>5, <1>7, <3>1
    <3>2. CASE o # l
      BY <1>2, <1>3, <1>5, <1>6, <2>1, <3>2, LoadKnown
    <3> QED
      BY <3>1, <3>2
  <2>2. begun' \in 0 .. MaxConfigLoads
    BY SettingsAssumption DEF BeginLoad, sectionVars, SettingsInv, SettingsTypeOK
  <2>3. \A o \in Loaders : Loading(o)' => making[o] = NoSection
    BY <1>3 DEF BeginLoad, SettingsInv, SettingsTypeOK
  <2> QED
    BY <1>5, <2>1, <2>2, <2>3 DEF BeginLoad, sectionVars, SettingsInv, SettingsTypeOK
<1>9. LoadsTyped'
  <2>1. loads' \in [Loaders -> [text : ConfigTexts \cup {NoConfig}, next : Nat]]
    BY DEF BeginLoad, sectionVars, SettingsInv, LoadsTyped
  <2>2. ASSUME NEW o \in Loaders, Loading(o)'
        PROVE  /\ loads'[o].text \in read' /\ loads'[o].next \in 1 .. Len(Order) + 1
               /\ \A i \in 1 .. Len(Order) : i < loads'[o].next => loads'[o].text[Order[i]] # Invalid
    <3>1. CASE o = l
      BY <1>4, <1>5, <1>7, <3>1
    <3>2. CASE o # l
      BY <1>2, <1>3, <1>5, <1>6, <2>2, <3>2, LoadKnown
    <3> QED
      BY <3>1, <3>2
  <2> QED
    BY <2>1, <2>2 DEF BeginLoad, sectionVars, SettingsInv, LoadsTyped
<1>10. SectionsSet'
  <2> SUFFICES ASSUME ~failed', NEW t \in read', read' = {t}, NEW i \in 1 .. Len(Order)
               PROVE  \/ Follows(t, Order[i])'
                      \/ ~Quiet' /\ \A o \in Loaders : Loading(o)' => loads'[o].next <= i
    BY DEF SectionsSet
  <2>1. ~Quiet'
    BY <1>3 DEF Quiet
  <2>2. t = text
    BY <1>5
  <2>3. CASE Quiet
    BY <1>2, <1>3, <1>4, <2>1, <2>3, <1>7 DEF Quiet
  <2>4. CASE ~Quiet
    <3>1. ~failed /\ read = {t}
      <4>1. PICK o \in Loaders : Loading(o)
        BY <2>4 DEF Quiet
      <4>2. loads[o].text \in read
        BY <4>1, LoadKnown
      <4> QED
        BY <2>4, <4>2 DEF BeginLoad, sectionVars
    <3>2. \/ Follows(t, Order[i])
          \/ \A o \in Loaders : Loading(o) => loads[o].next <= i
      BY <3>1 DEF SettingsInv, SectionsSet
    <3>3. Follows(t, Order[i]) => Follows(t, Order[i])'
      BY DEF Follows, BeginLoad, sectionVars
    <3> QED
      BY <1>2, <1>3, <1>4, <1>7, <2>1, <3>2, <3>3
  <2> QED
    BY <2>3, <2>4
<1> QED
  BY <1>8, <1>9, <1>10 DEF BeginLoad, sectionVars, SettingsInv, CachedIsValid

\* A section is set, to the same value by every load of one text.
LEMMA LoadSectionKeeps ==
  ASSUME SettingsInv, NEW l \in Loaders, LoadSection(l) PROVE SettingsInv'
<1> DEFINE n == loads[l].next
           text == loads[l].text
<1>1. Loading(l) /\ n \in 1 .. Len(Order) /\ text \in read /\ text \in ConfigTexts
      /\ text[Order[n]] # Invalid /\ Len(Order) \in Nat /\ Order[n] \in Sections
      /\ \A i \in 1 .. Len(Order) : i < n => text[Order[i]] # Invalid
  BY LoadKnown, SectionsInOrder DEF LoadSection, Section
<1>2. loads[l] = [text |-> text, next |-> n]
  BY DEF SettingsInv, LoadsTyped
<1>3. loads'[l] = [text |-> text, next |-> n + 1]
  BY <1>2 DEF LoadSection, SettingsInv, LoadsTyped
<1>4. \A o \in Loaders \ {l} : loads'[o] = loads[o]
  BY DEF LoadSection, SettingsInv, LoadsTyped
<1>5. loads'[l].text = text /\ loads'[l].next = n + 1
  BY <1>3
<1>6. Loading(l)' /\ \A o \in Loaders \ {l} : Loading(o)' <=> Loading(o)
  BY <1>1, <1>3, <1>4 DEF Loading, NoLoad
<1>7. read' = read /\ failed' = failed
  BY DEF LoadSection
<1>8. globals' = [globals EXCEPT ![Order[n]] = Set(@, Order[n], text[Order[n]])]
  BY DEF LoadSection, Section
<1>9. globals'[Order[n]] = Set(globals[Order[n]], Order[n], text[Order[n]])
      /\ (\A s \in Sections \ {Order[n]} : globals'[s] = globals[s])
      /\ globals' = [s \in Sections |-> globals'[s]]
  BY <1>1, <1>8 DEF SettingsInv, LoadsTyped
<1>10. loads' \in [Loaders -> [text : ConfigTexts \cup {NoConfig}, next : Nat]]
  BY <1>1, <1>2 DEF LoadSection, SettingsInv, LoadsTyped
<1> HIDE DEF n, text
<1>11. SettingsTypeOK'
  <2>1. ASSUME NEW s \in Sections
        PROVE  globals'[s] \notin {Missing, Invalid} /\ (globals'[s] = Unset => s \in Lazy)
    BY <1>1, <1>9, SettingsAssumption DEF SettingsInv, SettingsTypeOK, Set, Missing, Invalid, Default, Unset
  <2>2. ASSUME NEW o \in Loaders, Loading(o)'
        PROVE  loads'[o].text \in read' /\ loads'[o].next \in 1 .. Len(Order) + 1
    <3>1. CASE o = l
      BY <1>1, <1>5, <1>7, <3>1
    <3>2. CASE o # l
      BY <1>4, <1>6, <1>7, <2>2, <3>2, LoadKnown
    <3> QED
      BY <3>1, <3>2
  <2>3. \A o \in Loaders : Loading(o)' => Loading(o)
    BY <1>1, <1>6
  <2> QED
    BY <2>1, <2>2, <2>3 DEF LoadSection, SettingsInv, SettingsTypeOK
<1>12. LoadsTyped'
  <2>1. ASSUME NEW o \in Loaders, Loading(o)'
        PROVE  /\ loads'[o].text \in read' /\ loads'[o].next \in 1 .. Len(Order) + 1
               /\ \A i \in 1 .. Len(Order) : i < loads'[o].next => loads'[o].text[Order[i]] # Invalid
    <3>1. CASE o = l
      <4>1. ASSUME NEW i \in 1 .. Len(Order), i < n + 1 PROVE text[Order[i]] # Invalid
        <5>1. i < n \/ i = n
          BY <1>1, <4>1
        <5> QED
          BY <1>1, <5>1
      <4> QED
        BY <1>1, <1>5, <1>7, <3>1, <4>1
    <3>2. CASE o # l
      BY <1>4, <1>6, <1>7, <2>1, <3>2, LoadKnown
    <3> QED
      BY <3>1, <3>2
  <2> QED
    BY <1>9, <1>10, <2>1 DEF LoadSection, SettingsInv, LoadsTyped
<1>13. SectionsSet'
  <2> SUFFICES ASSUME ~failed', NEW t \in read', read' = {t}, NEW i \in 1 .. Len(Order)
               PROVE  \/ Follows(t, Order[i])'
                      \/ ~Quiet' /\ \A o \in Loaders : Loading(o)' => loads'[o].next <= i
    BY DEF SectionsSet
  <2>1. t = text /\ ~Quiet' /\ Order[i] \in Sections
    BY <1>1, <1>6, <1>7, SectionsInOrder DEF Quiet
  <2>2. CASE Order[i] = Order[n]
    BY <1>9, <2>1, <2>2 DEF Follows, Set
  <2>3. CASE Order[i] # Order[n]
    <3>1. \/ Follows(t, Order[i])
          \/ \A o \in Loaders : Loading(o) => loads[o].next <= i
      BY <1>7 DEF SettingsInv, SectionsSet
    <3>2. Follows(t, Order[i]) => Follows(t, Order[i])'
      BY <1>9, <2>1, <2>3 DEF LoadSection, Section, Follows, n, text
    <3>3. ASSUME \A o \in Loaders : Loading(o) => loads[o].next <= i
          PROVE  \A o \in Loaders : Loading(o)' => loads'[o].next <= i
      <4>1. n <= i /\ n # i
        BY <1>1, <2>3, <3>3 DEF n
      <4>2. n + 1 <= i
        BY <1>1, <4>1
      <4> QED
        BY <1>4, <1>5, <1>6, <3>3, <4>2
    <3> QED
      BY <2>1, <3>1, <3>2, <3>3
  <2> QED
    BY <2>2, <2>3
<1> QED
  BY <1>11, <1>12, <1>13 DEF LoadSection, SettingsInv, CachedIsValid

\* A load that ends, well or not.
LEMMA LoadEnds ==
  ASSUME SettingsInv, NEW l \in Loaders, Loading(l), loads' = [loads EXCEPT ![l] = NoLoad],
         read' = read, UNCHANGED sectionVars
  PROVE  /\ loads' \in [Loaders -> [text : ConfigTexts \cup {NoConfig}, next : Nat]]
         /\ ~Loading(l)' /\ \A o \in Loaders \ {l} : loads'[o] = loads[o] /\ (Loading(o)' <=> Loading(o))
         /\ LoadsTyped'
         /\ \A o \in Loaders : Loading(o)' => loads'[o].text \in read' /\ loads'[o].next \in 1 .. Len(Order) + 1
<1>1. NoLoad \in [text : ConfigTexts \cup {NoConfig}, next : Nat]
  BY DEF NoLoad
<1>2. loads' \in [Loaders -> [text : ConfigTexts \cup {NoConfig}, next : Nat]]
  BY <1>1 DEF SettingsInv, LoadsTyped
<1>3. loads'[l] = NoLoad /\ \A o \in Loaders \ {l} : loads'[o] = loads[o]
  BY DEF SettingsInv, LoadsTyped
<1>4. ~Loading(l)' /\ \A o \in Loaders \ {l} : loads'[o] = loads[o] /\ (Loading(o)' <=> Loading(o))
  BY <1>3 DEF Loading
<1>5. ASSUME NEW o \in Loaders, Loading(o)'
      PROVE  /\ loads'[o].text \in read' /\ loads'[o].next \in 1 .. Len(Order) + 1
             /\ \A i \in 1 .. Len(Order) : i < loads'[o].next => loads'[o].text[Order[i]] # Invalid
  <2>1. o # l /\ loads'[o] = loads[o] /\ Loading(o)
    BY <1>4, <1>5
  <2> QED
    BY <2>1, LoadKnown
<1>6. LoadsTyped'
  BY <1>2, <1>5 DEF SettingsInv, LoadsTyped, sectionVars
<1> QED
  BY <1>2, <1>4, <1>5, <1>6

\* A load ends at a section that is not valid.
LEMMA LoadFailsKeeps ==
  ASSUME SettingsInv, NEW l \in Loaders, LoadFails(l) PROVE SettingsInv'
<1>1. LoadsTyped' /\ \A o \in Loaders : Loading(o)' => loads'[o].text \in read' /\ loads'[o].next \in 1 .. Len(Order) + 1
  BY LoadEnds DEF LoadFails, sectionVars
<1>2. \A o \in Loaders : Loading(o)' => Loading(o)
  BY LoadEnds DEF LoadFails, sectionVars
<1>3. SettingsTypeOK'
  BY <1>1, <1>2 DEF LoadFails, sectionVars, SettingsInv, SettingsTypeOK
<1> QED
  BY <1>1, <1>3 DEF LoadFails, sectionVars, SettingsInv, SectionsSet, CachedIsValid

\* A load is through all sections, and caches the config if it is valid.
LEMMA EndLoadKeeps ==
  ASSUME SettingsInv, NEW l \in Loaders, EndLoad(l) PROVE SettingsInv'
<1> DEFINE text == loads[l].text
<1>1. Loading(l) /\ text \in ConfigTexts /\ text["app"] # Invalid /\ Len(Order) \in Nat
      /\ loads[l].next > Len(Order) /\ loads[l].next \in 1 .. Len(Order) + 1
      /\ \A i \in 1 .. Len(Order) : i < loads[l].next => text[Order[i]] # Invalid
  BY LoadKnown, SectionsInOrder DEF EndLoad, sectionVars
<1>2. /\ ~Loading(l)' /\ \A o \in Loaders \ {l} : loads'[o] = loads[o] /\ (Loading(o)' <=> Loading(o))
      /\ LoadsTyped'
      /\ \A o \in Loaders : Loading(o)' => loads'[o].text \in read' /\ loads'[o].next \in 1 .. Len(Order) + 1
  BY LoadEnds DEF EndLoad, sectionVars
<1>3. SettingsTypeOK'
  BY <1>1, <1>2 DEF EndLoad, sectionVars, SettingsInv, SettingsTypeOK
<1>4. CachedIsValid'
  <2>1. appConfig' = text /\ DOMAIN text = Sections \cup {"app"}
    BY <1>1, SettingsAssumption DEF EndLoad, sectionVars
  <2>2. ASSUME NEW s \in DOMAIN text PROVE text[s] # Invalid
    <3>1. CASE s = "app"
      BY <1>1, <3>1
    <3>2. CASE s \in Sections
      <4>1. PICK i \in 1 .. Len(Order) : s = Order[i]
        BY <3>2, SectionsInOrder
      <4>2. i < loads[l].next
        BY <1>1
      <4> QED
        BY <1>1, <4>1, <4>2
    <3> QED
      BY <2>1, <3>1, <3>2
  <2> QED
    BY <2>1, <2>2 DEF CachedIsValid
<1>5. SectionsSet'
  <2> SUFFICES ASSUME ~failed, NEW t \in read, read = {t}, NEW i \in 1 .. Len(Order)
               PROVE  Follows(t, Order[i])
    BY DEF EndLoad, sectionVars, SectionsSet, Follows
  <2>1. ~(loads[l].next <= i)
    BY <1>1
  <2> QED
    BY <1>1, <2>1 DEF SettingsInv, SectionsSet
<1> QED
  BY <1>2, <1>3, <1>4, <1>5 DEF SettingsInv

\* A getter finds no config of a section.
LEMMA FindUnsetKeeps ==
  ASSUME SettingsInv, NEW l \in Loaders, NEW s \in Lazy, FindUnset(l, s) PROVE SettingsInv'
<1>1. /\ \A o \in Loaders : Loading(o)' <=> Loading(o)
      /\ Quiet' <=> Quiet
      /\ \A text, name : Follows(text, name)' <=> Follows(text, name)
  BY DEF FindUnset, Loading, Quiet, Follows
<1>2. making' \in [Loaders -> Lazy \cup {NoSection}]
  BY DEF FindUnset, SettingsInv, LoadsTyped
<1>3. ~Loading(l) /\ \A o \in Loaders \ {l} : making'[o] = making[o]
  BY DEF FindUnset, SettingsInv, LoadsTyped
<1>4. SettingsTypeOK'
  BY <1>1, <1>2, <1>3 DEF FindUnset, SettingsInv, SettingsTypeOK
<1>5. LoadsTyped' /\ CachedIsValid'
  BY <1>1, <1>2 DEF FindUnset, SettingsInv, LoadsTyped, CachedIsValid
<1>6. SectionsSet'
  BY <1>1 DEF FindUnset, SettingsInv, SectionsSet
<1> QED
  BY <1>4, <1>5, <1>6 DEF SettingsInv

\* It makes the default: a section that has been loaded meanwhile is undone.
LEMMA MakeDefaultKeeps ==
  ASSUME SettingsInv, NEW l \in Loaders, MakeDefault(l) PROVE SettingsInv'
<1> DEFINE s == making[l]
<1>1. s \in Lazy /\ s \in Sections
  BY SettingsAssumption DEF MakeDefault, SettingsInv, LoadsTyped
<1>2. /\ \A o \in Loaders : Loading(o)' <=> Loading(o)
      /\ Quiet' <=> Quiet
      /\ loads' = loads /\ read' = read /\ failed' = failed
  BY DEF MakeDefault, Loading, Quiet
<1>3. making' \in [Loaders -> Lazy \cup {NoSection}]
      /\ \A o \in Loaders : making'[o] \in {making[o], NoSection}
  BY DEF MakeDefault, SettingsInv, LoadsTyped
<1>4. globals'[s] = Default /\ (\A o \in Sections \ {s} : globals'[o] = globals[o])
      /\ globals' = [o \in Sections |-> globals'[o]]
  BY <1>1 DEF MakeDefault, SettingsInv, LoadsTyped
<1>5. undone' = IF globals[s] \in {Unset, Default} THEN undone ELSE undone \cup {s}
  BY DEF MakeDefault
<1> HIDE DEF s
<1>6. SettingsTypeOK'
  <2>1. \A o \in Sections : globals'[o] \notin {Missing, Invalid} /\ (globals'[o] = Unset => o \in Lazy)
    BY <1>1, <1>4 DEF SettingsInv, SettingsTypeOK, Missing, Invalid, Default
  <2>2. undone' \subseteq Lazy
    BY <1>1, <1>5 DEF SettingsInv, SettingsTypeOK
  <2> QED
    BY <1>2, <1>3, <2>1, <2>2 DEF MakeDefault, SettingsInv, SettingsTypeOK
<1>7. LoadsTyped' /\ CachedIsValid'
  BY <1>2, <1>3, <1>4 DEF MakeDefault, SettingsInv, LoadsTyped, CachedIsValid
<1>8. SectionsSet'
  <2>1. ASSUME NEW text \in ConfigTexts, NEW o \in Sections, Follows(text, o) PROVE Follows(text, o)'
    <3>1. CASE o # s
      BY <1>4, <1>5, <2>1, <3>1 DEF Follows
    <3>2. CASE o = s /\ globals[s] \notin {Unset, Default}
      BY <1>4, <1>5, <3>2 DEF Follows
    <3>3. CASE o = s /\ globals[s] = Default
      BY <1>4, <1>5, <2>1, <3>3 DEF Follows
    <3>4. CASE o = s /\ globals[s] = Unset
      <4>1. text[s] # Unset /\ globals[s] # Default
        BY <1>1, <3>4, SettingsAssumption DEF Unset, Default
      <4> QED
        BY <1>4, <1>5, <2>1, <3>4, <4>1 DEF Follows
    <3> QED
      BY <3>1, <3>2, <3>3, <3>4
  <2>2. read \subseteq ConfigTexts
    BY DEF SettingsInv, SettingsTypeOK
  <2> QED
    BY <1>2, <2>1, <2>2, SectionsInOrder DEF SettingsInv, SectionsSet
<1> QED
  BY <1>6, <1>7, <1>8 DEF SettingsInv

\* Every step of the loads and every edit of the file keeps the invariant.
LEMMA SettingsKeep == ASSUME SettingsInv, [SettingsNext]_settingsVars PROVE SettingsInv'
<1>1. CASE Edit
  <2>1. /\ \A o \in Loaders : Loading(o)' <=> Loading(o)
        /\ Quiet' <=> Quiet
        /\ \A text, name : Follows(text, name)' <=> Follows(text, name)
    BY <1>1 DEF Edit, sectionVars, Loading, Quiet, Follows
  <2>2. edits' \in 0 .. MaxEdits
    BY <1>1, SettingsAssumption DEF Edit, SettingsInv, SettingsTypeOK
  <2>3. SettingsTypeOK'
    BY <1>1, <2>1, <2>2 DEF Edit, sectionVars, SettingsInv, SettingsTypeOK
  <2>4. LoadsTyped' /\ CachedIsValid'
    BY <1>1, <2>1 DEF Edit, sectionVars, SettingsInv, LoadsTyped, CachedIsValid
  <2>5. SectionsSet'
    BY <1>1, <2>1 DEF Edit, sectionVars, SettingsInv, SectionsSet
  <2> QED
    BY <2>3, <2>4, <2>5 DEF SettingsInv
<1>2. CASE ResetConfig
  BY <1>2 DEF ResetConfig, sectionVars, SettingsInv, SettingsTypeOK, LoadsTyped, SectionsSet, CachedIsValid, Loading, Quiet, Follows
<1>3. ASSUME NEW l \in Loaders, GetConfig(l) \/ ReloadConfig(l) PROVE SettingsInv'
  <2>1. configFile \in ConfigTexts
    BY DEF SettingsInv, SettingsTypeOK
  <2> QED
    BY <1>3, <2>1, BeginLoadKeeps DEF GetConfig, ReloadConfig
<1>4. CASE UNCHANGED settingsVars
  BY <1>4 DEF settingsVars, sectionVars, SettingsInv, SettingsTypeOK, LoadsTyped, SectionsSet, CachedIsValid, Loading, Quiet, Follows
<1> QED
  BY <1>1, <1>2, <1>3, <1>4, LoadSectionKeeps, LoadFailsKeeps, EndLoadKeeps,
     FindUnsetKeeps, MakeDefaultKeeps DEF SettingsNext

\* Threads that load the config at the same time leave, when they are done, the sections
\* of the one text they have read, but for those that linger and those that a getter which
\* had found none has set to the default afterwards, and whatever is cached has passed
\* validation (app_config.py, permissions_config.py).
THEOREM SectionsFollowTheirText == SettingsSpec => [](SettingsTypeOK /\ SettingsHold)
<1>1. SettingsInv => SettingsTypeOK /\ SettingsHold
  BY SettingsImplied DEF SettingsInv
<1> QED
  BY <1>1, SettingsInitially, SettingsKeep, PTL DEF SettingsSpec

-----------------------------------------------------------------------------
(***************************************************************************)
(* The extensions file. What the tools and the file are is told by the     *)
(* versions; the invariant adds what each writer is about to write, which  *)
(* its own copy has made of what was written last, and that a turn that    *)
(* connects has loaded the servers that are in the file.                   *)
(***************************************************************************)

\* What a writer is about to write.
Jobs == [step : {"open", "dump", "reload"}, part : Parts, config : Config]

\* What the turn has read, unless the file was written meanwhile.
ToolsKnown ==
    /\ cachedAt <= mtime
    /\ point # "no" => ~ready
    /\ point \in {"connect", "record"} => excuse # {} \/ (file # Torn /\ loaded = file.servers)

\* The file as it was saved, and a copy that was made of it.
KeptFile ==
    [servers |-> written.servers, skills |-> written.skills, extra |-> LastingExtra]
KeptCopy ==
    [servers |-> written.servers, skills |-> written.skills, extra |-> LastingExtra \ {"names"}]

\* A job has one part from the update it is for, and the other as it was written last.
Meant(job) ==
    IF job.part = "servers"
    THEN /\ job.config.skills = written.skills
         /\ job.config.servers > written.skills /\ job.config.servers <= updates
    ELSE /\ job.config.servers = written.servers
         /\ job.config.extra = written.extra \cap {"fields"}
         /\ job.config.skills > written.servers /\ job.config.skills <= updates

WriterKnown(w) ==
    copies[w] # NoCopy =>
        /\ writing[w] = Idle => copies[w] = KeptCopy
        /\ writing[w] # Idle /\ writing[w].step # "reload" => Meant(writing[w])

\* What is in the file and in the copies of the writers, while nothing is lost.
FileKnown ==
    /\ written.servers <= updates /\ written.skills <= updates
    /\ file # Torn => file = KeptFile
    /\ file = Torn => \E w \in Writers : writing[w] # Idle /\ writing[w].step = "dump"
    /\ \A w \in Writers \ outdated : WriterKnown(w)

\* The part of the invariant that is about the writers, as a step may change it.
WritersTyped ==
    /\ file \in Config \cup {Torn} /\ mtime \in Nat
    /\ copies \in [Writers -> Config \cup {NoCopy}]
    /\ writing \in [Writers -> Jobs \cup {Idle}]
    /\ updates \in Versions /\ errors \in 0 .. MaxErrors
    /\ written \in Config /\ outdated \subseteq Writers /\ lost \in BOOLEAN
    /\ \A w \in Writers : writing[w] # Idle => copies[w] # NoCopy

ToolsTyped ==
    /\ turns \in 0 .. MaxLoads /\ point \in {"no", "read", "connect", "record"}
    /\ tools \in Versions \cup {NoTools} /\ loaded \in Versions \cup {NoTools}
    /\ ready \in BOOLEAN /\ cachedAt \in Nat
    /\ given \in [tools : Versions \cup {NoTools}, servers : Versions \cup {Torn.servers}]
    /\ excuse \in SUBSET {"written meanwhile", "same tick", "failed"}

ExtensionsInv ==
    /\ WritersTyped /\ ToolsTyped
    /\ ToolsKnown /\ ToolsFollowFile
    /\ lost \/ FileKnown

\* A file, a torn file, the lack of a copy, and a job and the lack of one, are different.
LEMMA Different ==
  /\ Torn \notin Config /\ NoCopy \notin Config /\ Torn # NoCopy /\ Idle \notin Jobs
  /\ \A c \in Config : c.servers \in Versions /\ c.skills \in Versions /\ c.extra \in SUBSET Extras
  /\ Versions \subseteq Nat
<1>1. Torn.servers = -1 /\ NoCopy.servers = -2
  BY DEF Torn, NoCopy
<1>2. Versions \subseteq Nat
  BY ExtensionsAssumption DEF Versions
<1>3. Idle \notin Jobs
  <2>1. \A j \in Jobs : j.step # "no"
    BY DEF Jobs
  <2> QED
    BY <2>1 DEF Idle
<1>4. \A c \in Config : c.servers \in Versions /\ c.skills \in Versions /\ c.extra \in SUBSET Extras
  BY DEF Config
<1> QED
  BY <1>1, <1>2, <1>3, <1>4

\* What from_file makes of a file, and what get_extensions_config gives.
LEMMA ReadKnown ==
  ASSUME WritersTyped, file # Torn
  PROVE  /\ Read \in Config
         /\ Read = [servers |-> file.servers, skills |-> file.skills, extra |-> file.extra \ {"names"}]
<1>1. file \in Config
  BY DEF WritersTyped
<1>2. Read = [servers |-> file.servers, skills |-> file.skills, extra |-> file.extra \ {"names"}]
  BY <1>1 DEF Read, Config
<1> QED
  BY <1>1, <1>2, Different DEF Config

LEMMA CopyKnown ==
  ASSUME WritersTyped, NEW w \in Writers, copies[w] # NoCopy \/ file # Torn
  PROVE  /\ CopyOf(w) \in Config
         /\ FileKnown /\ w \notin outdated /\ writing[w] = Idle => CopyOf(w) = KeptCopy
<1>1. CASE copies[w] # NoCopy
  BY <1>1 DEF CopyOf, WritersTyped, FileKnown, WriterKnown
<1>2. CASE copies[w] = NoCopy
  <2>1. CopyOf(w) = Read /\ file # Torn
    BY <1>2 DEF CopyOf
  <2>2. ASSUME FileKnown PROVE Read = KeptCopy
    <3>1. file = KeptFile
      BY <2>1, <2>2 DEF FileKnown
    <3>2. file.servers = written.servers /\ file.skills = written.skills /\ file.extra = LastingExtra
      BY <3>1 DEF KeptFile
    <3> QED
      BY <2>1, <3>2, ReadKnown DEF KeptCopy
  <2> QED
    BY <2>1, <2>2, ReadKnown
<1> QED
  BY <1>1, <1>2

\* Nothing is written or loaded at the start.
LEMMA ExtensionsInitially == ExtensionsInit => ExtensionsInv
<1> SUFFICES ASSUME ExtensionsInit PROVE ExtensionsInv
  OBVIOUS
<1> USE ExtensionsAssumption DEF ExtensionsInit
<1>1. /\ Fresh \in Config /\ 0 \in Versions
      /\ Fresh.servers = 0 /\ Fresh.skills = 0 /\ Fresh.extra = Extras
  BY DEF Fresh, Config, Versions
<1>2. WritersTyped
  <2>1. 0 \in 0 .. MaxErrors /\ Idle \in Jobs \cup {Idle} /\ NoCopy \in Config \cup {NoCopy}
    OBVIOUS
  <2> QED
    BY <1>1, <2>1 DEF WritersTyped
<1>3. ToolsTyped
  <2>1. 0 \in 0 .. MaxLoads /\ given \in [tools : Versions \cup {NoTools}, servers : Versions \cup {Torn.servers}]
    BY <1>1
  <2> QED
    BY <1>1, <2>1 DEF ToolsTyped
<1>4. ToolsKnown /\ ToolsFollowFile
  BY <1>1 DEF ToolsKnown, ToolsFollowFile
<1>5. FileKnown
  <2>1. LastingExtra = Extras
    BY <1>1 DEF LastingExtra
  <2>2. file = KeptFile
    BY <1>1, <2>1 DEF KeptFile, Fresh
  <2>3. \A w \in Writers : WriterKnown(w)
    BY DEF WriterKnown
  <2>4. written.servers <= updates /\ written.skills <= updates
    BY <1>1
  <2> QED
    BY <1>1, <2>2, <2>3, <2>4, Different DEF FileKnown
<1> QED
  BY <1>2, <1>3, <1>4, <1>5 DEF ExtensionsInv

\* A writer, and the job that it has.
LEMMA JobKnown ==
  ASSUME WritersTyped, NEW w \in Writers, writing[w] # Idle
  PROVE  /\ writing[w] \in Jobs /\ writing[w].step \in {"open", "dump", "reload"}
         /\ writing[w].part \in Parts /\ writing[w].config \in Config /\ copies[w] # NoCopy
         /\ copies[w] \in Config
         /\ \A s \in {"open", "dump", "reload"} : Step(w, s) =>
               /\ writing' \in [Writers -> Jobs \cup {Idle}]
               /\ writing'[w] # Idle /\ writing'[w].step = s
               /\ writing'[w].part = writing[w].part /\ writing'[w].config = writing[w].config
               /\ \A v \in Writers \ {w} : writing'[v] = writing[v]
<1>1. writing[w] \in Jobs
  BY DEF WritersTyped
<1>2. writing[w].step \in {"open", "dump", "reload"} /\ writing[w].part \in Parts /\ writing[w].config \in Config
  BY <1>1 DEF Jobs
<1>3. ASSUME NEW s \in {"open", "dump", "reload"}, Step(w, s)
      PROVE  /\ writing' \in [Writers -> Jobs \cup {Idle}]
             /\ writing'[w] # Idle /\ writing'[w].step = s
             /\ writing'[w].part = writing[w].part /\ writing'[w].config = writing[w].config
             /\ \A v \in Writers \ {w} : writing'[v] = writing[v]
  <2> DEFINE new == [step |-> s, part |-> writing[w].part, config |-> writing[w].config]
  <2>1. [writing[w] EXCEPT !.step = s] = new
    BY <1>1 DEF Jobs
  <2>2. new \in Jobs /\ new # Idle
    BY <1>2, Different DEF Jobs
  <2>3. writing' = [writing EXCEPT ![w] = new]
    BY <1>3, <2>1 DEF Step
  <2>4. new.step = s /\ new.part = writing[w].part /\ new.config = writing[w].config
    OBVIOUS
  <2> HIDE DEF new
  <2>5. writing'[w] = new /\ \A v \in Writers \ {w} : writing'[v] = writing[v]
    BY <2>3 DEF WritersTyped
  <2>6. writing' \in [Writers -> Jobs \cup {Idle}]
    BY <2>2, <2>3 DEF WritersTyped
  <2> QED
    BY <2>2, <2>4, <2>5, <2>6
<1> QED
  BY <1>1, <1>2, <1>3 DEF WritersTyped

\* A job that ends.
LEMMA JobEnds ==
  ASSUME WritersTyped, NEW w \in Writers, writing' = [writing EXCEPT ![w] = Idle]
  PROVE  /\ writing' \in [Writers -> Jobs \cup {Idle}] /\ writing'[w] = Idle
         /\ \A v \in Writers \ {w} : writing'[v] = writing[v]
  BY DEF WritersTyped

\* A write, to the tools of a turn.
LEMMA TouchKeepsTools ==
  ASSUME ExtensionsInv, Touch, UNCHANGED <<turns, point, tools, ready, cachedAt, loaded, given>>
  PROVE  ToolsTyped' /\ ToolsKnown' /\ ToolsFollowFile' /\ mtime' \in Nat
<1>1. mtime' \in Nat /\ mtime <= mtime' /\ cachedAt <= mtime' /\ cachedAt <= mtime
      /\ cachedAt \in Nat /\ mtime \in Nat /\ (mtime' # mtime => mtime' = mtime + 1)
  <2>1. cachedAt <= mtime /\ cachedAt \in Nat /\ mtime \in Nat
    BY DEF ExtensionsInv, WritersTyped, ToolsTyped, ToolsKnown
  <2>2. mtime' = mtime \/ mtime' = mtime + 1
    BY DEF Touch
  <2> QED
    BY <2>1, <2>2
<1>2. excuse \subseteq excuse' /\ excuse' \in SUBSET {"written meanwhile", "same tick", "failed"}
  BY DEF ExtensionsInv, ToolsTyped, Touch
<1>3. ready /\ mtime' = cachedAt => excuse' # {}
  BY DEF Touch
<1>4. point \in {"connect", "record"} => excuse' # {}
  BY DEF Touch, ExtensionsInv, ToolsKnown
<1>5. ToolsTyped' /\ ToolsKnown'
  BY <1>1, <1>2, <1>4 DEF ExtensionsInv, ToolsTyped, ToolsKnown
<1>6. ToolsFollowFile'
  BY <1>2, <1>3 DEF ExtensionsInv, ToolsFollowFile
<1> QED
  BY <1>1, <1>5, <1>6

\* What an update begins with, while nothing is lost.
BegunWith(p, config) ==
    /\ p = "servers" => config.skills = written.skills /\ config.servers = updates + 1
    /\ p = "skills" => /\ config.servers = written.servers /\ config.skills = updates + 1
                       /\ config.extra = written.extra \cap {"fields"}

\* An update begins, from the file or from the copy.
LEMMA BeginUpdateKeeps ==
  ASSUME ExtensionsInv, NEW w \in Writers, NEW part \in Parts, NEW config \in Config,
         NEW copy \in Config, BeginUpdate(w, part, config, copy),
         FileKnown /\ w \notin outdated => BegunWith(part, config)
  PROVE  ExtensionsInv'
<1> DEFINE job == [step |-> "open", part |-> part, config |-> config]
<1>0. WritersTyped /\ ToolsTyped /\ ToolsKnown /\ ToolsFollowFile /\ (lost \/ FileKnown)
  BY DEF ExtensionsInv
<1>1. updates + 1 \in Versions /\ updates \in Nat /\ updates' = updates + 1
  BY <1>0, ExtensionsAssumption DEF BeginUpdate, WritersTyped, Versions
<1>2. job \in Jobs /\ job # Idle /\ job.step = "open" /\ job.part = part /\ job.config = config
  BY Different DEF Jobs
<1>3. writing' = [writing EXCEPT ![w] = job] /\ copies' = [copies EXCEPT ![w] = copy]
  BY DEF BeginUpdate
<1>4. ASSUME FileKnown, w \notin outdated PROVE Meant(job)'
  <2>1. written' = written /\ written.servers \in Nat /\ written.skills \in Nat
        /\ written.servers <= updates /\ written.skills <= updates
    BY <1>0, <1>4, Different DEF BeginUpdate, WritersTyped, FileKnown
  <2> HIDE DEF job
  <2> QED
    BY <1>1, <1>2, <1>4, <2>1 DEF Meant, BegunWith, Parts
<1> HIDE DEF job
<1>5. /\ writing' \in [Writers -> Jobs \cup {Idle}] /\ writing'[w] = job
      /\ copies' \in [Writers -> Config \cup {NoCopy}] /\ copies'[w] # NoCopy
      /\ \A v \in Writers \ {w} : writing'[v] = writing[v] /\ copies'[v] = copies[v]
  BY <1>0, <1>2, <1>3, Different DEF WritersTyped
<1>6. WritersTyped'
  BY <1>0, <1>1, <1>2, <1>5 DEF BeginUpdate, WritersTyped, fileVars
<1>7. ToolsTyped' /\ ToolsKnown' /\ ToolsFollowFile'
  BY <1>0 DEF BeginUpdate, ToolsTyped, ToolsKnown, ToolsFollowFile, fileVars, toolVars
<1>8. lost' \/ FileKnown'
  <2> SUFFICES ASSUME ~lost PROVE FileKnown'
    BY DEF BeginUpdate
  <2>1. FileKnown /\ file' = file /\ written' = written /\ outdated' = outdated /\ writing[w] = Idle
    BY <1>0 DEF BeginUpdate, fileVars
  <2>2. file = Torn => \E v \in Writers : writing'[v] # Idle /\ writing'[v].step = "dump"
    BY <1>5, <2>1 DEF FileKnown
  <2>3. KeptFile' = KeptFile /\ KeptCopy' = KeptCopy
    BY <2>1 DEF KeptFile, KeptCopy, LastingExtra
  <2>4. ASSUME NEW v \in Writers \ outdated PROVE WriterKnown(v)'
    <3>1. CASE v = w
      BY <1>2, <1>4, <1>5, <2>1, <3>1 DEF WriterKnown
    <3>2. CASE v # w
      <4>1. writing'[v] = writing[v] /\ copies'[v] = copies[v] /\ WriterKnown(v)
        BY <1>5, <2>1, <2>4, <3>2 DEF FileKnown
      <4>2. ASSUME writing[v] # Idle, Meant(writing[v]) PROVE Meant(writing[v])'
        <5> DEFINE config_v == writing[v].config
        <5>1. config_v \in Config
          BY <1>0, <4>2, JobKnown
        <5>2. config_v.servers \in Nat /\ config_v.skills \in Nat
          BY <5>1, Different
        <5>3. writing'[v].config = config_v /\ writing'[v].part = writing[v].part
          BY <4>1
        <5> HIDE DEF config_v
        <5> QED
          BY <1>1, <2>1, <4>2, <5>2, <5>3, <4>1 DEF Meant, config_v
      <4> QED
        BY <2>3, <4>1, <4>2 DEF WriterKnown
    <3> QED
      BY <3>1, <3>2
  <2>5. written'.servers <= updates' /\ written'.skills <= updates'
    <3>1. written.servers \in Nat /\ written.skills \in Nat
      BY <1>0, Different DEF WritersTyped
    <3> QED
      BY <1>1, <2>1, <3>1 DEF FileKnown
  <2> QED
    BY <2>1, <2>2, <2>3, <2>4, <2>5 DEF FileKnown
<1> QED
  BY <1>6, <1>7, <1>8 DEF ExtensionsInv

\* The servers are asked for, and the skills are as they were.
LEMMA UpdateServersKeeps ==
  ASSUME ExtensionsInv, NEW w \in Writers, NEW fields \in AskedOf(w), UpdateServers(w, fields)
  PROVE  ExtensionsInv'
<1> DEFINE config == WithServers(w, fields)
<1>0. WritersTyped
  BY DEF ExtensionsInv
<1>1. BeginUpdate(w, "servers", config, CopyOf(w))
  BY DEF UpdateServers
<1>2. /\ updates + 1 \in Versions /\ updates' = updates + 1 /\ updates \in Nat
      /\ written' = written /\ writing[w] = Idle
      /\ copies[w] # NoCopy \/ file # Torn
  BY <1>0, <1>1, ExtensionsAssumption DEF BeginUpdate, WritersTyped, Versions
<1>3. CopyOf(w) \in Config /\ (FileKnown /\ w \notin outdated => CopyOf(w) = KeptCopy)
  BY <1>0, <1>2, CopyKnown
<1>4. config.servers = updates + 1 /\ config.skills = CopyOf(w).skills
  BY DEF WithServers
<1>5. config \in Config
  <2>1. CopyOf(w).skills \in Versions /\ fields \in SUBSET Extras
    BY <1>3, Different DEF AskedOf, Extras
  <2> QED
    BY <1>2, <2>1 DEF Config, WithServers
<1> HIDE DEF config
<1>6. ASSUME FileKnown, w \notin outdated PROVE BegunWith("servers", config)
  BY <1>3, <1>4, <1>6 DEF KeptCopy, BegunWith
<1> QED
  BY <1>1, <1>3, <1>5, <1>6, BeginUpdateKeeps DEF Parts

\* A skill is switched, and the servers are as they were.
LEMMA UpdateSkillKeeps ==
  ASSUME ExtensionsInv, NEW w \in Writers, UpdateSkill(w) PROVE ExtensionsInv'
<1> DEFINE config == WithSkill(w)
           copy == [servers |-> CopyOf(w).servers, skills |-> updates + 1, extra |-> CopyOf(w).extra]
<1>0. WritersTyped
  BY DEF ExtensionsInv
<1>1. BeginUpdate(w, "skills", config, [CopyOf(w) EXCEPT !.skills = updates + 1])
  BY DEF UpdateSkill
<1>2. /\ updates + 1 \in Versions /\ updates' = updates + 1 /\ updates \in Nat
      /\ written' = written /\ writing[w] = Idle
      /\ copies[w] # NoCopy \/ file # Torn
  BY <1>0, <1>1, ExtensionsAssumption DEF BeginUpdate, WritersTyped, Versions
<1>3. CopyOf(w) \in Config /\ (FileKnown /\ w \notin outdated => CopyOf(w) = KeptCopy)
  BY <1>0, <1>2, CopyKnown
<1>4. /\ config.servers = CopyOf(w).servers /\ config.skills = updates + 1
      /\ config.extra = CopyOf(w).extra \ {"keys"}
  BY DEF WithSkill
<1>5. config \in Config /\ copy \in Config
  <2>1. CopyOf(w).servers \in Versions /\ CopyOf(w).extra \in SUBSET Extras
    BY <1>3, Different
  <2>2. CopyOf(w).extra \ {"keys"} \in SUBSET Extras
    BY <2>1
  <2> QED
    BY <1>2, <2>1, <2>2 DEF Config, WithSkill
<1>6. [CopyOf(w) EXCEPT !.skills = updates + 1] = copy
  BY <1>3 DEF Config
<1> HIDE DEF config, copy
<1>7. ASSUME FileKnown, w \notin outdated PROVE BegunWith("skills", config)
  <2>1. config.servers = written.servers /\ config.extra = (LastingExtra \ {"names"}) \ {"keys"}
    BY <1>3, <1>4, <1>7 DEF KeptCopy
  <2>2. (LastingExtra \ {"names"}) \ {"keys"} = written.extra \cap {"fields"}
    <3>1. written.extra \subseteq Extras
      BY <1>0, Different DEF WritersTyped
    <3> QED
      BY <3>1 DEF LastingExtra, Extras
  <2> QED
    BY <1>4, <2>1, <2>2 DEF BegunWith
<1> QED
  BY <1>1, <1>5, <1>6, <1>7, BeginUpdateKeeps DEF Parts

\* A gateway empties the file.
LEMMA OpenFileKeeps ==
  ASSUME ExtensionsInv, NEW w \in Writers, OpenFile(w) PROVE ExtensionsInv'
<1>0. WritersTyped /\ (lost \/ FileKnown)
  BY DEF ExtensionsInv
<1>1. /\ writing[w] # Idle /\ writing[w].step = "open"
      /\ writing' \in [Writers -> Jobs \cup {Idle}] /\ writing'[w] # Idle /\ writing'[w].step = "dump"
      /\ writing'[w].part = writing[w].part /\ writing'[w].config = writing[w].config
      /\ \A v \in Writers \ {w} : writing'[v] = writing[v]
  BY <1>0, JobKnown DEF OpenFile
<1>2. ToolsTyped' /\ ToolsKnown' /\ ToolsFollowFile' /\ mtime' \in Nat
  BY TouchKeepsTools DEF OpenFile
<1>3. WritersTyped'
  BY <1>0, <1>1, <1>2 DEF OpenFile, WritersTyped
<1>4. lost' \/ FileKnown'
  <2> SUFFICES ASSUME ~lost PROVE FileKnown'
    BY DEF OpenFile
  <2>0. /\ FileKnown /\ file' = Torn /\ written' = written /\ outdated' = outdated
        /\ copies' = copies /\ updates' = updates
    BY <1>0 DEF OpenFile
  <2>1. ASSUME NEW v \in Writers \ outdated PROVE WriterKnown(v)'
    <3>1. WriterKnown(v) /\ KeptCopy' = KeptCopy
      BY <2>0, <2>1 DEF FileKnown, KeptCopy, LastingExtra
    <3>2. CASE v = w
      BY <1>1, <2>0, <3>1, <3>2 DEF WriterKnown, Meant
    <3>3. CASE v # w
      BY <1>1, <2>0, <3>1, <3>3 DEF WriterKnown, Meant
    <3> QED
      BY <3>2, <3>3
  <2> QED
    BY <1>1, <2>0, <2>1 DEF FileKnown
<1> QED
  BY <1>2, <1>3, <1>4 DEF ExtensionsInv

\* The new content is there, and the copies of the others are outdated.
LEMMA WriteFileKeeps ==
  ASSUME ExtensionsInv, NEW w \in Writers, WriteFile(w) PROVE ExtensionsInv'
<1> DEFINE job == writing[w]
<1>0. WritersTyped /\ (lost \/ FileKnown)
  BY DEF ExtensionsInv
<1>1. /\ job # Idle /\ job.step \in {"open", "dump"} /\ job.part \in Parts /\ job.config \in Config
      /\ copies[w] # NoCopy
      /\ writing' \in [Writers -> Jobs \cup {Idle}] /\ writing'[w] # Idle /\ writing'[w].step = "reload"
      /\ \A v \in Writers \ {w} : writing'[v] = writing[v]
  BY <1>0, JobKnown DEF WriteFile
<1>2. ToolsTyped' /\ ToolsKnown' /\ ToolsFollowFile' /\ mtime' \in Nat
  BY TouchKeepsTools DEF WriteFile
<1>3. /\ file' = job.config /\ outdated' = outdated \cup {v \in Writers \ {w} : copies[v] # NoCopy}
      /\ lost' = (lost \/ w \in outdated) /\ copies' = copies /\ updates' = updates /\ errors' = errors
      /\ job.part = "servers" =>
            written' = [written EXCEPT !.servers = job.config.servers, !.extra = job.config.extra]
      /\ job.part = "skills" => written' = [written EXCEPT !.skills = job.config.skills]
  BY <1>1 DEF WriteFile, Parts
<1> DEFINE servers == job.config.servers
           skills == job.config.skills
           extra == job.config.extra
<1>4. /\ servers \in Versions /\ skills \in Versions /\ extra \in SUBSET Extras
      /\ job.config = [servers |-> servers, skills |-> skills, extra |-> extra]
  BY <1>1, Different DEF Config
<1>5. /\ job.part = "servers" =>
            written' = [servers |-> servers, skills |-> written.skills, extra |-> extra]
      /\ job.part = "skills" =>
            written' = [servers |-> written.servers, skills |-> skills, extra |-> written.extra]
      /\ job.part \in {"servers", "skills"}
  <2> HIDE DEF job, servers, skills, extra
  <2>1. /\ job.part = "servers" => written' = [written EXCEPT !.servers = servers, !.extra = extra]
        /\ job.part = "skills" => written' = [written EXCEPT !.skills = skills]
    BY <1>3 DEF servers, skills, extra
  <2> QED
    BY <1>0, <1>1, <2>1 DEF WritersTyped, Config, Parts
<1>6. written.servers \in Versions /\ written.skills \in Versions /\ written.extra \in SUBSET Extras
  BY <1>0, Different DEF WritersTyped
<1> HIDE DEF job, servers, skills, extra
<1>7. written' \in Config
  BY <1>4, <1>5, <1>6 DEF Config
<1>8. WritersTyped'
  BY <1>0, <1>1, <1>2, <1>3, <1>7 DEF WritersTyped
<1>9. lost' \/ FileKnown'
  <2> SUFFICES ASSUME ~lost, w \notin outdated PROVE FileKnown'
    BY <1>3
  <2>1. Meant(job) /\ written.servers <= updates /\ written.skills <= updates
    BY <1>0, <1>1 DEF FileKnown, WriterKnown, job
  <2>2. job.config.servers = servers /\ job.config.skills = skills /\ job.config.extra = extra
    BY DEF servers, skills, extra
  <2>3. /\ servers \in Nat /\ skills \in Nat /\ written.servers \in Nat /\ written.skills \in Nat
    BY <1>4, <1>6, Different
  <2>4. /\ job.part = "servers" => skills = written.skills /\ servers > skills /\ servers <= updates
        /\ job.part = "skills" => /\ servers = written.servers /\ skills > servers /\ skills <= updates
                                  /\ extra = written.extra \cap {"fields"}
    BY <2>1, <2>2 DEF Meant
  <2>5. /\ written'.servers = servers /\ written'.skills = skills
        /\ job.part = "servers" => written'.extra = extra
        /\ job.part = "skills" => written'.extra = written.extra
    BY <1>5, <2>4
  <2>6. LastingExtra' = extra
    BY <1>5, <2>3, <2>4, <2>5 DEF LastingExtra
  <2>7. file' = KeptFile'
    BY <1>3, <1>4, <2>5, <2>6 DEF KeptFile
  <2>8. written'.servers <= updates' /\ written'.skills <= updates'
    BY <1>3, <1>5, <2>1, <2>3, <2>4, <2>5
  <2>9. ASSUME NEW v \in Writers \ outdated' PROVE WriterKnown(v)'
    <3>1. copies'[v] # NoCopy => v = w
      BY <1>3, <2>9
    <3> QED
      BY <1>1, <3>1 DEF WriterKnown
  <2> QED
    BY <1>1, <1>3, <2>7, <2>8, <2>9, Different DEF FileKnown
<1> QED
  BY <1>2, <1>8, <1>9 DEF ExtensionsInv

\* A write fails, which is told apart.
LEMMA WriteFailsKeeps ==
  ASSUME ExtensionsInv, NEW w \in Writers, WriteFails(w) PROVE ExtensionsInv'
<1>0. WritersTyped /\ ToolsTyped /\ ToolsKnown /\ ToolsFollowFile
  BY DEF ExtensionsInv
<1>1. errors' \in 0 .. MaxErrors
  BY <1>0, ExtensionsAssumption DEF WriteFails, Error, WritersTyped
<1>2. WritersTyped'
  BY <1>0, <1>1, JobEnds DEF WriteFails, WritersTyped, fileVars
<1>3. ToolsTyped' /\ ToolsKnown' /\ ToolsFollowFile' /\ lost'
  BY <1>0 DEF WriteFails, ToolsTyped, ToolsKnown, ToolsFollowFile, fileVars, toolVars
<1> QED
  BY <1>2, <1>3 DEF ExtensionsInv

\* The copy is made anew.
LEMMA ReloadKeeps ==
  ASSUME ExtensionsInv, NEW w \in Writers, Reload(w) PROVE ExtensionsInv'
<1>0. WritersTyped /\ ToolsTyped /\ ToolsKnown /\ ToolsFollowFile /\ (lost \/ FileKnown)
  BY DEF ExtensionsInv
<1>1. Read \in Config /\ Read # NoCopy /\ file # Torn
  BY <1>0, ReadKnown, Different DEF Reload
<1>2. /\ copies' \in [Writers -> Config \cup {NoCopy}] /\ copies'[w] = Read
      /\ \A v \in Writers \ {w} : copies'[v] = copies[v]
  BY <1>0, <1>1 DEF Reload, Reloaded, WritersTyped
<1>3. /\ writing' \in [Writers -> Jobs \cup {Idle}] /\ writing'[w] = Idle
      /\ \A v \in Writers \ {w} : writing'[v] = writing[v]
  BY <1>0, JobEnds DEF Reload
<1>4. WritersTyped'
  BY <1>0, <1>1, <1>2, <1>3 DEF Reload, WritersTyped, fileVars
<1>5. ToolsTyped' /\ ToolsKnown' /\ ToolsFollowFile'
  BY <1>0 DEF Reload, ToolsTyped, ToolsKnown, ToolsFollowFile, fileVars, toolVars
<1>6. lost' \/ FileKnown'
  <2> SUFFICES ASSUME ~lost PROVE FileKnown'
    BY DEF Reload
  <2>1. /\ file' = file /\ written' = written /\ updates' = updates
        /\ outdated' = outdated \ {w} /\ FileKnown
    BY <1>0 DEF Reload, fileVars
  <2>2. KeptFile' = KeptFile /\ KeptCopy' = KeptCopy
    BY <2>1 DEF KeptFile, KeptCopy, LastingExtra
  <2>3. Read = KeptCopy
    BY <1>0, <1>1, <2>1, ReadKnown DEF FileKnown, KeptFile, KeptCopy
  <2>4. ASSUME NEW v \in Writers \ outdated' PROVE WriterKnown(v)'
    <3>1. CASE v = w
      BY <1>2, <1>3, <2>2, <2>3, <3>1 DEF WriterKnown
    <3>2. CASE v # w
      <4>1. WriterKnown(v) /\ writing'[v] = writing[v] /\ copies'[v] = copies[v]
        BY <1>2, <1>3, <2>1, <2>4, <3>2 DEF FileKnown
      <4> QED
        BY <2>1, <2>2, <4>1 DEF WriterKnown, Meant
    <3> QED
      BY <3>1, <3>2
  <2> QED
    BY <1>1, <2>1, <2>2, <2>4 DEF FileKnown
<1> QED
  BY <1>4, <1>5, <1>6 DEF ExtensionsInv

\* What a writer without a current copy does with its job and its copy does not matter.
LEMMA WriterResets ==
  ASSUME ExtensionsInv, NEW w \in Writers, writing' = [writing EXCEPT ![w] = Idle],
         UNCHANGED <<file, written, updates, toolVars, mtime>>,
         w \in outdated' \/ copies'[w] = NoCopy, outdated \ {w} \subseteq outdated',
         \A v \in Writers \ {w} : copies'[v] = copies[v],
         lost' \/ (lost' = lost /\ (writing[w] = Idle \/ writing[w].step = "reload"))
  PROVE  ToolsTyped' /\ ToolsKnown' /\ ToolsFollowFile' /\ (lost' \/ FileKnown')
<1>0. WritersTyped /\ ToolsTyped /\ ToolsKnown /\ ToolsFollowFile /\ (lost \/ FileKnown)
  BY DEF ExtensionsInv
<1>1. ToolsTyped' /\ ToolsKnown' /\ ToolsFollowFile'
  BY <1>0 DEF ToolsTyped, ToolsKnown, ToolsFollowFile, toolVars
<1>2. /\ writing'[w] = Idle /\ \A v \in Writers \ {w} : writing'[v] = writing[v]
  BY <1>0, JobEnds
<1>3. ASSUME ~lost' PROVE FileKnown'
  <2>1. FileKnown
    BY <1>0, <1>3
  <2>2. file = Torn => \E v \in Writers : writing'[v] # Idle /\ writing'[v].step = "dump"
    BY <1>2, <1>3, <2>1 DEF FileKnown
  <2>3. KeptFile' = KeptFile /\ KeptCopy' = KeptCopy
    BY DEF KeptFile, KeptCopy, LastingExtra
  <2>4. ASSUME NEW v \in Writers \ outdated' PROVE WriterKnown(v)'
    <3>1. copies'[v] # NoCopy => v # w /\ v \in Writers \ outdated
      BY <2>4
    <3> QED
      BY <1>2, <2>1, <2>3, <3>1 DEF FileKnown, WriterKnown, Meant
  <2> QED
    BY <2>1, <2>2, <2>3, <2>4 DEF FileKnown
<1> QED
  BY <1>1, <1>3

\* The copy cannot be made anew: another writer has just emptied the file.
LEMMA ReloadFailsKeeps ==
  ASSUME ExtensionsInv, NEW w \in Writers, ReloadFails(w) PROVE ExtensionsInv'
<1>0. WritersTyped
  BY DEF ExtensionsInv
<1>1. WritersTyped'
  BY <1>0, JobEnds DEF ReloadFails, WritersTyped, fileVars
<1>2. ToolsTyped' /\ ToolsKnown' /\ ToolsFollowFile' /\ (lost' \/ FileKnown')
  BY WriterResets DEF ReloadFails, fileVars
<1> QED
  BY <1>1, <1>2 DEF ExtensionsInv

\* A writer is gone in the middle of a write.
LEMMA CrashWriterKeeps ==
  ASSUME ExtensionsInv, NEW w \in Writers, CrashWriter(w) PROVE ExtensionsInv'
<1>0. WritersTyped
  BY DEF ExtensionsInv
<1>1. errors' \in 0 .. MaxErrors
  BY <1>0, ExtensionsAssumption DEF CrashWriter, Error, WritersTyped
<1>2. /\ copies' \in [Writers -> Config \cup {NoCopy}] /\ copies'[w] = NoCopy
      /\ \A v \in Writers \ {w} : copies'[v] = copies[v]
  BY <1>0 DEF CrashWriter, WritersTyped
<1>3. WritersTyped'
  BY <1>0, <1>1, <1>2, JobEnds DEF CrashWriter, WritersTyped, fileVars
<1>4. ToolsTyped' /\ ToolsKnown' /\ ToolsFollowFile' /\ (lost' \/ FileKnown')
  <2>1. lost' \/ (lost' = lost /\ writing[w] = Idle)
    BY <1>0 DEF CrashWriter, WritersTyped
  <2> QED
    BY <1>2, <2>1, WriterResets DEF CrashWriter, fileVars
<1> QED
  BY <1>3, <1>4 DEF ExtensionsInv

\* The steps of a turn write nothing.
LEMMA TurnKeeps ==
  ASSUME ExtensionsInv,
         TurnWithoutFile \/ TurnCached \/ TurnInitializes \/ ReadServers \/ Connect \/ RecordTools
  PROVE  ExtensionsInv'
<1>0. WritersTyped /\ ToolsTyped /\ ToolsKnown /\ ToolsFollowFile /\ (lost \/ FileKnown)
  BY DEF ExtensionsInv
<1>1. UNCHANGED <<fileVars, writerVars>>
  BY DEF TurnWithoutFile, TurnCached, TurnInitializes, ReadServers, Connect, RecordTools
<1>2. errors' \in 0 .. MaxErrors
  <2>1. errors' = errors \/ Error
    BY DEF TurnWithoutFile, TurnCached, TurnInitializes, ReadServers, Connect, RecordTools
  <2> QED
    BY <1>0, <2>1, ExtensionsAssumption DEF Error, WritersTyped
<1>3. WritersTyped' /\ (lost' \/ FileKnown')
  BY <1>0, <1>1, <1>2 DEF WritersTyped, FileKnown, WriterKnown, Meant, KeptFile, KeptCopy, LastingExtra,
                          fileVars, writerVars
<1>4. /\ file \in Config \cup {Torn} /\ file.servers \in Versions \cup {Torn.servers}
      /\ file # Torn => file.servers \in Versions
      /\ turns' \in 0 .. MaxLoads
  <2>1. turns' = turns \/ (turns' = turns + 1 /\ turns < MaxLoads)
    BY DEF TurnWithoutFile, TurnCached, TurnInitializes, ReadServers, Connect, RecordTools
  <2>2. turns' \in 0 .. MaxLoads
    <3>1. turns \in 0 .. MaxLoads
      BY <1>0 DEF ToolsTyped
    <3> QED
      BY <2>1, <3>1, ExtensionsAssumption
  <2>3. file \in Config \cup {Torn}
    BY <1>0 DEF WritersTyped
  <2> QED
    BY <2>2, <2>3, Different
<1>5. ToolsTyped'
  <2> USE <1>0, <1>1, <1>4 DEF ToolsTyped, fileVars
  <2>0. \A t \in Versions \cup {NoTools} :
           [tools |-> t, servers |-> file.servers]
             \in [tools : Versions \cup {NoTools}, servers : Versions \cup {Torn.servers}]
    OBVIOUS
  <2>1. CASE TurnWithoutFile \/ TurnCached
    BY <2>0, <2>1 DEF TurnWithoutFile, TurnCached
  <2>2. CASE TurnInitializes
    BY <2>0, <2>2 DEF TurnInitializes
  <2>3. CASE ReadServers
    <3>1. CASE file = Torn
      BY ZenonT(30), <2>0, <2>3, <3>1 DEF ReadServers
    <3>2. CASE file # Torn
      BY <2>0, <2>3, <3>2 DEF ReadServers
    <3> QED
      BY <3>1, <3>2
  <2>4. CASE Connect
    BY <2>4 DEF Connect
  <2>5. CASE RecordTools
    BY <2>5 DEF RecordTools, WritersTyped
  <2> QED
    BY <2>1, <2>2, <2>3, <2>4, <2>5
<1>6. ToolsKnown'
  <2>0. mtime' = mtime /\ mtime \in Nat /\ file' = file /\ ToolsKnown
    BY <1>0, <1>1 DEF WritersTyped, fileVars
  <2>1. CASE TurnWithoutFile \/ TurnCached
    BY <2>0, <2>1 DEF TurnWithoutFile, TurnCached, ToolsKnown
  <2>2. CASE TurnInitializes
    BY <2>0, <2>2 DEF TurnInitializes, ToolsKnown
  <2>3. CASE ReadServers
    BY <2>0, <2>3 DEF ReadServers, ToolsKnown
  <2>4. CASE Connect
    BY <2>0, <2>4 DEF Connect, ToolsKnown
  <2>5. CASE RecordTools
    BY <2>0, <2>5 DEF RecordTools, ToolsKnown
  <2> QED
    BY <2>1, <2>2, <2>3, <2>4, <2>5
<1>7. ToolsFollowFile'
  <2>1. CASE TurnWithoutFile \/ TurnInitializes
    BY <1>0, <1>1, <2>1 DEF ToolsFollowFile, TurnWithoutFile, TurnInitializes, fileVars
  <2>2. CASE TurnCached
    <3>1. mtime = cachedAt
      <4>1. cachedAt <= mtime /\ cachedAt \in Nat /\ mtime \in Nat
        BY <1>0 DEF ToolsTyped, WritersTyped, ToolsKnown
      <4>2. ~(mtime > cachedAt)
        BY <2>2 DEF TurnCached, Stale
      <4> QED
        BY <4>1, <4>2
    <3> QED
      BY <1>0, <1>1, <2>2, <3>1 DEF ToolsFollowFile, TurnCached, fileVars
  <2>3. CASE ReadServers \/ Connect
    BY <1>0, <1>1, <2>3 DEF ToolsKnown, ToolsFollowFile, ReadServers, Connect, fileVars
  <2>4. CASE RecordTools
    BY <1>0, <1>1, <2>4 DEF ToolsKnown, ToolsFollowFile, RecordTools, fileVars
  <2> QED
    BY <2>1, <2>2, <2>3, <2>4
<1> QED
  BY <1>3, <1>5, <1>6, <1>7 DEF ExtensionsInv

\* Every step of the writers and of the turn keeps the invariant.
LEMMA ExtensionsKeep == ASSUME ExtensionsInv, [ExtensionsNext]_extensionsVars PROVE ExtensionsInv'
<1>1. CASE UNCHANGED extensionsVars
  <2> USE <1>1 DEF extensionsVars, fileVars, writerVars, toolVars
  <2>1. WritersTyped' /\ ToolsTyped'
    BY DEF ExtensionsInv, WritersTyped, ToolsTyped
  <2>2. ToolsKnown' /\ ToolsFollowFile'
    BY DEF ExtensionsInv, ToolsKnown, ToolsFollowFile
  <2>3. lost' \/ FileKnown'
    BY DEF ExtensionsInv, FileKnown, WriterKnown, Meant, KeptFile, KeptCopy, LastingExtra
  <2> QED
    BY <2>1, <2>2, <2>3 DEF ExtensionsInv
<1>2. CASE ExtensionsNext
  BY <1>2, UpdateServersKeeps, UpdateSkillKeeps, OpenFileKeeps, WriteFileKeeps, WriteFailsKeeps, ReloadKeeps, ReloadFailsKeeps,
     CrashWriterKeeps, TurnKeeps DEF ExtensionsNext
<1> QED
  BY <1>1, <1>2

\* The invariant is stronger than what it is for.
LEMMA ExtensionsImplied == ExtensionsInv => ExtensionsTypeOK /\ ExtensionsHold
<1> SUFFICES ASSUME ExtensionsInv PROVE ExtensionsTypeOK /\ ExtensionsHold
  OBVIOUS
<1>1. SavedIsKept
  <2>1. [written EXCEPT !.extra = LastingExtra] = KeptFile
    <3> DEFINE lasting == LastingExtra
    <3>1. [written EXCEPT !.extra = lasting]
            = [servers |-> written.servers, skills |-> written.skills, extra |-> lasting]
      <4> HIDE DEF lasting
      <4> QED
        BY DEF ExtensionsInv, WritersTyped, Config
    <3> QED
      BY <3>1 DEF KeptFile
  <2> QED
    BY <2>1 DEF ExtensionsInv, FileKnown, SavedIsKept
<1>2. ASSUME NEW w \in Writers, writing[w] # Idle
      PROVE  /\ writing[w].step \in {"open", "dump", "reload"} /\ writing[w].part \in Parts
             /\ writing[w].config \in Config
  BY <1>2, JobKnown DEF ExtensionsInv
<1>3. ExtensionsTypeOK
  BY <1>2 DEF ExtensionsInv, ExtensionsTypeOK, WritersTyped, ToolsTyped
<1> QED
  BY <1>1, <1>3 DEF ExtensionsInv, ExtensionsHold

\* Whatever two processes without a lock write to the extensions file, what they saved is
\* in it, and the tools of a turn are those of the servers in it, but for the gaps that
\* the properties name (extensions_config.py, mcp/cache.py, the routers).
THEOREM ToolsAndFileInStep == ExtensionsSpec => [](ExtensionsTypeOK /\ ExtensionsHold)
  BY ExtensionsInitially, ExtensionsKeep, ExtensionsImplied, PTL DEF ExtensionsSpec

-----------------------------------------------------------------------------
(***************************************************************************)
(* The teams. Whether a member counts as active is told by the points of   *)
(* its tasks and by the rows they are inserting, which no other statement  *)
(* ends. That a stream shows everything needs, for each place of its loop, *)
(* up to which stamp it has shown or passed by what there is.              *)
(***************************************************************************)

HasReported(n) == \E i \in There : mail[i].from = n /\ mail[i].kind = "report"

TeamTyped ==
    /\ team \in {"none", "row", "ready", "deleted"}
    /\ status \in [Agents -> {"absent", "active", "running", "removed"}]
    /\ mail \in Seq(Mail) /\ Len(mail) \in Nat /\ Len(mail) <= MaxMail
    /\ task \in [Spawns -> TaskStates]
    /\ todo \in [Spawns -> SUBSET Agents]
    /\ stuck \subseteq Spawns /\ overtaken \subseteq Spawns

ViewTyped ==
    /\ viewer \in {"off", "start", "poll", "check", "query", "advance", "over"}
    /\ shown \subseteq Ids /\ again \subseteq Ids
    /\ since \in 0 .. MaxMail /\ now \in 0 .. MaxMail
    /\ gaps \in [Gaps -> SUBSET Ids]

\* Before the team there is nothing.
NoneYet ==
    team = "none" =>
        (\A n \in Teammates : status[n] = "absent") /\ (\A c \in Spawns : task[c].at = "no")

\* The row a task is inserting, its own, and what it has told when its last one is to come.
RowKnown(c) ==
    LET i == task[c].row IN
    i # 0 =>
        /\ task[c].at \in {"joining", "ending", "report"}
        /\ i \in DOMAIN mail /\ mail[i].row = "inserted" /\ mail[i].kind # "chat"
        /\ task[c].at = "report" => mail[i].from = MemberOf[c] /\ mail[i].kind = "report"
RowsApart ==
    \A c, d \in Spawns : c # d /\ task[c].row # 0 => task[c].row # task[d].row
TaskKnown(c) ==
    /\ RowKnown(c)
    /\ task[c].at \in {"end", "ending"} => task[c].outcome \in {"completed", "failed"}
    /\ task[c].at = "remove" /\ Exists => HasReported(MemberOf[c])

\* What MembersHaveTasks says of a member.
Member(n) ==
    Exists =>
        /\ n \in Active => \E c \in Spawns : MemberOf[c] = n /\ (task[c].at \in Joined \/ c \in stuck)
        /\ status[n] = "removed" => HasReported(n)
        /\ n \notin Active => \A c \in Spawns : MemberOf[c] = n /\ task[c].at \in Joined => c \in overtaken

\* What a stream has passed by, and what it has shown that can come again.
PassedBy(i) ==
    \/ i \in shown \/ \E g \in Gaps \ {"twice"} : i \in gaps[g]
    \/ i \in DOMAIN mail /\ mail[i].row = "gone"
Doubled(i) == i \in gaps["twice"] \/ mail[i].row = "gone"
ViewKnown ==
    /\ viewer \in {"poll", "check", "query", "advance"} => \A i \in Ids : i <= since => PassedBy(i)
    /\ viewer = "start" => \A i \in Ids : i <= now => PassedBy(i)
    /\ viewer = "start" => \A i \in shown : i <= now
    /\ viewer = "advance" => \A i \in Ids : i <= now => PassedBy(i)
    /\ viewer \in {"poll", "check", "query"} => \A i \in shown : i > since => Doubled(i)
    /\ viewer = "advance" => \A i \in shown : i > now => Doubled(i)
    /\ viewer # "off" => \A i \in shown : i \in DOMAIN mail /\ mail[i].row # "inserted"
    /\ again \subseteq gaps["twice"]

SwarmInv ==
    /\ failures \in 0 .. MaxFailures
    /\ TeamTyped /\ ViewTyped /\ NoneYet
    /\ RowsApart /\ \A c \in Spawns : TaskKnown(c)
    /\ \A n \in Teammates : Member(n)
    /\ ViewKnown

\* The rows go on: none is taken back, and only those of K are committed or given up.
RowsGoOn(K) ==
    /\ mail' \in Seq(Mail) /\ Len(mail') \in Nat /\ Len(mail') <= MaxMail
    /\ \A i \in DOMAIN mail :
          /\ i \in DOMAIN mail' /\ mail'[i].from = mail[i].from /\ mail'[i].kind = mail[i].kind
          /\ mail[i].row # "inserted" => mail'[i].row # "inserted"
          /\ mail[i].row = "gone" => mail'[i].row = "gone"
          /\ mail[i].row = "there" /\ Exists' => mail'[i].row = "there"
          /\ i \notin K /\ mail[i].row = "inserted" => mail'[i].row = "inserted"

LEMMA RowTyped ==
  ASSUME mail \in Seq(Mail), NEW i \in DOMAIN mail
  PROVE  /\ mail[i] \in Mail
         /\ mail[i].from \in Agents \cup {System} /\ mail[i].to \in Agents /\ mail[i].kind \in Kinds
         /\ mail[i].row \in {"inserted", "there", "gone"} /\ mail[i].read \in BOOLEAN
<1>1. mail[i] \in Mail
  OBVIOUS
<1> DEFINE m == mail[i]
<1>2. m.from \in Agents \cup {System} /\ m.to \in Agents /\ m.kind \in Kinds
      /\ m.row \in {"inserted", "there", "gone"}
  BY <1>1 DEF Mail
<1>3. m.read \in BOOLEAN
  BY <1>1, Zenon DEF Mail
<1> QED
  BY <1>1, <1>2, <1>3

\* One row more.
LEMMA MailBegun ==
  ASSUME mail \in Seq(Mail), NEW from \in Agents \cup {System}, NEW to \in Agents, NEW kind \in Kinds,
         BeginInsert(from, to, kind), MaxMail \in Nat
  PROVE  /\ RowsGoOn({}) /\ Exists /\ Len(mail) + 1 \in DOMAIN mail' /\ Len(mail) + 1 \in Ids
         /\ Len(mail) + 1 \notin DOMAIN mail
         /\ mail'[Len(mail) + 1].from = from /\ mail'[Len(mail) + 1].kind = kind
         /\ mail'[Len(mail) + 1].row = "inserted"
<1> DEFINE row == [from |-> from, to |-> to, kind |-> kind, row |-> "inserted", read |-> FALSE]
<1>1. row \in Mail /\ row.from = from /\ row.kind = kind /\ row.row = "inserted"
  BY DEF Mail
<1> HIDE DEF row
<1>2. mail' = Append(mail, row) /\ Exists /\ Len(mail) < MaxMail
  BY DEF BeginInsert, row
<1>3. /\ mail' \in Seq(Mail) /\ Len(mail') = Len(mail) + 1 /\ Len(mail) \in Nat
      /\ mail'[Len(mail) + 1] = row /\ DOMAIN mail' = 1 .. Len(mail) + 1 /\ DOMAIN mail = 1 .. Len(mail)
      /\ \A i \in 1 .. Len(mail) : mail'[i] = mail[i]
  BY <1>1, <1>2
<1>4. Len(mail) + 1 \in DOMAIN mail' /\ Len(mail) + 1 \in Ids /\ Len(mail) + 1 \notin DOMAIN mail
      /\ Len(mail') \in Nat /\ Len(mail') <= MaxMail
  BY <1>2, <1>3 DEF Ids
<1>5. \A i \in DOMAIN mail : i \in DOMAIN mail' /\ mail'[i] = mail[i]
  BY <1>3
<1>6. RowsGoOn({})
  BY <1>3, <1>4, <1>5 DEF RowsGoOn
<1> QED
  BY <1>1, <1>2, <1>3, <1>4, <1>6

\* A row is committed or given up.
LEMMA MailSet ==
  ASSUME mail \in Seq(Mail), Len(mail) \in Nat, Len(mail) <= MaxMail,
         NEW i \in DOMAIN mail, NEW row \in {"there", "gone"}, mail[i].row = "inserted", SetRow(i, row)
  PROVE  RowsGoOn({i}) /\ mail'[i].row = row /\ mail'[i].from = mail[i].from /\ mail'[i].kind = mail[i].kind
<1> DEFINE new == [from |-> mail[i].from, to |-> mail[i].to, kind |-> mail[i].kind, row |-> row,
                   read |-> mail[i].read]
<1>1. new \in Mail /\ new.from = mail[i].from /\ new.kind = mail[i].kind /\ new.row = row
  BY RowTyped DEF Mail
<1>2. mail' = [mail EXCEPT ![i] = new]
  <2>1. [mail[i] EXCEPT !.row = row] = new
    <3>1. mail[i] \in Mail
      OBVIOUS
    <3> QED
      BY <3>1 DEF Mail
  <2> QED
    BY <2>1 DEF SetRow
<1> HIDE DEF new
<1>3. mail' \in Seq(Mail) /\ Len(mail') = Len(mail) /\ DOMAIN mail' = DOMAIN mail
      /\ mail'[i] = new /\ \A j \in DOMAIN mail \ {i} : mail'[j] = mail[j]
  BY <1>1, <1>2
<1>4. RowsGoOn({i})
  BY <1>1, <1>3 DEF RowsGoOn
<1> QED
  BY <1>1, <1>3, <1>4

\* Rows that are marked read.
LEMMA MailMarked ==
  ASSUME mail \in Seq(Mail), Len(mail) \in Nat, Len(mail) <= MaxMail, NEW S,
         mail' = [i \in DOMAIN mail |-> IF i \in S THEN [mail[i] EXCEPT !.read = TRUE] ELSE mail[i]]
  PROVE  RowsGoOn({})
<1>1. \A i \in DOMAIN mail : mail[i] \in Mail
  OBVIOUS
<1>2. \A i \in DOMAIN mail : [mail[i] EXCEPT !.read = TRUE] \in Mail
      /\ [mail[i] EXCEPT !.read = TRUE].from = mail[i].from /\ [mail[i] EXCEPT !.read = TRUE].kind = mail[i].kind
      /\ [mail[i] EXCEPT !.read = TRUE].row = mail[i].row
  BY <1>1 DEF Mail
<1>3. \A i \in DOMAIN mail : mail'[i] \in Mail /\ mail'[i].from = mail[i].from /\ mail'[i].kind = mail[i].kind
                             /\ mail'[i].row = mail[i].row
  BY <1>1, <1>2
<1>4. DOMAIN mail' = 1 .. Len(mail) /\ DOMAIN mail = 1 .. Len(mail)
  OBVIOUS
<1>5. mail' \in [1 .. Len(mail) -> Mail]
  BY <1>3, <1>4
<1>6. mail' \in Seq(Mail) /\ Len(mail') = Len(mail)
  BY <1>4, <1>5
<1> QED
  BY <1>3, <1>4, <1>6 DEF RowsGoOn

\* Rows that are deleted with the team.
LEMMA MailDeleted ==
  ASSUME TeamTyped, DeleteTeam PROVE RowsGoOn({}) /\ ~Exists'
<1> DEFINE stripped(i) == [mail[i] EXCEPT !.row = "gone"]
<1>1. \A i \in DOMAIN mail : mail[i] \in Mail
  BY DEF TeamTyped
<1>2. \A i \in DOMAIN mail : stripped(i) \in Mail
      /\ stripped(i).from = mail[i].from /\ stripped(i).kind = mail[i].kind /\ stripped(i).row = "gone"
  BY <1>1 DEF Mail
<1> HIDE DEF stripped
<1>3. mail' = [i \in DOMAIN mail |-> IF i \in There THEN stripped(i) ELSE mail[i]] /\ ~Exists'
  BY DEF DeleteTeam, Exists, stripped
<1>4. \A i \in DOMAIN mail : mail'[i] \in Mail /\ mail'[i].from = mail[i].from /\ mail'[i].kind = mail[i].kind
                             /\ mail'[i].row = IF mail[i].row = "there" THEN "gone" ELSE mail[i].row
  BY <1>1, <1>2, <1>3 DEF There
<1>5. DOMAIN mail' = 1 .. Len(mail) /\ DOMAIN mail = 1 .. Len(mail) /\ Len(mail) \in Nat
  BY <1>3 DEF TeamTyped
<1>6. mail' \in [1 .. Len(mail) -> Mail]
  BY <1>3, <1>4, <1>5
<1>7. mail' \in Seq(Mail) /\ Len(mail') = Len(mail)
  BY <1>5, <1>6
<1> QED
  BY <1>3, <1>4, <1>5, <1>7 DEF RowsGoOn, TeamTyped

\* They stay as they are.
LEMMA MailStays ==
  ASSUME TeamTyped, mail' = mail PROVE RowsGoOn({})
BY DEF TeamTyped, RowsGoOn

\* A report stays there as long as the team does.
LEMMA ReportStays ==
  ASSUME NEW K, RowsGoOn(K), Exists', NEW n, HasReported(n) PROVE HasReported(n)'
<1>1. PICK i \in DOMAIN mail : mail[i].row = "there" /\ mail[i].from = n /\ mail[i].kind = "report"
  BY DEF HasReported, There
<1>2. i \in DOMAIN mail' /\ mail'[i].row = "there" /\ mail'[i].from = n /\ mail'[i].kind = "report"
  BY <1>1 DEF RowsGoOn
<1>3. i \in There'
  BY <1>2 DEF There
<1> QED
  BY <1>2, <1>3 DEF HasReported

\* What a stream has shown stays so while the rows go on.
LEMMA ViewStays ==
  ASSUME SwarmInv, UNCHANGED viewVars, NEW K, RowsGoOn(K)
  PROVE  ViewTyped' /\ ViewKnown'
<1>1. ViewTyped /\ ViewKnown
  BY DEF SwarmInv
<1>2. ViewTyped'
  BY <1>1 DEF ViewTyped, viewVars
<1>3. ASSUME NEW i, PassedBy(i) PROVE PassedBy(i)'
  BY <1>3 DEF PassedBy, viewVars, RowsGoOn
<1>4. viewer # "off" => \A i \in shown : i \in DOMAIN mail' /\ mail'[i].row # "inserted"
  BY <1>1 DEF ViewKnown, RowsGoOn
<1>5. viewer # "off" => \A i \in shown : Doubled(i) => Doubled(i)'
  BY <1>1 DEF ViewKnown, RowsGoOn, Doubled, viewVars
<1>6. viewer' = viewer /\ shown' = shown /\ again' = again /\ since' = since /\ now' = now /\ gaps' = gaps
  BY DEF viewVars
<1>7. /\ viewer \in {"poll", "check", "query", "advance"} => \A i \in Ids : i <= since => PassedBy(i)'
      /\ viewer = "start" => \A i \in Ids : i <= now => PassedBy(i)'
      /\ viewer = "advance" => \A i \in Ids : i <= now => PassedBy(i)'
  BY <1>1, <1>3 DEF ViewKnown
<1>8. /\ viewer \in {"poll", "check", "query"} => \A i \in shown : i > since => Doubled(i)'
      /\ viewer = "advance" => \A i \in shown : i > now => Doubled(i)'
  BY <1>1, <1>5 DEF ViewKnown
<1>9. (viewer = "start" => \A i \in shown : i <= now) /\ again \subseteq gaps["twice"]
  BY <1>1 DEF ViewKnown
<1>10. ViewKnown'
  BY <1>4, <1>6, <1>7, <1>8, <1>9 DEF ViewKnown
<1> QED
  BY <1>2, <1>10

\* A task's next state.
LEMMA TaskSet ==
  ASSUME TeamTyped, NEW c \in Spawns, NEW new \in TaskStates, task' = [task EXCEPT ![c] = new]
  PROVE  /\ task' \in [Spawns -> TaskStates] /\ task'[c] = new
         /\ \A d \in Spawns \ {c} : task'[d] = task[d]
  BY DEF TeamTyped

LEMMA TaskFields ==
  ASSUME TeamTyped, NEW c \in Spawns
  PROVE  task[c].at \in TaskPoints /\ task[c].outcome \in {"none", "completed", "failed"}
         /\ task[c].row \in Ids \cup {0}
<1>1. task[c] \in TaskStates
  BY DEF TeamTyped
<1> QED
  BY <1>1 DEF TaskStates

LEMMA TaskGoesTo ==
  ASSUME TeamTyped, NEW c \in Spawns, NEW place \in TaskPoints, GoTo(c, place)
  PROVE  /\ task' \in [Spawns -> TaskStates] /\ \A d \in Spawns \ {c} : task'[d] = task[d]
         /\ task'[c].at = place /\ task'[c].outcome = task[c].outcome /\ task'[c].row = task[c].row
<1> DEFINE new == [at |-> place, outcome |-> task[c].outcome, row |-> task[c].row]
<1>1. new \in TaskStates /\ new.at = place /\ new.outcome = task[c].outcome /\ new.row = task[c].row
  BY TaskFields DEF TaskStates
<1>2. task' = [task EXCEPT ![c] = new]
  <2>1. [task[c] EXCEPT !.at = place] = new
    <3>1. task[c] \in TaskStates
      BY DEF TeamTyped
    <3> QED
      BY <3>1 DEF TaskStates
  <2> QED
    BY <2>1 DEF GoTo
<1> HIDE DEF new
<1> QED
  BY <1>1, <1>2, TaskSet

LEMMA TaskInserts ==
  ASSUME TeamTyped, NEW c \in Spawns, NEW i \in Ids, Inserting(c, i)
  PROVE  /\ task' \in [Spawns -> TaskStates] /\ \A d \in Spawns \ {c} : task'[d] = task[d]
         /\ task'[c].at = task[c].at /\ task'[c].outcome = task[c].outcome /\ task'[c].row = i
<1> DEFINE new == [at |-> task[c].at, outcome |-> task[c].outcome, row |-> i]
<1>1. new \in TaskStates /\ new.at = task[c].at /\ new.outcome = task[c].outcome /\ new.row = i
  BY TaskFields DEF TaskStates
<1>2. task' = [task EXCEPT ![c] = new]
  <2>1. [task[c] EXCEPT !.row = i] = new
    <3>1. task[c] \in TaskStates
      BY DEF TeamTyped
    <3> QED
      BY <3>1 DEF TaskStates
  <2> QED
    BY <2>1 DEF Inserting
<1> HIDE DEF new
<1> QED
  BY <1>1, <1>2, TaskSet

LEMMA TaskEndsRow ==
  ASSUME TeamTyped, NEW c \in Spawns, NEW place \in TaskPoints, NEW outcome \in {"none", "completed", "failed"},
         task' = [task EXCEPT ![c] = [at |-> place, outcome |-> outcome, row |-> 0]]
  PROVE  /\ task' \in [Spawns -> TaskStates] /\ \A d \in Spawns \ {c} : task'[d] = task[d]
         /\ task'[c].at = place /\ task'[c].outcome = outcome /\ task'[c].row = 0
<1> DEFINE new == [at |-> place, outcome |-> outcome, row |-> 0]
<1>1. new \in TaskStates /\ new.at = place /\ new.outcome = outcome /\ new.row = 0
  BY DEF TaskStates
<1>2. task' = [task EXCEPT ![c] = new]
  OBVIOUS
<1> HIDE DEF new
<1> QED
  BY <1>1, <1>2, TaskSet

\* A statement may use up a failure.
LEMMA FailuresBounded ==
  ASSUME failures \in 0 .. MaxFailures, Fail \/ UNCHANGED failures PROVE failures' \in 0 .. MaxFailures
  BY SwarmAssumption DEF Fail

\* What is known of another task.
LEMMA TaskStays ==
  ASSUME NEW c \in Spawns, TaskKnown(c), task'[c] = task[c], NEW K, RowsGoOn(K), task[c].row \notin K,
         Exists' => Exists
  PROVE  TaskKnown(c)'
<1>1. RowKnown(c)'
  BY DEF TaskKnown, RowKnown, RowsGoOn
<1>2. task'[c].at = "remove" /\ Exists' => HasReported(MemberOf[c])'
  <2>1. MemberOf[c]' = MemberOf[c]
    OBVIOUS
  <2> DEFINE n == MemberOf[c]
  <2>2. n = MemberOf[c]
    OBVIOUS
  <2> HIDE DEF n
  <2>3. HasReported(n) /\ Exists' => HasReported(n)'
    BY ReportStays
  <2> QED
    BY <2>2, <2>3 DEF TaskKnown
<1> QED
  BY <1>1, <1>2 DEF TaskKnown

\* What is known of a member of another name.
LEMMA MemberStays ==
  ASSUME NEW n \in Teammates, Member(n), Exists' => Exists, status'[n] = status[n], n \in Agents,
         NEW K, RowsGoOn(K),
         \A c \in Spawns : MemberOf[c] = n =>
             /\ task[c].at \in Joined => task'[c].at \in Joined \/ c \in stuck'
             /\ task'[c].at \in Joined => task[c].at \in Joined
             /\ c \in stuck => c \in stuck'
             /\ c \in overtaken => c \in overtaken'
  PROVE  Member(n)'
<1> SUFFICES ASSUME Exists' PROVE Member(n)'
  BY DEF Member
<1>1. n \in Active' <=> n \in Active
  BY DEF Active
<1>2. n \in Active => \E c \in Spawns : MemberOf[c] = n /\ (task'[c].at \in Joined \/ c \in stuck')
  BY DEF Member
<1>3. status[n] = "removed" => HasReported(n)'
  BY ReportStays DEF Member
<1>4. n \notin Active => \A c \in Spawns : MemberOf[c] = n /\ task'[c].at \in Joined => c \in overtaken'
  BY DEF Member
<1> QED
  BY <1>1, <1>2, <1>3, <1>4 DEF Member

\* A step of a task keeps what is known when it keeps it of the task itself and of the
\* member of its name.
LEMMA TaskStepKeeps ==
  ASSUME SwarmInv, NEW c \in Spawns, NEW K,
         team' = team, team # "none", UNCHANGED viewVars, failures' \in 0 .. MaxFailures,
         RowsGoOn(K), \A d \in Spawns \ {c} : task[d].row \notin K,
         status' \in [Agents -> {"absent", "active", "running", "removed"}],
         \A n \in Teammates \ {MemberOf[c]} : status'[n] = status[n],
         task' \in [Spawns -> TaskStates], \A d \in Spawns \ {c} : task'[d] = task[d],
         todo' \in [Spawns -> SUBSET Agents], stuck' \subseteq Spawns, overtaken' \subseteq Spawns,
         \A d \in Spawns : MemberOf[d] # MemberOf[c] =>
             (d \in stuck => d \in stuck') /\ (d \in overtaken => d \in overtaken'),
         task'[c].row # 0 => task'[c].row = task[c].row \/ task'[c].row \notin DOMAIN mail,
         TaskKnown(c)', Member(MemberOf[c])'
  PROVE  SwarmInv'
<1>0. MemberOf[c] \in Teammates /\ Teammates \subseteq Agents
  BY SwarmAssumption DEF Agents
<1>1. TeamTyped'
  BY DEF SwarmInv, TeamTyped, RowsGoOn
<1>2. NoneYet'
  BY DEF NoneYet
<1>3. Exists' => Exists
  BY DEF Exists
<1>4. \A d \in Spawns : TaskKnown(d)'
  <2>1. ASSUME NEW d \in Spawns \ {c} PROVE TaskKnown(d)'
    <3>1. TaskKnown(d) /\ task'[d] = task[d] /\ task[d].row \notin K
      BY DEF SwarmInv
    <3> QED
      BY <1>3, <3>1, TaskStays
  <2> QED
    BY <2>1
<1>5. RowsApart'
  <2>1. ASSUME NEW d \in Spawns \ {c}, task[d].row # 0 PROVE task[d].row # task'[c].row
    <3>1. task[d].row \in DOMAIN mail /\ task[d].row # task[c].row
      BY <2>1 DEF SwarmInv, TaskKnown, RowKnown, RowsApart
    <3> QED
      BY <2>1, <3>1
  <2>2. ASSUME NEW d \in Spawns, NEW e \in Spawns, d # e, task'[d].row # 0 PROVE task'[d].row # task'[e].row
    <3>1. CASE d = c
      <4>1. task'[e] = task[e]
        BY <2>2, <3>1
      <4> QED
        BY <2>1, <2>2, <3>1, <4>1
    <3>2. CASE e = c
      <4>1. task'[d] = task[d]
        BY <2>2, <3>2
      <4> QED
        BY <2>1, <2>2, <3>2, <4>1
    <3>3. CASE d # c /\ e # c
      <4>1. task'[d] = task[d] /\ task'[e] = task[e]
        BY <3>3
      <4> QED
        BY <2>2, <4>1 DEF SwarmInv, RowsApart
    <3> QED
      BY <3>1, <3>2, <3>3
  <2> QED
    BY <2>2 DEF RowsApart
<1>6. ASSUME NEW n \in Teammates PROVE Member(n)'
  <2>1. CASE n = MemberOf[c]
    BY <2>1
  <2>2. CASE n # MemberOf[c]
    <3>1. \A d \in Spawns : MemberOf[d] = n =>
             task'[d] = task[d] /\ (d \in stuck => d \in stuck') /\ (d \in overtaken => d \in overtaken')
      BY <2>2
    <3>2. Member(n) /\ status'[n] = status[n] /\ n \in Agents
      BY <1>0, <2>2 DEF SwarmInv
    <3> QED
      BY <1>3, <3>1, <3>2, MemberStays
  <2> QED
    BY <2>1, <2>2
<1>7. ViewTyped' /\ ViewKnown'
  BY ViewStays
<1> QED
  BY <1>1, <1>2, <1>4, <1>5, <1>6, <1>7 DEF SwarmInv

\* What is known of a member while a task of its name goes on.
LEMMA MemberGoesOn ==
  ASSUME SwarmInv, NEW c \in Spawns, team' = team, status' = status, NEW K, RowsGoOn(K),
         \A d \in Spawns \ {c} : task'[d] = task[d],
         task[c].at \in Joined => task'[c].at \in Joined \/ c \in stuck',
         task'[c].at \in Joined => task[c].at \in Joined,
         stuck \subseteq stuck', overtaken \subseteq overtaken'
  PROVE  Member(MemberOf[c])'
<1> DEFINE n == MemberOf[c]
<1>1. n \in Teammates /\ n \in Agents /\ Member(n)
  BY SwarmAssumption DEF SwarmInv, Agents
<1>2. n = MemberOf[c]
  OBVIOUS
<1> HIDE DEF n
<1>3. \A d \in Spawns : MemberOf[d] = n =>
             /\ task[d].at \in Joined => task'[d].at \in Joined \/ d \in stuck'
             /\ task'[d].at \in Joined => task[d].at \in Joined
             /\ d \in stuck => d \in stuck'
             /\ d \in overtaken => d \in overtaken'
  OBVIOUS
<1>4. Member(n)'
  BY <1>1, <1>3, MemberStays DEF Exists
<1> QED
  BY <1>2, <1>4

\* A task that is under way has a team.
LEMMA TaskHasTeam ==
  ASSUME SwarmInv, NEW c \in Spawns, task[c].at # "no" PROVE team # "none"
  BY DEF SwarmInv, NoneYet

\* A task is started.
LEMMA StartTaskKeeps ==
  ASSUME SwarmInv, NEW c \in Spawns, StartTask(c) PROVE SwarmInv'
<1>0. TeamTyped /\ failures \in 0 .. MaxFailures /\ TaskKnown(c) /\ task[c].at = "no" /\ team # "none"
  BY DEF SwarmInv, StartTask, At, Exists
<1>1. /\ task' \in [Spawns -> TaskStates] /\ \A d \in Spawns \ {c} : task'[d] = task[d]
      /\ task'[c].at = "upsert" /\ task'[c].row = task[c].row
  BY <1>0, TaskGoesTo DEF StartTask, TaskPoints
<1>2. UNCHANGED <<team, status, mail, todo, stuck, overtaken, failures, viewVars>>
  BY DEF StartTask, teamVars
<1>3. RowsGoOn({})
  BY <1>0, <1>2, MailStays
<1>4. TaskKnown(c)'
  BY <1>0, <1>1 DEF TaskKnown, RowKnown
<1>5. Member(MemberOf[c])'
  BY <1>0, <1>1, <1>2, <1>3, MemberGoesOn DEF Joined
<1> QED
  BY <1>0, <1>1, <1>2, <1>3, <1>4, <1>5, TaskStepKeeps DEF TeamTyped

\* Its first row: the member counts as active, and has a task.
LEMMA RegisterKeeps ==
  ASSUME SwarmInv, NEW c \in Spawns, Register(c) PROVE SwarmInv'
<1>0. TeamTyped /\ failures \in 0 .. MaxFailures /\ TaskKnown(c) /\ task[c].at = "upsert" /\ team # "none"
  BY DEF SwarmInv, Register, At, Exists
<1>1. /\ task' \in [Spawns -> TaskStates] /\ \A d \in Spawns \ {c} : task'[d] = task[d]
      /\ task'[c].at = "join" /\ task'[c].row = task[c].row
  BY <1>0, TaskGoesTo DEF Register, TaskPoints, Joined
<1>2. UNCHANGED <<team, mail, todo, stuck, overtaken, failures, viewVars>>
  BY DEF Register
<1>3. RowsGoOn({})
  BY <1>0, <1>2, MailStays
<1>4. TaskKnown(c)'
  BY <1>0, <1>1 DEF TaskKnown, RowKnown
<1>5. /\ status' \in [Agents -> {"absent", "active", "running", "removed"}]
      /\ status'[MemberOf[c]] \in {"active", "running"} /\ MemberOf[c] \in Agents
      /\ \A n \in Teammates \ {MemberOf[c]} : status'[n] = status[n]
  <2>1. MemberOf[c] \in Agents /\ Teammates \subseteq Agents
    BY SwarmAssumption DEF Agents
  <2>2. status' = [status EXCEPT ![MemberOf[c]] = IF status[MemberOf[c]] = "absent" THEN "active" ELSE "running"]
    BY DEF Register
  <2> QED
    BY <1>0, <2>1, <2>2 DEF TeamTyped
<1>6. Member(MemberOf[c])'
  <2>1. MemberOf[c] \in Active' /\ status'[MemberOf[c]] # "removed"
    BY <1>5 DEF Active
  <2>2. task'[c].at \in Joined
    BY <1>1 DEF Joined
  <2> QED
    BY <2>1, <2>2 DEF Member
<1> QED
  BY <1>0, <1>1, <1>2, <1>3, <1>4, <1>5, <1>6, TaskStepKeeps DEF TeamTyped

\* The steps of a broadcast, but for its rows, and the end of a run.
LEMMA PointKeeps ==
  ASSUME SwarmInv, NEW c \in Spawns,
         \/ SelectRecipients(c) \/ BroadcastDone(c)
         \/ TaskEnds(c, "completed") \/ TaskEnds(c, "failed")
  PROVE  SwarmInv'
<1>0. TeamTyped /\ failures \in 0 .. MaxFailures /\ TaskKnown(c)
  BY DEF SwarmInv
<1>1. /\ task' \in [Spawns -> TaskStates]
      /\ \A d \in Spawns \ {c} : task'[d] = task[d]
      /\ task[c].at \in {"join", "joining", "run", "end", "ending"}
      /\ task'[c].at \in {"joining", "ending", "run", "report", "end"}
      /\ task'[c].at \in {"end", "ending"} => task'[c].outcome \in {"completed", "failed"}
      /\ task'[c].row = 0
  <2>1. CASE SelectRecipients(c)
    <3>1. GoTo(c, IF At(c, "join") THEN "joining" ELSE "ending")
          /\ (IF At(c, "join") THEN "joining" ELSE "ending") \in TaskPoints
      BY <2>1 DEF SelectRecipients, TaskPoints, Joined
    <3>2. task[c].at = "join" \/ task[c].at = "end"
      BY <2>1 DEF SelectRecipients
    <3>3. task[c].row = 0
      BY <1>0, <3>2 DEF TaskKnown, RowKnown
    <3> QED
      BY <1>0, <3>1, <3>2, <3>3, TaskGoesTo DEF TaskKnown, At
  <2>2. CASE BroadcastDone(c)
    <3>1. GoTo(c, IF At(c, "joining") THEN "run" ELSE "report")
          /\ (IF At(c, "joining") THEN "run" ELSE "report") \in TaskPoints
          /\ task[c].row = 0 /\ task[c].at \in {"joining", "ending"}
      BY <2>2 DEF BroadcastDone, TaskPoints, Joined
    <3> QED
      BY <1>0, <3>1, TaskGoesTo
  <2>3. ASSUME NEW outcome \in {"completed", "failed"}, TaskEnds(c, outcome)
        PROVE  /\ task' \in [Spawns -> TaskStates]
               /\ \A d \in Spawns \ {c} : task'[d] = task[d]
               /\ task[c].at = "run"
               /\ task'[c].at = "end" /\ task'[c].outcome = outcome /\ task'[c].row = 0
    BY <1>0, <2>3, TaskEndsRow DEF TaskEnds, TaskPoints, Joined, At
  <2> QED
    BY <2>1, <2>2, <2>3
<1>2. UNCHANGED <<team, status, mail, stuck, overtaken, failures, viewVars>>
  BY DEF SelectRecipients, BroadcastDone, TaskEnds, teamVars
<1>3. todo' \in [Spawns -> SUBSET Agents]
  BY <1>0 DEF SelectRecipients, BroadcastDone, TaskEnds, Recipients, Active, TeamTyped
<1>4. RowsGoOn({})
  BY <1>0, <1>2, MailStays
<1>5. TaskKnown(c)'
  BY <1>1 DEF TaskKnown, RowKnown
<1>6. Member(MemberOf[c])'
  BY <1>1, <1>2, <1>4, MemberGoesOn DEF Joined
<1>7. team # "none"
  BY <1>1, TaskHasTeam
<1> QED
  BY <1>0, <1>1, <1>2, <1>3, <1>4, <1>5, <1>6, <1>7, TaskStepKeeps DEF TeamTyped

\* A row of a broadcast, or the report, begins.
LEMMA InsertKeeps ==
  ASSUME SwarmInv, NEW c \in Spawns, Broadcast(c) \/ Report(c) PROVE SwarmInv'
<1>0. TeamTyped /\ failures \in 0 .. MaxFailures /\ TaskKnown(c) /\ MaxMail \in Nat
  BY SwarmAssumption DEF SwarmInv
<1>1. UNCHANGED <<team, status, stuck, overtaken, failures, viewVars>> /\ Inserting(c, Len(mail) + 1)
      /\ task[c].at \in {"joining", "ending", "report"}
  BY DEF Broadcast, Report, At
<1>2. /\ RowsGoOn({}) /\ Len(mail) + 1 \in DOMAIN mail' /\ Len(mail) + 1 \in Ids
      /\ Len(mail) + 1 \notin DOMAIN mail
      /\ mail'[Len(mail) + 1].kind # "chat" /\ mail'[Len(mail) + 1].row = "inserted"
      /\ task[c].at = "report" => mail'[Len(mail) + 1].from = MemberOf[c] /\ mail'[Len(mail) + 1].kind = "report"
      /\ todo' \in [Spawns -> SUBSET Agents]
  <2>1. CASE Broadcast(c)
    <3>1. PICK a \in todo[c] :
             /\ BeginInsert(System, a, IF At(c, "joining") THEN "joined" ELSE task[c].outcome)
             /\ todo' = [todo EXCEPT ![c] = @ \ {a}]
      BY <2>1 DEF Broadcast
    <3> DEFINE kind == IF At(c, "joining") THEN "joined" ELSE task[c].outcome
    <3>2. kind \in Kinds /\ kind # "chat" /\ task[c].at # "report"
      BY <1>0, <2>1 DEF Broadcast, TaskKnown, Kinds, At
    <3>3. BeginInsert(System, a, kind)
      BY <3>1
    <3> HIDE DEF kind
    <3>4. a \in Agents /\ todo' \in [Spawns -> SUBSET Agents]
      BY <1>0, <3>1 DEF TeamTyped
    <3> QED
      BY <1>0, <3>2, <3>3, <3>4, MailBegun DEF TeamTyped
  <2>2. CASE Report(c)
    <3>1. BeginInsert(MemberOf[c], Lead, "report") /\ todo' = todo
      BY <2>2 DEF Report
    <3>2. MemberOf[c] \in Agents /\ Lead \in Agents /\ "report" \in Kinds
      BY SwarmAssumption DEF Agents, Kinds
    <3> QED
      BY <1>0, <3>1, <3>2, MailBegun DEF TeamTyped
  <2> QED
    BY <2>1, <2>2
<1> DEFINE i == Len(mail) + 1
<1>3. /\ RowsGoOn({}) /\ i \in DOMAIN mail' /\ i \in Ids /\ i \notin DOMAIN mail /\ i # 0
      /\ mail'[i].kind # "chat" /\ mail'[i].row = "inserted"
      /\ task[c].at = "report" => mail'[i].from = MemberOf[c] /\ mail'[i].kind = "report"
      /\ todo' \in [Spawns -> SUBSET Agents]
      /\ Inserting(c, i)
  BY <1>1, <1>2 DEF Ids
<1> HIDE DEF i
<1>4. /\ task' \in [Spawns -> TaskStates] /\ \A d \in Spawns \ {c} : task'[d] = task[d]
      /\ task'[c].at = task[c].at /\ task'[c].outcome = task[c].outcome /\ task'[c].row = i
  BY <1>0, <1>3, TaskInserts
<1>5. TaskKnown(c)'
  BY <1>0, <1>1, <1>3, <1>4 DEF TaskKnown, RowKnown
<1>6. Member(MemberOf[c])'
  BY <1>1, <1>3, <1>4, MemberGoesOn
<1>7. team # "none"
  BY <1>1, TaskHasTeam
<1> QED
  BY <1>0, <1>1, <1>3, <1>4, <1>5, <1>6, <1>7, TaskStepKeeps DEF TeamTyped

\* A row that a task is inserting ends, one way or another.
LEMMA RowEnds ==
  ASSUME SwarmInv, NEW c \in Spawns, task[c].row # 0, NEW row \in {"there", "gone"}, SetRow(task[c].row, row)
  PROVE  /\ RowsGoOn({task[c].row}) /\ \A d \in Spawns \ {c} : task[d].row \notin {task[c].row}
         /\ mail'[task[c].row].row = row /\ task[c].row \in DOMAIN mail'
         /\ task[c].at = "report" =>
               mail'[task[c].row].from = MemberOf[c] /\ mail'[task[c].row].kind = "report"
<1> DEFINE i == task[c].row
<1>1. /\ i \in DOMAIN mail /\ mail[i].row = "inserted"
      /\ task[c].at = "report" => mail[i].from = MemberOf[c] /\ mail[i].kind = "report"
      /\ \A d \in Spawns \ {c} : task[d].row # i
      /\ mail \in Seq(Mail) /\ Len(mail) \in Nat /\ Len(mail) <= MaxMail /\ SetRow(i, row)
  BY DEF SwarmInv, TaskKnown, RowKnown, RowsApart, TeamTyped
<1>2. i = task[c].row
  OBVIOUS
<1> HIDE DEF i
<1>3. RowsGoOn({i}) /\ mail'[i].row = row /\ mail'[i].from = mail[i].from /\ mail'[i].kind = mail[i].kind
  BY <1>1, MailSet
<1>4. i \in DOMAIN mail'
  BY <1>1, <1>3 DEF RowsGoOn
<1>5. RowsGoOn({task[c].row})
  BY <1>2, <1>3
<1> QED
  BY <1>1, <1>2, <1>3, <1>4, <1>5

\* An insert commits: the task goes on, and after the report it is known to have reported.
LEMMA InsertEndsKeeps ==
  ASSUME SwarmInv, NEW c \in Spawns, InsertEnds(c) PROVE SwarmInv'
<1>0. TeamTyped /\ failures \in 0 .. MaxFailures /\ TaskKnown(c)
  BY DEF SwarmInv
<1> DEFINE place == IF At(c, "report") THEN "remove" ELSE task[c].at
<1>1. /\ task[c].row # 0 /\ SetRow(task[c].row, "there") /\ Exists
      /\ task' = [task EXCEPT ![c] = [at |-> place, outcome |-> task[c].outcome, row |-> 0]]
      /\ UNCHANGED <<team, status, todo, stuck, overtaken, failures, viewVars>>
  BY DEF InsertEnds, Commit
<1>2. task[c].at \in {"joining", "ending", "report"}
  BY <1>0, <1>1 DEF TaskKnown, RowKnown
<1>3. /\ place \in TaskPoints /\ place \in Joined
      /\ place = "remove" => task[c].at = "report"
      /\ place # "remove" => place = task[c].at
  BY <1>2 DEF At, TaskPoints, Joined
<1>4. task[c].outcome \in {"none", "completed", "failed"}
  BY <1>0, TaskFields
<1> HIDE DEF place
<1>5. /\ task' \in [Spawns -> TaskStates] /\ \A d \in Spawns \ {c} : task'[d] = task[d]
      /\ task'[c].at = place /\ task'[c].outcome = task[c].outcome /\ task'[c].row = 0
  BY <1>0, <1>1, <1>3, <1>4, TaskEndsRow
<1> DEFINE K == {task[c].row}
<1>6. /\ RowsGoOn(K) /\ \A d \in Spawns \ {c} : task[d].row \notin K
      /\ mail'[task[c].row].row = "there" /\ task[c].row \in DOMAIN mail'
      /\ task[c].at = "report" =>
            mail'[task[c].row].from = MemberOf[c] /\ mail'[task[c].row].kind = "report"
  BY <1>1, RowEnds
<1> HIDE DEF K
<1>7. task[c].at = "report" => HasReported(MemberOf[c])'
  <2>1. task[c].row \in There'
    BY <1>6 DEF There
  <2> QED
    BY <1>6, <2>1 DEF HasReported
<1>8. TaskKnown(c)'
  BY <1>0, <1>2, <1>3, <1>5, <1>7 DEF TaskKnown, RowKnown
<1>9. Member(MemberOf[c])'
  BY <1>1, <1>2, <1>3, <1>5, <1>6, MemberGoesOn DEF Joined
<1>10. team # "none"
  BY <1>1 DEF Exists
<1> QED
  BY <1>0, <1>1, <1>5, <1>6, <1>8, <1>9, <1>10, TaskStepKeeps DEF TeamTyped

\* The member is removed: its report is there, and every other task of its name that goes
\* on has been overtaken.
LEMMA RemoveMemberKeeps ==
  ASSUME SwarmInv, NEW c \in Spawns, RemoveMember(c) PROVE SwarmInv'
<1>0. TeamTyped /\ failures \in 0 .. MaxFailures /\ TaskKnown(c) /\ task[c].at = "remove"
  BY DEF SwarmInv, RemoveMember, At
<1>1. /\ task' \in [Spawns -> TaskStates] /\ \A d \in Spawns \ {c} : task'[d] = task[d]
      /\ task'[c].at = "over" /\ task'[c].row = task[c].row
  BY <1>0, TaskGoesTo DEF RemoveMember, TaskPoints
<1>2. UNCHANGED <<team, mail, todo, failures, viewVars>>
  BY DEF RemoveMember
<1>3. RowsGoOn({})
  BY <1>0, <1>2, MailStays
<1>4. TaskKnown(c)'
  BY <1>0, <1>1 DEF TaskKnown, RowKnown
<1>5. MemberOf[c] \in Teammates /\ MemberOf[c] \in Agents /\ Teammates \subseteq Agents
  BY SwarmAssumption DEF Agents
<1>6. /\ status' \in [Agents -> {"absent", "active", "running", "removed"}]
      /\ \A n \in Teammates \ {MemberOf[c]} : status'[n] = status[n]
      /\ Exists => status'[MemberOf[c]] = "removed"
  BY <1>0, <1>5 DEF RemoveMember, TeamTyped
<1>7. /\ stuck' \subseteq Spawns /\ overtaken' \subseteq Spawns /\ overtaken \subseteq overtaken'
      /\ \A d \in Spawns : MemberOf[d] # MemberOf[c] => (d \in stuck => d \in stuck')
      /\ \A d \in Spawns \ {c} : MemberOf[d] = MemberOf[c] /\ task[d].at \in Joined => d \in overtaken'
  BY <1>0 DEF RemoveMember, Namesakes, TeamTyped
<1>8. Member(MemberOf[c])'
  <2> SUFFICES ASSUME Exists' PROVE Member(MemberOf[c])'
    BY DEF Member
  <2>1. Exists /\ status'[MemberOf[c]] = "removed"
    BY <1>2, <1>6 DEF Exists
  <2>2. MemberOf[c] \notin Active'
    BY <2>1 DEF Active
  <2>3. HasReported(MemberOf[c])'
    BY <1>0, <1>2, <2>1 DEF TaskKnown, HasReported, There
  <2>4. \A d \in Spawns : MemberOf[d] = MemberOf[c] /\ task'[d].at \in Joined => d \in overtaken'
    BY <1>1, <1>7 DEF Joined
  <2> QED
    BY <2>2, <2>3, <2>4 DEF Member
<1>9. team # "none"
  BY <1>0, TaskHasTeam
<1> QED
  BY <1>0, <1>1, <1>2, <1>3, <1>4, <1>6, <1>7, <1>8, <1>9, TaskStepKeeps DEF TeamTyped

\* An exception ends a task, and its row may have committed.
LEMMA StatementFailsKeeps ==
  ASSUME SwarmInv, NEW c \in Spawns, StatementFails(c) PROVE SwarmInv'
<1>0. TeamTyped /\ failures \in 0 .. MaxFailures /\ TaskKnown(c)
      /\ task[c].at \in (Joined \ {"run"}) \cup {"upsert"}
      /\ UNCHANGED <<team, status, overtaken, viewVars>>
  BY DEF SwarmInv, StatementFails
<1>1. task[c].outcome \in {"none", "completed", "failed"}
  BY <1>0, TaskFields
<1>2. /\ task' \in [Spawns -> TaskStates] /\ \A d \in Spawns \ {c} : task'[d] = task[d]
      /\ task'[c].at = "over" /\ task'[c].row = 0
  BY <1>0, <1>1, TaskEndsRow DEF StatementFails, TaskPoints
<1>3. /\ todo' \in [Spawns -> SUBSET Agents] /\ stuck' \subseteq Spawns /\ stuck \subseteq stuck'
      /\ task[c].at \in Joined => c \in stuck'
  BY <1>0 DEF StatementFails, TeamTyped, At, Joined
<1>4. failures' \in 0 .. MaxFailures
  <2>1. Fail \/ UNCHANGED failures
    BY DEF StatementFails, RollBack
  <2> QED
    BY <1>0, <2>1, FailuresBounded
<1>5. \E K : RowsGoOn(K) /\ \A d \in Spawns \ {c} : task[d].row \notin K
  <2>1. CASE task[c].row = 0
    <3>1. mail' = mail
      BY <2>1 DEF StatementFails
    <3> QED
      BY <1>0, <3>1, MailStays
  <2>2. CASE task[c].row # 0
    <3>1. SetRow(task[c].row, "gone") \/ SetRow(task[c].row, "there")
      BY <2>2 DEF StatementFails, RollBack, Commit
    <3>2. RowsGoOn({task[c].row}) /\ \A d \in Spawns \ {c} : task[d].row \notin {task[c].row}
      BY <2>2, <3>1, RowEnds
    <3> QED
      BY <3>2
  <2> QED
    BY <2>1, <2>2
<1>6. PICK K : RowsGoOn(K) /\ \A d \in Spawns \ {c} : task[d].row \notin K
  BY <1>5
<1>7. TaskKnown(c)'
  BY <1>2 DEF TaskKnown, RowKnown
<1>8. Member(MemberOf[c])'
  BY <1>0, <1>2, <1>3, <1>6, MemberGoesOn DEF Joined
<1>9. team # "none"
  BY <1>0, TaskHasTeam DEF Joined
<1> QED
  BY <1>0, <1>2, <1>3, <1>4, <1>6, <1>7, <1>8, <1>9, TaskStepKeeps DEF TeamTyped

\* A step that moves no task and gives up or commits no row of a task.
LEMMA MailKeeps ==
  ASSUME SwarmInv, NEW K, RowsGoOn(K), \A c \in Spawns : task[c].row \notin K,
         UNCHANGED <<taskVars, viewVars>>, failures' \in 0 .. MaxFailures, Exists' => Exists,
         team' \in {"none", "row", "ready", "deleted"}, team' = "none" => team = "none" /\ status' = status,
         status' \in [Agents -> {"absent", "active", "running", "removed"}],
         Exists' => \A n \in Teammates : status'[n] = status[n]
  PROVE  SwarmInv'
<1>1. TeamTyped'
  BY DEF SwarmInv, TeamTyped, taskVars, RowsGoOn
<1>2. NoneYet' /\ RowsApart'
  BY DEF SwarmInv, NoneYet, RowsApart, taskVars
<1>3. ASSUME NEW c \in Spawns PROVE TaskKnown(c)'
  <2>1. TaskKnown(c) /\ task'[c] = task[c]
    BY DEF SwarmInv, taskVars
  <2> QED
    BY <2>1, TaskStays
<1>4. ASSUME NEW n \in Teammates PROVE Member(n)'
  <2>1. CASE Exists'
    <3>1. Member(n) /\ status'[n] = status[n] /\ n \in Agents
      BY <2>1 DEF SwarmInv, Agents
    <3>2. task' = task /\ stuck' = stuck /\ overtaken' = overtaken
      BY DEF taskVars
    <3> QED
      BY <3>1, <3>2, MemberStays
  <2>2. CASE ~Exists'
    BY <2>2 DEF Member
  <2> QED
    BY <2>1, <2>2
<1>5. ViewTyped' /\ ViewKnown'
  BY ViewStays
<1> QED
  BY <1>1, <1>2, <1>3, <1>4, <1>5 DEF SwarmInv

\* The rows of the team and of its lead.
LEMMA TeamRowKeeps ==
  ASSUME SwarmInv, CreateTeam \/ AddLead \/ DeleteTeam PROVE SwarmInv'
<1>0. TeamTyped /\ failures \in 0 .. MaxFailures
  BY DEF SwarmInv
<1>1. CASE CreateTeam
  <2>1. team = "none" /\ team' = "row" /\ UNCHANGED <<status, mail, taskVars, failures, viewVars>>
    BY <1>1 DEF CreateTeam
  <2>2. \A n \in Teammates : status[n] = "absent"
    BY <2>1 DEF SwarmInv, NoneYet
  <2>3. \A c \in Spawns : task[c].at = "no" /\ task[c].row = 0
    BY <2>1 DEF SwarmInv, NoneYet, TaskKnown, RowKnown
  <2>4. \A n \in Teammates : Member(n)'
    BY <2>1, <2>2, <2>3 DEF Member, Active, Joined, taskVars
  <2>5. \A c \in Spawns : TaskKnown(c)'
    BY <2>1, <2>3 DEF TaskKnown, RowKnown, taskVars
  <2>6. TeamTyped' /\ NoneYet' /\ RowsApart'
    BY <1>0, <2>1, <2>3 DEF TeamTyped, NoneYet, RowsApart, taskVars
  <2>7. ViewTyped' /\ ViewKnown'
    BY <1>0, <2>1, MailStays, ViewStays
  <2> QED
    BY <1>0, <2>1, <2>4, <2>5, <2>6, <2>7 DEF SwarmInv
<1>2. CASE AddLead
  <2>1. team = "row" /\ team' = "ready" /\ status' = [status EXCEPT ![Lead] = "active"]
        /\ UNCHANGED <<mail, taskVars, failures, viewVars>>
    BY <1>2 DEF AddLead
  <2>2. status' \in [Agents -> {"absent", "active", "running", "removed"}]
        /\ \A n \in Teammates : status'[n] = status[n]
    BY <1>0, <2>1, SwarmAssumption DEF TeamTyped, Agents
  <2>3. RowsGoOn({}) /\ Exists
    BY <1>0, <2>1, MailStays DEF Exists
  <2> QED
    BY <1>0, <2>1, <2>2, <2>3, MailKeeps
<1>3. CASE DeleteTeam
  <2>1. team' = "deleted" /\ Exists /\ status' = [a \in Agents |-> "absent"]
        /\ UNCHANGED <<taskVars, failures, viewVars>>
    BY <1>3 DEF DeleteTeam
  <2>2. RowsGoOn({}) /\ ~Exists'
    BY <1>0, <1>3, MailDeleted
  <2> QED
    BY <1>0, <2>1, <2>2, MailKeeps
<1> QED
  BY <1>1, <1>2, <1>3

\* A member sends a message, or an agent polls its inbox.
LEMMA ChatKeeps ==
  ASSUME SwarmInv, ChatStep \/ PollStep PROVE SwarmInv'
<1>0. TeamTyped /\ failures \in 0 .. MaxFailures /\ MaxMail \in Nat
  BY SwarmAssumption DEF SwarmInv
<1>1. ASSUME NEW c \in Spawns, NEW to \in Agents, SendDirect(c, to) PROVE SwarmInv'
  <2>1. BeginInsert(MemberOf[c], to, "chat") /\ UNCHANGED <<team, status, taskVars, failures, viewVars>>
    BY <1>1 DEF SendDirect
  <2>2. MemberOf[c] \in Agents /\ "chat" \in Kinds
    BY SwarmAssumption DEF Agents, Kinds
  <2>3. RowsGoOn({})
    BY <1>0, <2>1, <2>2, MailBegun DEF TeamTyped
  <2> QED
    BY <1>0, <2>1, <2>3, MailKeeps DEF TeamTyped, Exists
<1>2. ASSUME NEW i \in DOMAIN mail, SendEnds(i) PROVE SwarmInv'
  <2>1. mail[i].kind = "chat" /\ mail[i].row = "inserted" /\ UNCHANGED <<team, status, taskVars, viewVars>>
    BY <1>2 DEF SendEnds, Begun
  <2>2. SetRow(i, "there") \/ SetRow(i, "gone")
    BY <1>2 DEF SendEnds, RollBack, Commit
  <2>3. failures' \in 0 .. MaxFailures
    <3>1. Fail \/ UNCHANGED failures
      BY <1>2 DEF SendEnds, RollBack
    <3> QED
      BY <1>0, <3>1, FailuresBounded
  <2>4. RowsGoOn({i})
    BY <1>0, <2>1, <2>2, MailSet DEF TeamTyped
  <2>5. \A c \in Spawns : task[c].row \notin {i}
    <3>1. ASSUME NEW c \in Spawns, task[c].row = i PROVE FALSE
      <4>1. i # 0
        BY <1>0 DEF TeamTyped
      <4> QED
        BY <2>1, <3>1, <4>1 DEF SwarmInv, TaskKnown, RowKnown
    <3> QED
      BY <3>1
  <2> QED
    BY <1>0, <2>1, <2>3, <2>4, <2>5, MailKeeps DEF TeamTyped, Exists
<1>3. ASSUME NEW a \in Agents, Poll(a) PROVE SwarmInv'
  <2>1. UNCHANGED <<team, status, taskVars, failures, viewVars>>
    BY <1>3 DEF Poll
  <2>2. RowsGoOn({})
    BY <1>0, <1>3, MailMarked DEF Poll, MarkRead, TeamTyped
  <2> QED
    BY <1>0, <2>1, <2>2, MailKeeps DEF TeamTyped, Exists
<1> QED
  BY <1>1, <1>2, <1>3 DEF ChatStep, PollStep

\* There is no team at the start.
LEMMA SwarmInitially == SwarmInit => SwarmInv
<1> SUFFICES ASSUME SwarmInit PROVE SwarmInv
  OBVIOUS
<1>1. \A c \in Spawns : task[c] \in TaskStates /\ task[c].at = "no" /\ task[c].row = 0
  BY DEF SwarmInit, TaskStates, TaskPoints
<1>2. TeamTyped
  <2>1. task \in [Spawns -> TaskStates]
    BY <1>1 DEF SwarmInit
  <2>2. mail \in Seq(Mail) /\ Len(mail) = 0
    BY DEF SwarmInit
  <2> QED
    BY <2>1, <2>2, SwarmAssumption DEF SwarmInit, TeamTyped
<1>3. ViewTyped
  BY SwarmAssumption DEF SwarmInit, ViewTyped
<1>4. NoneYet /\ RowsApart
  BY <1>1 DEF SwarmInit, NoneYet, RowsApart, Agents
<1>5. \A c \in Spawns : TaskKnown(c)
  BY <1>1 DEF TaskKnown, RowKnown
<1>6. \A n \in Teammates : Member(n)
  BY DEF SwarmInit, Member, Exists
<1>7. ViewKnown
  BY DEF SwarmInit, ViewKnown
<1> QED
  BY <1>2, <1>3, <1>4, <1>5, <1>6, <1>7, SwarmAssumption DEF SwarmInv, SwarmInit

\* The gaps of a stream grow.
LEMMA GapsMarked ==
  ASSUME ViewTyped, NEW marks, \A g \in DOMAIN marks \cap Gaps : marks[g] \subseteq Ids, Mark(marks)
  PROVE  /\ gaps' \in [Gaps -> SUBSET Ids]
         /\ \A g \in Gaps : gaps[g] \subseteq gaps'[g]
         /\ \A g \in DOMAIN marks \cap Gaps : marks[g] \subseteq gaps'[g]
<1>1. gaps' = [g \in Gaps |-> IF g \in DOMAIN marks THEN gaps[g] \cup marks[g] ELSE gaps[g]]
  BY DEF Mark
<1>2. \A g \in Gaps : gaps[g] \subseteq Ids
  BY DEF ViewTyped
<1>3. \A g \in Gaps : gaps'[g] = IF g \in DOMAIN marks THEN gaps[g] \cup marks[g] ELSE gaps[g]
  BY <1>1
<1>4. \A g \in Gaps : gaps'[g] \subseteq Ids
  BY <1>2, <1>3
<1> QED
  BY <1>1, <1>3, <1>4

\* What is passed by stays so while the stream goes on, and so does what can come again.
LEMMA PassedByStays ==
  ASSUME mail' = mail, shown \subseteq shown', \A g \in Gaps : gaps[g] \subseteq gaps'[g], NEW i
  PROVE  (PassedBy(i) => PassedBy(i)') /\ (Doubled(i) => Doubled(i)')
<1>1. "twice" \in Gaps
  BY DEF Gaps
<1> QED
  BY <1>1 DEF PassedBy, Doubled

\* The backfill: what there is is shown or too old, and the rest is being inserted or gone.
LEMMA OpenStreamKeeps ==
  ASSUME SwarmInv, OpenStream PROVE ViewTyped' /\ ViewKnown'
<1>0. ViewTyped /\ ViewKnown /\ Len(mail) \in Nat /\ Len(mail) <= MaxMail /\ MaxMail \in Nat
      /\ mail \in Seq(Mail) /\ DOMAIN mail = 1 .. Len(mail)
  BY SwarmAssumption DEF SwarmInv, TeamTyped
<1> DEFINE marks == [old |-> There \ Latest, late |-> Begun]
<1>1. /\ viewer' = "start" /\ shown' = Latest /\ now' = Len(mail) /\ mail' = mail
      /\ again' = again /\ since' = since /\ Mark(marks)
  BY DEF OpenStream, teamVars
<1>2. There \subseteq Ids /\ Begun \subseteq Ids /\ Latest \subseteq There
  BY <1>0 DEF There, Begun, Latest, Ids
<1>3. /\ DOMAIN marks = {"old", "late"} /\ marks["old"] = There \ Latest /\ marks["late"] = Begun
  OBVIOUS
<1> HIDE DEF marks
<1>4. "old" \in Gaps \ {"twice"} /\ "late" \in Gaps \ {"twice"} /\ "twice" \in Gaps
  BY DEF Gaps
<1>5. /\ gaps' \in [Gaps -> SUBSET Ids] /\ \A g \in Gaps : gaps[g] \subseteq gaps'[g]
      /\ There \ Latest \subseteq gaps'["old"] /\ Begun \subseteq gaps'["late"]
  BY <1>0, <1>1, <1>2, <1>3, <1>4, GapsMarked
<1>6. ViewTyped'
  BY <1>0, <1>1, <1>2, <1>5 DEF ViewTyped
<1>7. ASSUME NEW i \in Ids, i <= Len(mail) PROVE PassedBy(i)'
  <2>1. i \in DOMAIN mail
    BY <1>0, <1>7 DEF Ids
  <2>2. mail[i].row \in {"inserted", "there", "gone"}
    BY <1>0, <2>1, RowTyped
  <2>3. CASE i \in Latest
    BY <1>1, <2>3 DEF PassedBy
  <2>4. CASE i \in There \ Latest
    BY <1>4, <1>5, <2>4 DEF PassedBy
  <2>5. CASE i \in Begun
    BY <1>4, <1>5, <2>5 DEF PassedBy
  <2>6. CASE mail[i].row = "gone"
    BY <1>1, <2>1, <2>6 DEF PassedBy
  <2> QED
    BY <2>1, <2>2, <2>3, <2>4, <2>5, <2>6 DEF There, Begun
<1>8. \A i \in Latest : i <= Len(mail) /\ i \in DOMAIN mail /\ mail[i].row # "inserted"
  BY <1>0, <1>2 DEF There
<1>9. again' \subseteq gaps'["twice"]
  BY <1>0, <1>1, <1>4, <1>5 DEF ViewKnown
<1>10. ViewKnown'
  BY <1>1, <1>7, <1>8, <1>9 DEF ViewKnown
<1> QED
  BY <1>6, <1>10

\* What comes before the first last_poll is passed by, and what comes after it can come again.
LEMMA StartPollingKeeps ==
  ASSUME SwarmInv, StartPolling PROVE ViewTyped' /\ ViewKnown'
<1>0. ViewTyped /\ ViewKnown /\ Len(mail) \in Nat /\ Len(mail) <= MaxMail /\ MaxMail \in Nat
  BY SwarmAssumption DEF SwarmInv, TeamTyped
<1> DEFINE marks == [start |-> now + 1 .. Len(mail), ahead |-> Len(mail) + 1 .. since',
                     twice |-> since' + 1 .. now]
<1>1. /\ viewer = "start" /\ viewer' = "poll" /\ since' \in 0 .. MaxMail /\ mail' = mail
      /\ shown' = shown /\ again' = again /\ now' = now /\ Mark(marks) /\ now \in 0 .. MaxMail
  BY <1>0 DEF StartPolling, Readings, teamVars, ViewTyped
<1> DEFINE early == now + 1 .. Len(mail)
           late == Len(mail) + 1 .. since'
           doubled == since' + 1 .. now
<1> DEFINE count == Len(mail)
           next == since'
<1>2. /\ now \in Nat /\ now <= MaxMail /\ next \in Nat /\ next <= MaxMail
      /\ count \in Nat /\ count <= MaxMail /\ MaxMail \in Nat
      /\ early = now + 1 .. count /\ late = count + 1 .. next /\ doubled = next + 1 .. now
  BY <1>0, <1>1
<1> HIDE DEF early, late, doubled, count, next, marks
<1>3. /\ early \subseteq Ids /\ late \subseteq Ids /\ doubled \subseteq Ids
      /\ \A i \in Ids : i <= next => i <= now \/ i \in early \/ i \in late
      /\ \A i \in Ids : i <= now /\ i > next => i \in doubled
  BY <1>2 DEF Ids
<1>4. /\ DOMAIN marks = {"start", "ahead", "twice"} /\ marks["start"] = early /\ marks["ahead"] = late
      /\ marks["twice"] = doubled
  BY DEF marks, early, late, doubled
<1>5. "start" \in Gaps \ {"twice"} /\ "ahead" \in Gaps \ {"twice"} /\ "twice" \in Gaps
  BY DEF Gaps
<1>6. /\ gaps' \in [Gaps -> SUBSET Ids] /\ \A g \in Gaps : gaps[g] \subseteq gaps'[g]
      /\ early \subseteq gaps'["start"] /\ late \subseteq gaps'["ahead"] /\ doubled \subseteq gaps'["twice"]
  BY <1>0, <1>1, <1>3, <1>4, <1>5, GapsMarked
<1>7. ViewTyped'
  BY <1>0, <1>1, <1>6 DEF ViewTyped
<1>8. ASSUME NEW i \in Ids, i <= since' PROVE PassedBy(i)'
  <2>1. CASE i <= now
    <3>1. PassedBy(i)
      BY <1>0, <1>1, <2>1 DEF ViewKnown
    <3> QED
      BY <1>1, <1>6, <3>1, PassedByStays
  <2>2. CASE i \in early \/ i \in late
    BY <1>5, <1>6, <2>2 DEF PassedBy
  <2> QED
    BY <1>3, <1>8, <2>1, <2>2 DEF next
<1>9. \A i \in shown : i > since' => Doubled(i)'
  <2>1. \A i \in shown : i \in Ids /\ i <= now
    BY <1>0, <1>1 DEF ViewKnown, ViewTyped
  <2> QED
    BY <1>3, <1>6, <2>1 DEF Doubled, next
<1>10. again' \subseteq gaps'["twice"]
  BY <1>0, <1>1, <1>5, <1>6 DEF ViewKnown
<1>11. \A i \in shown' : i \in DOMAIN mail' /\ mail'[i].row # "inserted"
  BY <1>0, <1>1 DEF ViewKnown
<1>12. ViewKnown'
  BY <1>1, <1>8, <1>9, <1>10, <1>11 DEF ViewKnown
<1> QED
  BY <1>7, <1>12

\* What is found is shown; what is being inserted or has not come yet is passed by.
LEMMA QueryKeeps ==
  ASSUME SwarmInv, Query PROVE ViewTyped' /\ ViewKnown'
<1>0. ViewTyped /\ ViewKnown /\ Len(mail) \in Nat /\ Len(mail) <= MaxMail /\ MaxMail \in Nat
      /\ mail \in Seq(Mail) /\ DOMAIN mail = 1 .. Len(mail)
  BY SwarmAssumption DEF SwarmInv, TeamTyped
<1> DEFINE found == {i \in There : i > since}
           late == {i \in Begun : i <= now}
           early == Len(mail) + 1 .. now
           doubled == {i \in There : i > now}
           marks == [late |-> late, ahead |-> early, twice |-> doubled]
<1>1. /\ viewer = "query" /\ viewer' = "advance" /\ mail' = mail /\ since' = since /\ now' = now
      /\ shown' = shown \cup found /\ again' = again \cup (shown \cap found) /\ Mark(marks)
      /\ now \in 0 .. MaxMail /\ since \in 0 .. MaxMail
  BY <1>0 DEF Query, teamVars, ViewTyped
<1>2. /\ \A i : i \in found <=> i \in There /\ i > since
      /\ \A i : i \in late <=> i \in Begun /\ i <= now
      /\ \A i : i \in doubled <=> i \in There /\ i > now
      /\ \A i \in Ids : i <= now => i \in DOMAIN mail \/ i \in early
      /\ early \subseteq Ids
  BY <1>0, <1>1 DEF Ids
<1>3. There \subseteq Ids /\ Begun \subseteq Ids
  BY <1>0 DEF There, Begun, Ids
<1>4. /\ DOMAIN marks = {"late", "ahead", "twice"} /\ marks["late"] = late /\ marks["ahead"] = early
      /\ marks["twice"] = doubled
  OBVIOUS
<1> HIDE DEF marks, found, late, early, doubled
<1>5. "late" \in Gaps \ {"twice"} /\ "ahead" \in Gaps \ {"twice"} /\ "twice" \in Gaps
  BY DEF Gaps
<1>6. /\ gaps' \in [Gaps -> SUBSET Ids] /\ \A g \in Gaps : gaps[g] \subseteq gaps'[g]
      /\ late \subseteq gaps'["late"] /\ early \subseteq gaps'["ahead"] /\ doubled \subseteq gaps'["twice"]
  <2>1. late \subseteq Ids /\ doubled \subseteq Ids
    BY <1>2, <1>3
  <2> QED
    BY <1>0, <1>1, <1>2, <1>4, <1>5, <2>1, GapsMarked
<1>7. ViewTyped'
  BY <1>0, <1>1, <1>2, <1>3, <1>6 DEF ViewTyped
<1>8. ASSUME NEW i \in Ids, i <= since PROVE PassedBy(i)'
  <2>1. PassedBy(i)
    BY <1>0, <1>1, <1>8 DEF ViewKnown
  <2> QED
    BY <1>1, <1>6, <2>1, PassedByStays
<1>9. ASSUME NEW i \in Ids, i <= now PROVE PassedBy(i)'
  <2>1. CASE i <= since
    BY <1>8, <2>1
  <2>2. CASE i > since /\ i \in DOMAIN mail
    <3>1. mail[i].row \in {"inserted", "there", "gone"}
      BY <1>0, <2>2, RowTyped
    <3>2. CASE i \in There
      BY <1>1, <1>2, <2>2, <3>2 DEF PassedBy
    <3>3. CASE i \in Begun
      BY <1>2, <1>5, <1>6, <1>9, <3>3 DEF PassedBy
    <3>4. CASE mail[i].row = "gone"
      BY <1>1, <2>2, <3>4 DEF PassedBy
    <3> QED
      BY <2>2, <3>1, <3>2, <3>3, <3>4 DEF There, Begun
  <2>3. CASE i \in early
    BY <1>5, <1>6, <2>3 DEF PassedBy
  <2>4. i <= since \/ i > since
    BY <1>1 DEF Ids
  <2> QED
    BY <1>2, <1>9, <2>1, <2>2, <2>3, <2>4
<1>10. \A i \in shown' : i \in DOMAIN mail' /\ mail'[i].row # "inserted"
  <2>1. \A i \in shown : i \in DOMAIN mail /\ mail[i].row # "inserted"
    BY <1>0, <1>1 DEF ViewKnown
  <2>2. \A i \in found : i \in DOMAIN mail /\ mail[i].row # "inserted"
    BY <1>2 DEF There
  <2> QED
    BY <1>1, <2>1, <2>2
<1>11. ASSUME NEW i \in shown', i > now PROVE Doubled(i)'
  <2>1. i \in DOMAIN mail /\ mail[i].row \in {"there", "gone"}
    BY <1>0, <1>1, <1>10, RowTyped
  <2>2. CASE mail[i].row = "gone"
    BY <1>1, <2>2 DEF Doubled
  <2>3. CASE mail[i].row = "there"
    BY <1>2, <1>6, <1>11, <2>1, <2>3 DEF Doubled, There
  <2> QED
    BY <2>1, <2>2, <2>3
<1>12. again' \subseteq gaps'["twice"]
  <2>1. again \subseteq gaps'["twice"]
    BY <1>0, <1>5, <1>6 DEF ViewKnown
  <2>2. ASSUME NEW i \in shown \cap found PROVE i \in gaps'["twice"]
    <3>1. i > since /\ mail[i].row = "there"
      BY <1>2, <2>2 DEF There
    <3>2. Doubled(i)
      BY <1>0, <1>1, <2>2, <3>1 DEF ViewKnown
    <3> QED
      BY <1>5, <1>6, <3>1, <3>2 DEF Doubled
  <2> QED
    BY <1>1, <2>1, <2>2
<1>13. ViewKnown'
  BY <1>1, <1>8, <1>9, <1>10, <1>11, <1>12 DEF ViewKnown
<1> QED
  BY <1>7, <1>13

\* The steps that show nothing.
LEMMA QuietViewKeeps ==
  ASSUME SwarmInv, TakeNow \/ CheckTeam \/ Advance \/ PollFails PROVE ViewTyped' /\ ViewKnown'
<1>0. ViewTyped /\ ViewKnown /\ Len(mail) \in Nat /\ MaxMail \in Nat
      /\ UNCHANGED <<mail, shown, again, gaps>>
  BY SwarmAssumption DEF SwarmInv, TeamTyped, TakeNow, CheckTeam, Advance, PollFails, teamVars
<1>1. viewer' \in {"poll", "check", "query", "over"} /\ viewer # "off" /\ viewer # "start"
  BY DEF TakeNow, CheckTeam, Advance, PollFails
<1>2. since' \in 0 .. MaxMail /\ now' \in 0 .. MaxMail
  BY <1>0 DEF TakeNow, CheckTeam, Advance, PollFails, ViewTyped, Readings
<1>3. ViewTyped'
  BY <1>0, <1>1, <1>2 DEF ViewTyped
<1>4. \A i : (PassedBy(i)' <=> PassedBy(i)) /\ (Doubled(i)' <=> Doubled(i))
  BY <1>0 DEF PassedBy, Doubled
<1>5. (viewer \in {"poll", "check", "query"} /\ since' = since) \/ (viewer = "advance" /\ since' = now)
  BY DEF TakeNow, CheckTeam, Advance, PollFails
<1>6. /\ \A i \in Ids : i <= since' => PassedBy(i)
      /\ \A i \in shown : i > since' => Doubled(i)
  BY <1>0, <1>5 DEF ViewKnown
<1>7. /\ \A i \in shown : i \in DOMAIN mail /\ mail[i].row # "inserted"
      /\ again \subseteq gaps["twice"]
  BY <1>0, <1>1 DEF ViewKnown
<1>8. ViewKnown'
  BY <1>0, <1>1, <1>4, <1>6, <1>7 DEF ViewKnown
<1> QED
  BY <1>3, <1>8

\* The steps of an event stream, while the team goes on.
LEMMA ViewStepKeeps ==
  ASSUME SwarmInv, ViewStep PROVE SwarmInv'
<1>1. UNCHANGED <<teamVars, taskVars>>
  BY DEF ViewStep, OpenStream, StartPolling, TakeNow, CheckTeam, Query, Advance, PollFails
<1>2. TeamTyped' /\ NoneYet' /\ RowsApart' /\ (\A c \in Spawns : TaskKnown(c)') /\ \A n \in Teammates : Member(n)'
  BY <1>1 DEF SwarmInv, TeamTyped, NoneYet, RowsApart, TaskKnown, RowKnown, Member, HasReported, There, Active,
              Exists, teamVars, taskVars
<1>3. failures' \in 0 .. MaxFailures
  <2>1. Fail \/ UNCHANGED failures
    BY DEF ViewStep, OpenStream, StartPolling, TakeNow, CheckTeam, Query, Advance, PollFails
  <2> QED
    BY <2>1, FailuresBounded DEF SwarmInv
<1>4. ViewTyped' /\ ViewKnown'
  BY OpenStreamKeeps, StartPollingKeeps, QueryKeeps, QuietViewKeeps DEF ViewStep
<1> QED
  BY <1>2, <1>3, <1>4 DEF SwarmInv

\* Every step of the team, its tasks and the stream keeps the invariant.
LEMMA SwarmKeeps == ASSUME SwarmInv, [SwarmNext]_swarmVars PROVE SwarmInv'
<1>1. CASE UNCHANGED swarmVars
  <2>1. RowsGoOn({})
    BY <1>1, MailStays DEF swarmVars, teamVars, SwarmInv
  <2> QED
    BY <1>1, <2>1, MailKeeps DEF swarmVars, teamVars, SwarmInv, TeamTyped, Exists
<1>2. CASE SwarmNext
  <2>1. ASSUME NEW c \in Spawns, StartTask(c) \/ TaskStep(c) PROVE SwarmInv'
    BY <2>1, StartTaskKeeps, RegisterKeeps, PointKeeps, InsertKeeps, InsertEndsKeeps, RemoveMemberKeeps,
       StatementFailsKeeps DEF TaskStep
  <2> QED
    BY <1>2, <2>1, TeamRowKeeps, ChatKeeps, ViewStepKeeps DEF SwarmNext, TeamStep
<1> QED
  BY <1>1, <1>2

\* The invariant is stronger than what it is for.
LEMMA SwarmImplied == SwarmInv => SwarmTypeOK /\ TeamHolds
<1> SUFFICES ASSUME SwarmInv PROVE SwarmTypeOK /\ TeamHolds
  OBVIOUS
<1>1. SwarmTypeOK
  BY DEF SwarmInv, SwarmTypeOK, TeamTyped, ViewTyped
<1>2. MembersHaveTasks
  BY DEF SwarmInv, Member, HasReported, MembersHaveTasks
<1>3. StreamShowsMessages
  <2>1. again \subseteq gaps["twice"]
    BY DEF SwarmInv, ViewKnown
  <2>2. ASSUME viewer \in {"poll", "check", "query", "advance"}, NEW i \in There, i <= since
        PROVE  i \in shown \/ \E g \in Gaps \ {"twice"} : i \in gaps[g]
    <3>1. i \in Ids /\ mail[i].row # "gone"
      BY SwarmAssumption DEF SwarmInv, TeamTyped, There, Ids
    <3> QED
      BY <2>2, <3>1 DEF SwarmInv, ViewKnown, PassedBy
  <2> QED
    BY <2>1, <2>2 DEF StreamShowsMessages
<1> QED
  BY <1>1, <1>2, <1>3 DEF TeamHolds

\* Whatever statements fail and whatever comes between them, a member of a team counts as
\* active only while a task of its name goes on or has left it behind, is removed after a
\* report, and stays active until a task of its name has ended; and an event stream shows
\* every message but those the property names (team.py, task_tool.py, routers/swarm.py).
THEOREM TeamShowsItsTasks == SwarmSpec => [](SwarmTypeOK /\ TeamHolds)
  BY SwarmInitially, SwarmKeeps, SwarmImplied, PTL DEF SwarmSpec

-----------------------------------------------------------------------------
(***************************************************************************)
(* The evaluations. Whether a query deserved what it got is told by its    *)
(* tries, and the invariant says what each of them is worth while it is    *)
(* under way: one that is not in doubt has been alone since it was started,*)
(* in a directory that nobody has left a file in, so that what claude goes *)
(* for is its own file; once it has been read it reports just that; and a  *)
(* try that reports the skill has always seen claude go for it. With no    *)
(* files but those of tries under way and of killed workers that is        *)
(* inductive, and a count of tries turns it into what the scores say.      *)
(***************************************************************************)

Tries == [at : {"waiting", "running", "answered", "done"}, chose : Probes \cup {NoCommand, Left},
          result : BOOLEAN]

Scored == [passed : SUBSET Queries, deserved : SUBSET Queries, doubted : SUBSET Queries]

\* What a try reports is what claude went for, as long as it is not in doubt.
Vouched(p) ==
    /\ tries[p].result => tries[p].at = "done" /\ tries[p].chose # NoCommand
    /\ p \notin doubted =>
          /\ tries[p].at = "running" => orphaned = {} /\ UnderWay = {p}
          /\ tries[p].at = "answered" => tries[p].chose \in {p, NoCommand}
          /\ tries[p].at = "done" => (tries[p].result <=> tries[p].chose # NoCommand)

\* The score of an iteration tells what its tries do.
ScoreTrue(s) ==
    /\ s.passed \ s.doubted = s.deserved \ s.doubted
    /\ s.passed \cap ShouldTrigger \subseteq s.deserved
    /\ s.deserved \ ShouldTrigger \subseteq s.passed

\* None is asked but in an evaluation, and another iteration begins only if there is
\* one left.
EvalInv ==
    /\ training \subseteq Queries
    /\ stage \in {"evaluate", "improve"} \cup Ended
    /\ scores \in Seq(Scored) /\ Len(scores) <= MaxIterations
    /\ stage \in {"evaluate", "improve"} => Len(scores) < MaxIterations
    /\ tries \in [Probes -> Tries] /\ doubted \subseteq Probes
    /\ Cardinality(UnderWay) <= Workers
    /\ orphaned \subseteq {Left} /\ commands \subseteq UnderWay \cup orphaned
    /\ stage # "evaluate" => UnderWay = {}
    /\ \A p \in Probes : Vouched(p)
    /\ \A i \in DOMAIN scores : ScoreTrue(scores[i])
    /\ stage \in {"all_passed", "max_iterations"} => scores # <<>>

\* There are finitely many tries.
LEMMA ProbesFinite == IsFiniteSet(Probes)
<1>1. 1 \in Int /\ RunsPerQuery \in Int
  BY EvalAssumption
<1>2. IsFiniteSet(1 .. RunsPerQuery)
  BY <1>1, FS_Interval
<1> QED BY <1>2, EvalAssumption, FS_Product DEF Probes

\* No query's command file is taken for none.
LEMMA ProbeIsSome == ASSUME NEW p \in Probes PROVE p # NoCommand
<1>1. PICK q \in Queries, k \in 1 .. RunsPerQuery : p = <<q, k>>
  BY DEF Probes
<1>2. Len(<<q, k>>) = 2 /\ Len(<<"none">>) = 1
  OBVIOUS
<1> QED BY <1>1, <1>2 DEF NoCommand

\* Nothing is asked at the start.
LEMMA EvalInitially == EvalInit => EvalInv
<1> SUFFICES ASSUME EvalInit PROVE EvalInv
  OBVIOUS
<1>1. training \subseteq Queries
  BY DEF EvalInit, Splits
<1>2. /\ tries \in [Probes -> Tries] /\ UnderWay = {}
      /\ \A p \in Probes : tries[p].at = "waiting" /\ ~tries[p].result
  BY DEF EvalInit, Idling, Tries, UnderWay
<1>3. Cardinality(UnderWay) = 0
  BY <1>2, FS_EmptySet
<1>4. scores \in Seq(Scored) /\ Len(scores) = 0 /\ DOMAIN scores = {}
  BY DEF EvalInit
<1>5. \A p \in Probes : Vouched(p)
  BY <1>2 DEF Vouched
<1> QED BY <1>1, <1>2, <1>3, <1>4, <1>5, EvalAssumption DEF EvalInit, EvalInv, Ended

\* A try of its own moves.
LEMMA OneTryMoves ==
  ASSUME NEW p \in Probes, NEW t \in Tries, tries \in [Probes -> Tries], tries' = [tries EXCEPT ![p] = t]
  PROVE  /\ tries' \in [Probes -> Tries]
         /\ tries'[p] = t /\ \A o \in Probes \ {p} : tries'[o] = tries[o]
         /\ UnderWay' = IF t.at \in {"running", "answered"} THEN UnderWay \cup {p} ELSE UnderWay \ {p}
BY DEF UnderWay

\* A query is asked, and those that it disturbs come to be in doubt.
LEMMA StartQueryKeeps == ASSUME EvalInv, NEW p \in Probes, StartQuery(p) PROVE EvalInv'
<1>0. tries \in [Probes -> Tries] /\ IsFiniteSet(UnderWay) /\ UnderWay \subseteq Probes
  BY ProbesFinite, FS_Subset DEF EvalInv, UnderWay
<1> DEFINE t == [tries[p] EXCEPT !.at = "running"]
<1>1. tries' = [tries EXCEPT ![p] = t] /\ tries[p].at = "waiting" /\ stage = "evaluate"
  BY <1>0 DEF StartQuery
<1>2. t \in Tries /\ t.at = "running" /\ t.result = tries[p].result
  BY <1>0, <1>1 DEF Tries
<1> HIDE DEF t
<1>3. /\ tries' \in [Probes -> Tries] /\ tries'[p] = t
      /\ \A o \in Probes \ {p} : tries'[o] = tries[o]
      /\ UnderWay' = UnderWay \cup {p}
  BY <1>0, <1>1, <1>2, OneTryMoves
<1>4. Cardinality(UnderWay') <= Workers
  <2>1. Cardinality(UnderWay) < Workers /\ Cardinality(UnderWay) \in Nat /\ Workers \in Nat
    BY <1>0, EvalAssumption, FS_CardinalityType DEF StartQuery
  <2>2. Cardinality(UnderWay \cup {p}) <= Cardinality(UnderWay) + 1
    BY <1>0, <2>1, FS_AddElement
  <2>3. Cardinality(UnderWay \cup {p}) \in Nat
    BY <1>0, FS_AddElement, FS_CardinalityType
  <2> QED BY <1>3, <2>1, <2>2, <2>3
<1>5. UNCHANGED <<training, stage, scores, orphaned>> /\ commands' = commands \cup {p}
  BY DEF StartQuery
<1>6. doubted' = IF UnderWay = {} /\ orphaned = {} THEN doubted
                 ELSE doubted \cup {p} \cup {o \in Probes : tries[o].at = "running"}
  BY DEF StartQuery
<1>7. ASSUME NEW o \in Probes PROVE Vouched(o)'
  <2>1. Vouched(o) /\ Vouched(p)
    BY DEF EvalInv
  <2>2. CASE o = p
    <3>1. p \notin doubted' => UnderWay' = {p} /\ orphaned' = {}
      BY <1>3, <1>5, <1>6
    <3> QED BY <1>1, <1>2, <1>3, <2>1, <2>2, <3>1 DEF Vouched
  <2>3. CASE o # p
    <3>1. tries'[o] = tries[o] /\ (o \in doubted => o \in doubted')
      BY <1>3, <1>6, <2>3
    <3>2. tries[o].at = "running" => o \in doubted'
      BY <1>6 DEF UnderWay
    <3> QED BY <2>1, <3>1, <3>2 DEF Vouched
  <2> QED BY <2>2, <2>3
<1>8. doubted' \subseteq Probes /\ commands' \subseteq UnderWay' \cup orphaned'
  BY <1>3, <1>5, <1>6 DEF EvalInv
<1> QED BY <1>1, <1>3, <1>4, <1>5, <1>7, <1>8 DEF EvalInv

\* A try that has been alone is answered by its own file or by none.
LEMMA AnswerKeeps == ASSUME EvalInv, NEW p \in Probes, Answer(p) PROVE EvalInv'
<1>0. tries \in [Probes -> Tries]
  BY DEF EvalInv
<1>1. PICK c \in commands \cup {NoCommand} :
         tries' = [tries EXCEPT ![p].at = "answered", ![p].chose = c]
  BY DEF Answer
<1> DEFINE t == [tries[p] EXCEPT !.at = "answered", !.chose = c]
<1>2. tries' = [tries EXCEPT ![p] = t] /\ tries[p].at = "running"
  BY <1>0, <1>1 DEF Answer
<1>3. c \in Probes \cup {NoCommand, Left}
  BY DEF EvalInv, UnderWay
<1>4. t \in Tries /\ t.at = "answered" /\ t.result = tries[p].result /\ t.chose = c
  BY <1>0, <1>3 DEF Tries
<1> HIDE DEF t
<1>5. /\ tries' \in [Probes -> Tries] /\ tries'[p] = t
      /\ \A o \in Probes \ {p} : tries'[o] = tries[o]
      /\ UnderWay' = UnderWay
  BY <1>0, <1>2, <1>4, OneTryMoves DEF UnderWay
<1>6. UNCHANGED <<training, stage, scores, doubted, orphaned, commands>>
  BY DEF Answer
<1>7. ASSUME NEW o \in Probes PROVE Vouched(o)'
  <2>1. Vouched(o) /\ Vouched(p)
    BY DEF EvalInv
  <2>2. CASE o = p
    <3>1. p \notin doubted => commands \subseteq {p}
      BY <1>2, <2>1 DEF Vouched, EvalInv
    <3> QED BY <1>2, <1>4, <1>5, <1>6, <2>1, <2>2, <3>1 DEF Vouched
  <2>3. CASE o # p
    BY <1>5, <1>6, <2>1, <2>3 DEF Vouched
  <2> QED BY <2>2, <2>3
<1> QED BY <1>5, <1>6, <1>7 DEF EvalInv

\* A try is read, or is in doubt.
LEMMA FinishQueryKeeps == ASSUME EvalInv, NEW p \in Probes, FinishQuery(p) PROVE EvalInv'
<1>0. tries \in [Probes -> Tries] /\ IsFiniteSet(UnderWay) /\ UnderWay \subseteq Probes
  BY ProbesFinite, FS_Subset DEF EvalInv, UnderWay
<1>1. PICK unheard \in BOOLEAN :
         /\ tries' = [tries EXCEPT ![p].at = "done",
                                  ![p].result = ~unheard /\ Triggered(p, tries[p].chose)]
         /\ doubted' = IF unheard THEN doubted \cup {p} ELSE doubted
  BY DEF FinishQuery, Reads
<1> DEFINE r == ~unheard /\ Triggered(p, tries[p].chose)
           t == [tries[p] EXCEPT !.at = "done", !.result = r]
<1>2. r \in BOOLEAN /\ (r => tries[p].chose = p) /\ (~r => unheard \/ tries[p].chose # p)
  BY DEF Triggered
<1>3. tries' = [tries EXCEPT ![p] = t] /\ tries[p].at = "answered"
  <2> HIDE DEF r
  <2> QED BY <1>0, <1>1 DEF FinishQuery, Reads, r
<1> HIDE DEF r
<1>4. t \in Tries /\ t.at = "done" /\ t.result = r /\ t.chose = tries[p].chose
  BY <1>0, <1>2 DEF Tries
<1> HIDE DEF t
<1>5. /\ tries' \in [Probes -> Tries] /\ tries'[p] = t
      /\ \A o \in Probes \ {p} : tries'[o] = tries[o]
      /\ UnderWay' = UnderWay \ {p}
  BY <1>0, <1>3, <1>4, OneTryMoves
<1>6. Cardinality(UnderWay') <= Workers
  <2>1. /\ Cardinality(UnderWay') <= Cardinality(UnderWay)
        /\ Cardinality(UnderWay) \in Nat /\ Cardinality(UnderWay') \in Nat
    BY <1>0, <1>5, FS_Subset, FS_CardinalityType
  <2> QED BY <2>1, EvalAssumption DEF EvalInv
<1>7. UNCHANGED <<training, stage, scores, orphaned>> /\ commands' = commands \ {p}
  BY DEF FinishQuery, Reads
<1>8. ASSUME NEW o \in Probes PROVE Vouched(o)'
  <2>1. Vouched(o) /\ Vouched(p)
    BY DEF EvalInv
  <2>2. CASE o = p
    <3>1. p # NoCommand /\ tries'[p].at = "done" /\ tries'[p].result = r /\ tries'[p].chose = tries[p].chose
      BY <1>4, <1>5, ProbeIsSome
    <3>2. p \notin doubted' => ~unheard /\ tries[p].chose \in {p, NoCommand}
      BY <1>1, <1>3, <2>1 DEF Vouched
    <3> QED BY <1>2, <2>2, <3>1, <3>2 DEF Vouched
  <2>3. CASE o # p
    <3>1. tries'[o] = tries[o] /\ (o \in doubted => o \in doubted')
      BY <1>1, <1>5, <2>3
    <3>2. UnderWay = {o} => UnderWay' = {o}
      BY <1>5, <2>3
    <3> QED BY <1>7, <2>1, <3>1, <3>2 DEF Vouched
  <2> QED BY <2>2, <2>3
<1>9. doubted' \subseteq Probes /\ commands' \subseteq UnderWay' \cup orphaned'
  BY <1>1, <1>5, <1>7 DEF EvalInv
<1>10. stage' # "evaluate" => UnderWay' = {}
  BY <1>5, <1>7 DEF EvalInv
<1> QED BY <1>5, <1>6, <1>7, <1>8, <1>9, <1>10 DEF EvalInv

\* What was not done is in doubt.
LEMMA WorkerKilledKeeps == ASSUME EvalInv, NEW p \in Probes, WorkerKilled(p) PROVE EvalInv'
<1>0. tries \in [Probes -> Tries] /\ tries[p].at \in {"running", "answered"}
  BY DEF EvalInv, WorkerKilled
<1>1. \A o \in Probes : tries'[o] = IF tries[o].at = "done" THEN tries[o]
                                    ELSE [tries[o] EXCEPT !.at = "done"]
  BY DEF WorkerKilled
<1>2. \A o \in Probes : /\ tries'[o] \in Tries /\ tries'[o].at = "done"
                        /\ tries'[o].result = tries[o].result /\ tries'[o].chose = tries[o].chose
  <2>1. ASSUME NEW o \in Probes
        PROVE  /\ tries'[o] \in Tries /\ tries'[o].at = "done"
               /\ tries'[o].result = tries[o].result /\ tries'[o].chose = tries[o].chose
    <3> DEFINE try == tries[o]
    <3>1. try \in Tries
      BY <1>0
    <3>2. tries'[o] = IF try.at = "done" THEN try ELSE [try EXCEPT !.at = "done"]
      BY <1>1
    <3> HIDE DEF try
    <3>3. "done" \in {"waiting", "running", "answered", "done"}
      OBVIOUS
    <3>4. [try EXCEPT !.at = "done"] \in Tries /\ [try EXCEPT !.at = "done"].at = "done"
          /\ [try EXCEPT !.at = "done"].result = try.result /\ [try EXCEPT !.at = "done"].chose = try.chose
      BY <3>1, <3>3 DEF Tries
    <3>5. tries'[o] \in Tries /\ tries'[o].at = "done" /\ tries'[o].result = try.result /\ tries'[o].chose = try.chose
      BY <3>1, <3>2, <3>4
    <3> QED
      BY <3>5 DEF try
  <2> QED
    BY <2>1
<1>3. tries' \in [Probes -> Tries]
  BY <1>2 DEF WorkerKilled
<1>4. UnderWay' = {} /\ Cardinality(UnderWay') = 0
  BY <1>2, FS_EmptySet DEF UnderWay
<1>5. /\ UNCHANGED <<training, scores>> /\ orphaned' = {Left} /\ commands' = {Left}
      /\ stage' \in {stage, "error"}
      /\ doubted' = doubted \cup {o \in Probes : tries[o].at # "done"}
  BY DEF WorkerKilled
<1>6. ASSUME NEW o \in Probes PROVE Vouched(o)'
  <2>1. Vouched(o)
    BY DEF EvalInv
  <2>2. o \notin doubted' => tries[o].at = "done" /\ o \notin doubted
    BY <1>5
  <2> QED BY <1>2, <2>1, <2>2 DEF Vouched
<1>7. stage = "evaluate"
  BY <1>0 DEF EvalInv, UnderWay
<1>8. doubted' \subseteq Probes
  BY <1>5 DEF EvalInv
<1> QED BY <1>3, <1>4, <1>5, <1>6, <1>7, <1>8, EvalAssumption DEF EvalInv, Ended

\* More tries that went for the skill do not make fewer, and as many make no difference.
LEMMA MoreTriggers ==
  ASSUME NEW q \in Queries, NEW t \in SUBSET (1 .. RunsPerQuery), NEW w \in SUBSET (1 .. RunsPerQuery),
         t \subseteq w
  PROVE  /\ q \in ShouldTrigger => (Passes(q, t) => Passes(q, w))
         /\ q \notin ShouldTrigger => (Passes(q, w) => Passes(q, t))
<1>1. 1 \in Int /\ RunsPerQuery \in Int /\ RunsPerQuery \in Nat
  BY EvalAssumption
<1>2. IsFiniteSet(1 .. RunsPerQuery)
  BY <1>1, FS_Interval
<1>3. IsFiniteSet(t) /\ IsFiniteSet(w)
  BY <1>2, FS_Subset
<1> DEFINE m == Cardinality(t)  n == Cardinality(w)
<1>4. m \in Nat /\ n \in Nat /\ m <= n
  BY <1>3, FS_Subset, FS_CardinalityType
<1> HIDE DEF m, n
<1>5. 2 * m >= RunsPerQuery => 2 * n >= RunsPerQuery
  BY <1>1, <1>4
<1> QED BY <1>5 DEF Passes, m, n

\* When all tries are done, their count tells what they deserve.
LEMMA EvaluatedKeeps == ASSUME EvalInv, Evaluated PROVE EvalInv'
<1> DEFINE passed == {q \in Queries : Passes(q, Triggers(q))}
           deserved == {q \in Queries : Passes(q, Went(q))}
           inDoubt == {p[1] : p \in doubted}
           s == [passed |-> passed, deserved |-> deserved, doubted |-> inDoubt]
           n == Len(scores)
<1>1. /\ stage = "evaluate" /\ \A p \in Probes : tries[p].at = "done"
      /\ scores' = Append(scores, s)
      /\ stage' = IF training \subseteq passed THEN "all_passed"
                  ELSE IF n + 1 = MaxIterations THEN "max_iterations"
                  ELSE "improve"
      /\ UNCHANGED <<training, tries, doubted, commands, orphaned>>
  BY DEF Evaluated
<1>2. inDoubt \subseteq Queries
  BY DEF EvalInv, Probes
<1>3. ASSUME NEW q \in Queries
      PROVE  /\ Triggers(q) \in SUBSET (1 .. RunsPerQuery) /\ Went(q) \in SUBSET (1 .. RunsPerQuery)
             /\ Triggers(q) \subseteq Went(q)
             /\ q \notin inDoubt => Triggers(q) = Went(q)
  <2>1. ASSUME NEW k \in 1 .. RunsPerQuery
        PROVE  /\ tries[<<q, k>>].result => tries[<<q, k>>].chose # NoCommand
               /\ q \notin inDoubt => (tries[<<q, k>>].result <=> tries[<<q, k>>].chose # NoCommand)
    <3> DEFINE o == <<q, k>>
    <3>1. o \in Probes /\ o[1] = q
      BY DEF Probes
    <3>2. q \notin inDoubt => o \notin doubted
      BY <3>1
    <3> HIDE DEF o, inDoubt
    <3>3. Vouched(o) /\ tries[o].at = "done"
      BY <1>1, <3>1 DEF EvalInv
    <3>4. /\ tries[o].result => tries[o].chose # NoCommand
          /\ q \notin inDoubt => (tries[o].result <=> tries[o].chose # NoCommand)
      BY <3>2, <3>3 DEF Vouched
    <3> QED BY <3>4 DEF o
  <2> HIDE DEF inDoubt
  <2> QED BY <2>1 DEF Triggers, Went
<1>4. ASSUME NEW q \in Queries
      PROVE  /\ q \in ShouldTrigger => (q \in passed => q \in deserved)
             /\ q \notin ShouldTrigger => (q \in deserved => q \in passed)
             /\ q \notin inDoubt => (q \in passed <=> q \in deserved)
  <2>1. /\ q \in passed <=> Passes(q, Triggers(q))
        /\ q \in deserved <=> Passes(q, Went(q))
    OBVIOUS
  <2> HIDE DEF passed, deserved, inDoubt
  <2>2. /\ q \in ShouldTrigger => (Passes(q, Triggers(q)) => Passes(q, Went(q)))
        /\ q \notin ShouldTrigger => (Passes(q, Went(q)) => Passes(q, Triggers(q)))
    BY <1>3, MoreTriggers
  <2> QED BY <1>3, <2>1, <2>2
<1>5. passed \subseteq Queries /\ deserved \subseteq Queries
  OBVIOUS
<1> HIDE DEF passed, deserved, inDoubt
<1>6. s \in Scored /\ ScoreTrue(s)
  <2>1. /\ passed \ inDoubt = deserved \ inDoubt
        /\ passed \cap ShouldTrigger \subseteq deserved /\ deserved \ ShouldTrigger \subseteq passed
    BY <1>4, <1>5
  <2> QED BY <1>2, <1>5, <2>1 DEF Scored, ScoreTrue
<1>7. scores \in Seq(Scored) /\ n \in Nat /\ \A i \in DOMAIN scores : ScoreTrue(scores[i])
  BY DEF EvalInv
<1> HIDE DEF s
<1>8. /\ scores' \in Seq(Scored) /\ Len(scores') = n + 1 /\ scores' # <<>>
      /\ \A i \in 1 .. n : scores'[i] = scores[i]
      /\ scores'[n + 1] = s /\ DOMAIN scores' = 1 .. (n + 1) /\ DOMAIN scores = 1 .. n
  BY <1>1, <1>6, <1>7, AppendProperties
<1>9. \A i \in DOMAIN scores' : ScoreTrue(scores'[i])
  <2> SUFFICES ASSUME NEW i \in 1 .. (n + 1) PROVE ScoreTrue(scores'[i])
    BY <1>8
  <2> HIDE DEF n
  <2>1. i \in 1 .. n \/ i = n + 1
    BY <1>7
  <2> QED BY <1>6, <1>7, <1>8, <2>1
<1>10. n < MaxIterations /\ MaxIterations \in Nat
  BY <1>1, EvalAssumption DEF EvalInv
<1> HIDE DEF n
<1>11. /\ Len(scores') <= MaxIterations
       /\ stage' \in {"evaluate", "improve"} => Len(scores') < MaxIterations
       /\ stage' \in {"evaluate", "improve"} \cup Ended
  BY <1>1, <1>7, <1>8, <1>10 DEF Ended
<1>12. UnderWay = {} /\ UnderWay' = UnderWay
  BY <1>1 DEF UnderWay
<1>13. \A p \in Probes : Vouched(p)'
  BY <1>1, <1>12 DEF EvalInv, Vouched
<1> QED BY <1>1, <1>8, <1>9, <1>11, <1>12, <1>13 DEF EvalInv

\* The next iteration starts anew.
LEMMA ImproveKeeps == ASSUME EvalInv, Improve PROVE EvalInv'
<1>1. /\ stage = "improve" /\ stage' \in {"evaluate", "error"} /\ doubted' = {}
      /\ UNCHANGED <<training, scores, commands, orphaned>>
      /\ tries' \in [Probes -> Tries]
      /\ \A p \in Probes : tries'[p].at = "waiting" /\ ~tries'[p].result
  BY DEF Improve, Idling, Tries
<1>2. UnderWay' = {} /\ UnderWay = {} /\ Cardinality(UnderWay') = 0
  BY <1>1, FS_EmptySet DEF UnderWay, EvalInv
<1>3. \A p \in Probes : Vouched(p)'
  BY <1>1 DEF Vouched
<1> QED BY <1>1, <1>2, <1>3, EvalAssumption DEF EvalInv, Ended

\* Every step of an evaluation, and of those that are put on, keeps the invariant.
LEMMA EvalKeeps == EvalInv /\ [EvalNext]_evalVars => EvalInv'
<1> SUFFICES ASSUME EvalInv, [EvalNext]_evalVars PROVE EvalInv'
  OBVIOUS
<1>1. ASSUME NEW p \in Probes, StartQuery(p) \/ Answer(p) \/ FinishQuery(p) \/ WorkerKilled(p) PROVE EvalInv'
  BY <1>1, StartQueryKeeps, AnswerKeeps, FinishQueryKeeps, WorkerKilledKeeps
<1>2. CASE Evaluated
  BY <1>2, EvaluatedKeeps
<1>3. CASE Improve
  BY <1>3, ImproveKeeps
<1>4. CASE UNCHANGED evalVars
  <2>1. UnderWay' = UnderWay
    BY <1>4 DEF evalVars, UnderWay
  <2> QED BY <1>4, <2>1 DEF EvalInv, evalVars, Vouched
<1> QED BY <1>1, <1>2, <1>3, <1>4 DEF EvalNext

\* So the invariant holds throughout.
LEMMA EvalAlways == EvalSpec => []EvalInv
BY EvalInitially, EvalKeeps, PTL DEF EvalSpec

\* There is a first among the best.
LEMMA BestIs ==
  ASSUME EvalInv, scores # <<>>
  PROVE  /\ \A i \in DOMAIN scores : Score(i) \in Nat
         /\ Best \in DOMAIN scores /\ \A j \in DOMAIN scores : Score(j) <= Score(Best)
<1> DEFINE n == Cardinality(Queries)
           R == IF Testing = {} THEN training ELSE Testing
<1>1. scores \in Seq(Scored) /\ R \subseteq Queries /\ IsFiniteSet(Queries) /\ n \in Nat
  BY EvalAssumption, FS_CardinalityType DEF EvalInv, Testing
<1>2. DOMAIN scores \in SUBSET Nat /\ DOMAIN scores # {} /\ \A i \in DOMAIN scores : scores[i] \in Scored
  <2>1. DOMAIN scores = 1 .. Len(scores) /\ Len(scores) \in Nat /\ Len(scores) # 0
    BY <1>1, EmptySeq
  <2> QED BY SMTT(30), <1>1, <2>1
<1>3. \A i \in DOMAIN scores : Score(i) \in Nat /\ Score(i) <= n
  <2> SUFFICES ASSUME NEW i \in DOMAIN scores PROVE Score(i) \in Nat /\ Score(i) <= n
    OBVIOUS
  <2>1. scores[i].passed \cap R \subseteq Queries
    BY <1>1
  <2>2. Cardinality(scores[i].passed \cap R) \in Nat /\ Cardinality(scores[i].passed \cap R) <= n
    BY <1>1, <2>1, FS_Subset, FS_CardinalityType
  <2> QED BY <2>2 DEF Score
<1> DEFINE T == {n - Score(i) : i \in DOMAIN scores}
<1>4. T \in SUBSET Nat /\ T # {}
  BY <1>1, <1>2, <1>3
<1>5. PICK x \in T : \A y \in T : x <= y
  BY <1>4, Least
<1>6. PICK b \in DOMAIN scores : x = n - Score(b)
  BY <1>5
<1>7. \A j \in DOMAIN scores : Score(j) <= Score(b)
  <2> SUFFICES ASSUME NEW j \in DOMAIN scores PROVE Score(j) <= Score(b)
    OBVIOUS
  <2>1. n - Score(b) <= n - Score(j)
    BY <1>5, <1>6
  <2> QED BY <1>1, <1>3, <2>1
<1> DEFINE U == {i \in DOMAIN scores : Score(i) = Score(b)}
<1>8. U \in SUBSET Nat /\ U # {}
  BY <1>2
<1>9. PICK f \in U : \A y \in U : f <= y
  BY <1>8, Least
<1>10. /\ f \in DOMAIN scores /\ \A j \in DOMAIN scores : Score(j) <= Score(f)
       /\ \A j \in 1 .. (f - 1) : Score(j) < Score(f)
  <2>1. f \in DOMAIN scores /\ Score(f) = Score(b)
    BY <1>9
  <2>2. ASSUME NEW j \in 1 .. (f - 1) PROVE Score(j) < Score(f)
    <3>1. j \in DOMAIN scores /\ j < f
      BY <1>1, <2>1
    <3>2. j \notin U
      BY <1>8, <1>9, <3>1
    <3>3. Score(j) # Score(b) /\ Score(j) <= Score(b) /\ Score(j) \in Nat /\ Score(b) \in Nat
      BY <1>3, <1>6, <1>7, <3>1, <3>2
    <3> QED BY <2>1, <3>3
  <2> QED BY <1>7, <2>1, <2>2
<1> QED BY <1>3, <1>10 DEF Best

\* Where neither is in doubt, what the best has passed of what was held out is what it deserved.
LEMMA EvaluationFollows == EvalInv => EvalTypeOK /\ EvaluationHolds
<1> SUFFICES ASSUME EvalInv PROVE EvalTypeOK /\ EvaluationHolds
  OBVIOUS
<1>1. EvalTypeOK
  <2>1. commands \subseteq Probes \cup {Left}
    BY DEF EvalInv, UnderWay
  <2> QED BY <2>1 DEF EvalInv, EvalTypeOK, Tries, Scored
<1>2. ScoresAreTrue
  BY DEF EvalInv, ScoresAreTrue, ScoreTrue
<1>3. BestIsBest
  <2> SUFFICES ASSUME stage \in {"all_passed", "max_iterations"}, Testing # {}, NEW i \in DOMAIN scores,
                      scores[i].doubted \cup scores[Best].doubted \subseteq training
               PROVE  Cardinality(scores[i].deserved \ training)
                          <= Cardinality(scores[Best].deserved \ training)
    BY DEF BestIsBest, Ended
  <2>1. scores # <<>>
    BY DEF EvalInv
  <2>2. Best \in DOMAIN scores /\ Score(i) <= Score(Best)
    BY <2>1, BestIs
  <2>3. ASSUME NEW j \in DOMAIN scores, scores[j].doubted \subseteq training
        PROVE  Score(j) = Cardinality(scores[j].deserved \ training)
    <3>1. scores[j] \in Scored /\ ScoreTrue(scores[j])
      BY DEF EvalInv
    <3>2. scores[j].passed \subseteq Queries /\ scores[j].deserved \subseteq Queries
      BY <3>1 DEF Scored
    <3>3. scores[j].passed \cap Testing = scores[j].deserved \ training
      BY <2>3, <3>1, <3>2 DEF ScoreTrue, Testing
    <3> QED BY <3>3 DEF Score
  <2>4. /\ Score(i) = Cardinality(scores[i].deserved \ training)
        /\ Score(Best) = Cardinality(scores[Best].deserved \ training)
    BY <2>2, <2>3
  <2> QED BY <2>2, <2>4
<1> QED BY <1>1, <1>2, <1>3 DEF EvaluationHolds

\* What the evaluation of a description reports is what claude went for, but for tries
\* that others or killed workers have disturbed or that were not heard, and what it
\* returns is the best on what was held out (run_loop.py: run_loop; run_eval.py: run_eval).
THEOREM EvaluationsReportWhatHappened == EvalSpec => []EvaluationHolds
BY EvalAlways, EvaluationFollows, PTL

\* No more processes are busy than there are workers, and no more iterations made than allowed.
THEOREM EvaluationsTyped == EvalSpec => []EvalTypeOK
BY EvalAlways, EvaluationFollows, PTL

-----------------------------------------------------------------------------
(***************************************************************************)
(* The mounts. A call checks a path and writes to it later, and a link may *)
(* come up in between. The invariant says what a check is worth: as long   *)
(* as the link is the one that the check saw, the path does not lead under *)
(* a read-only mount. The cache of sandboxes is an order of use: it never  *)
(* names one twice, and what it has lost, no call takes for cached.        *)
(***************************************************************************)

\* What a call has checked it may still write, as long as the link is the one it saw.
ChecksStand ==
    /\ trespass = FALSE
    /\ link \in Links \cup {NoLink}
    /\ checked = [s \in Sessions |-> checked[s]]
    /\ \A s \in Sessions : checked[s] # Unchecked =>
          /\ checked[s].link \in {NoLink, link}
          /\ checked[s].link = link => ~Protected(Along(link, <<>>, checked[s].local))

\* Nothing has been checked at the start.
LEMMA MountsInitially == MountInit => ChecksStand
BY DEF MountInit, ChecksStand

\* A text gets into the file that was checked, or a link has come up since.
LEMMA LandsKeeps ==
  ASSUME ChecksStand, NEW s \in Sessions, NEW text, Lands(s, text), link' = link
  PROVE  ChecksStand'
<1>1. /\ checked[s] # Unchecked /\ checked' = [checked EXCEPT ![s] = Unchecked]
      /\ trespass' = (trespass \/ (Protected(Along(link, <<>>, checked[s].local)) /\ link = checked[s].link))
  BY DEF Lands, Walk
<1>2. trespass' = FALSE
  BY <1>1 DEF ChecksStand
<1> QED BY <1>1, <1>2 DEF ChecksStand

\* Every call, and whoever makes the link, keeps what the checks have found.
LEMMA MountsKeep == ChecksStand /\ [MountNext]_mountVars => ChecksStand'
<1> SUFFICES ASSUME ChecksStand, [MountNext]_mountVars PROVE ChecksStand'
  OBVIOUS
<1>1. CASE UNCHANGED <<checked, link, trespass>>
  BY <1>1 DEF ChecksStand
<1>2. ASSUME NEW s \in Sessions, NEW p, CheckWrite(s, p) PROVE ChecksStand'
  <2>1. /\ checked' = [checked EXCEPT ![s] = [local |-> Resolve(p), link |-> link]]
        /\ ~Protected(Along(link, <<>>, Resolve(p))) /\ UNCHANGED <<link, trespass>>
    BY <1>2 DEF CheckWrite, MayWrite, Host, Walk
  <2> DEFINE local == Resolve(p)
             r == [local |-> local, link |-> link]
  <2> HIDE DEF local
  <2>2. r.local = local /\ r.link = link
    OBVIOUS
  <2>3. checked' = [checked EXCEPT ![s] = r] /\ ~Protected(Along(link, <<>>, local))
    BY <2>1 DEF local
  <2> HIDE DEF r
  <2> QED BY <2>1, <2>2, <2>3 DEF ChecksStand
<1>3. ASSUME NEW s \in Sessions, WriteRefused(s) PROVE ChecksStand'
  BY <1>3 DEF WriteRefused, ChecksStand
<1>4. ASSUME NEW s \in Sessions, NEW mention, UpdateBytes(s, mention) PROVE ChecksStand'
  BY <1>4, LandsKeeps DEF UpdateBytes
<1>5. ASSUME NEW s \in Sessions, NEW mention, NEW append \in BOOLEAN, WriteText(s, mention, append)
      PROVE  ChecksStand'
  BY <1>5, LandsKeeps DEF WriteText
<1>6. ASSUME NEW s \in Sessions, NEW p, Execute(s, p) PROVE ChecksStand'
  <2>1. UNCHANGED <<checked, trespass>> /\ (link' = link \/ (link = NoLink /\ link' \in Links))
    BY <1>6 DEF Execute, Done
  <2> QED BY <2>1 DEF ChecksStand
<1>7. ASSUME NEW s \in Sessions, AcquireSandbox(s) \/ GetSandbox(s) \/ ForceRelease(s) \/ ReadOrList(s)
      PROVE  UNCHANGED <<checked, link, trespass>>
  BY <1>7 DEF AcquireSandbox, GetSandbox, ForceRelease, ReadOrList, Done
<1>8. ResetProvider \/ UNCHANGED mountVars => UNCHANGED <<checked, link, trespass>>
  BY DEF ResetProvider, mountVars
<1> QED BY <1>1, <1>2, <1>3, <1>4, <1>5, <1>6, <1>7, <1>8 DEF MountNext

\* No tool writes under a read-only mount but where a link was made after the check
\* (local_sandbox.py: _check_write_permission, write_file, update_file).
THEOREM ReadOnlyMountsStayAsTheyAre == MountSpec => []ReadOnlyKept
<1>1. ChecksStand => ReadOnlyKept
  BY DEF ChecksStand, ReadOnlyKept
<1> QED BY <1>1, MountsInitially, MountsKeep, PTL DEF MountSpec

-----------------------------------------------------------------------------
(***************************************************************************)
(* Paths.  What resolve() returns, it returns again; so a path that is     *)
(* turned into the container's name for it and back is where it was.       *)
(***************************************************************************)

\* f is where resolve() is after every segment up to the n-th.
Leads(f, l, root, segments, n) ==
    f = [i \in 0 .. n |-> IF i = 0 THEN root ELSE Further(l, f[i - 1], segments[i])]

\* There is such an f.
LEMMA LeadsExists == ASSUME NEW l, NEW root, NEW segments
                     PROVE  \A n \in Nat : \E f : Leads(f, l, root, segments, n)
<1> DEFINE T == {n \in Nat : \E f : Leads(f, l, root, segments, n)}
<1>1. 0 \in T
  <2>1. Leads([i \in 0 .. 0 |-> root], l, root, segments, 0)
    BY DEF Leads
  <2> QED BY <2>1
<1>2. ASSUME NEW n \in Nat \ {0}, n - 1 \in T PROVE n \in T
  <2>1. PICK f : Leads(f, l, root, segments, n - 1)
    BY <1>2
  <2> DEFINE v == Further(l, f[n - 1], segments[n])
             g == [i \in 0 .. n |-> IF i = n THEN v ELSE f[i]]
  <2>2. (\A i \in 0 .. (n - 1) : g[i] = f[i]) /\ g[n] = v /\ g = [i \in 0 .. n |-> g[i]]
    OBVIOUS
  <2>3. \A i \in 0 .. (n - 1) : f[i] = IF i = 0 THEN root ELSE Further(l, f[i - 1], segments[i])
    <3> DEFINE h == [i \in 0 .. (n - 1) |-> IF i = 0 THEN root ELSE Further(l, f[i - 1], segments[i])]
    <3>1. f = h
      BY <2>1 DEF Leads
    <3>2. \A i \in 0 .. (n - 1) : h[i] = IF i = 0 THEN root ELSE Further(l, f[i - 1], segments[i])
      OBVIOUS
    <3> HIDE DEF h
    <3> QED BY <3>1, <3>2
  <2> HIDE DEF g
  <2>4. ASSUME NEW i \in 0 .. n PROVE g[i] = IF i = 0 THEN root ELSE Further(l, g[i - 1], segments[i])
    <3>1. CASE i = n
      <4>1. n - 1 \in 0 .. (n - 1) /\ n # 0
        OBVIOUS
      <4>2. g[n - 1] = f[n - 1]
        BY <2>2, <4>1
      <4> QED BY <2>2, <3>1, <4>1, <4>2
    <3>2. CASE i # n
      <4>1. i \in 0 .. (n - 1) /\ (i # 0 => i - 1 \in 0 .. (n - 1))
        BY <3>2
      <4> QED BY <2>2, <2>3, <4>1
    <3> QED BY <3>1, <3>2
  <2>5. Leads(g, l, root, segments, n)
    BY <2>2, <2>4 DEF Leads
  <2> QED BY <2>5
<1> HIDE DEF T
<1>3. T = Nat
  <2>1. T \in SUBSET Nat
    BY DEF T
  <2> QED BY <1>1, <1>2, <2>1, Induction
<1> QED BY <1>3 DEF T

\* From root, segment by segment, to what Along returns.
Arrives(f, l, root, segments) ==
    /\ f[0] = root /\ Along(l, root, segments) = f[Len(segments)]
    /\ \A i \in 1 .. Len(segments) : f[i] = Further(l, f[i - 1], segments[i])

\* What Along returns is where it is after the last segment.
LEMMA AlongIs == ASSUME NEW l, NEW root, NEW segments \in Paths PROVE \E f : Arrives(f, l, root, segments)
<1> DEFINE f == CHOOSE f : Leads(f, l, root, segments, Len(segments))
<1>1. Leads(f, l, root, segments, Len(segments)) /\ Len(segments) \in Nat
  <2>1. Len(segments) \in Nat
    BY DEF Paths
  <2>2. \E g : Leads(g, l, root, segments, Len(segments))
    BY <2>1, LeadsExists
  <2> QED BY <2>1, <2>2, Zenon
<1>2. Along(l, root, segments) = f[Len(segments)]
  BY Zenon DEF Along, Leads
<1> HIDE DEF f
<1>3. \A i \in 0 .. Len(segments) : f[i] = IF i = 0 THEN root ELSE Further(l, f[i - 1], segments[i])
  <2> DEFINE h == [i \in 0 .. Len(segments) |-> IF i = 0 THEN root ELSE Further(l, f[i - 1], segments[i])]
  <2>1. f = h
    BY <1>1 DEF Leads
  <2>2. \A i \in 0 .. Len(segments) : h[i] = IF i = 0 THEN root ELSE Further(l, f[i - 1], segments[i])
    OBVIOUS
  <2> HIDE DEF h
  <2> QED BY <2>1, <2>2
<1>4. /\ 0 \in 0 .. Len(segments)
      /\ \A i \in 1 .. Len(segments) : i \in 0 .. Len(segments) /\ i # 0
  BY <1>1
<1>5. Arrives(f, l, root, segments)
  BY <1>2, <1>3, <1>4 DEF Arrives
<1> QED BY <1>5

\* One segment further than where resolve() has nothing to do, it has nothing to do again.
LEMMA FurtherCanonical == ASSUME NEW l, Canonical(l, l.to), NEW p, Canonical(l, p), NEW segment \in STRING
                          PROVE  Canonical(l, Further(l, p, segment))
<1>1. p \in Seq(STRING) /\ Len(p) \in Nat /\ \A i \in 1 .. Len(p) : p[i] # ".." /\ SubSeq(p, 1, i) # l.at
  BY DEF Canonical, Paths
<1>2. CASE segment = ".."
  <2> DEFINE q == SubSeq(p, 1, Len(p) - 1)
  <2>1. /\ q \in Seq(STRING) /\ DOMAIN q = 1 .. (Len(p) - 1)
        /\ \A i \in 1 .. (Len(p) - 1) : q[i] = p[i] /\ i \in 1 .. Len(p)
    BY <1>1
  <2>2. \A i \in 1 .. (Len(p) - 1) : SubSeq(q, 1, i) = SubSeq(p, 1, i)
    BY <1>1, <2>1
  <2>3. Further(l, p, segment) = q
    BY <1>2 DEF Further
  <2> HIDE DEF q
  <2> QED BY <1>1, <2>1, <2>2, <2>3 DEF Canonical, Paths
<1>3. CASE segment # ".." /\ Append(p, segment) = l.at
  BY <1>3 DEF Further
<1>4. CASE segment # ".." /\ Append(p, segment) # l.at
  <2> DEFINE q == Append(p, segment)
  <2>1. /\ q \in Seq(STRING) /\ DOMAIN q = 1 .. (Len(p) + 1) /\ q[Len(p) + 1] = segment
        /\ \A i \in 1 .. Len(p) : q[i] = p[i]
    BY <1>1
  <2>2. SubSeq(q, 1, Len(p) + 1) = q /\ \A i \in 1 .. Len(p) : SubSeq(q, 1, i) = SubSeq(p, 1, i)
    BY <1>1, <2>1
  <2>3. Further(l, p, segment) = q /\ q # l.at
    BY <1>4 DEF Further
  <2> HIDE DEF q
  <2>4. \A i \in 1 .. (Len(p) + 1) : i \in 1 .. Len(p) \/ i = Len(p) + 1
    BY <1>1
  <2> QED BY <1>1, <1>4, <2>1, <2>2, <2>3, <2>4 DEF Canonical, Paths
<1> QED BY <1>2, <1>3, <1>4

\* So what Along returns is resolved.
LEMMA AlongCanonical == ASSUME NEW l, Canonical(l, l.to), NEW root, Canonical(l, root), NEW segments \in Paths
                        PROVE  Canonical(l, Along(l, root, segments))
<1>0. PICK f : Arrives(f, l, root, segments)
  BY AlongIs
<1>1. /\ f[0] = root /\ Along(l, root, segments) = f[Len(segments)]
      /\ \A i \in 1 .. Len(segments) : f[i] = Further(l, f[i - 1], segments[i])
  BY <1>0 DEF Arrives
<1> DEFINE N == Len(segments)
<1>2. N \in Nat /\ \A i \in 1 .. N : segments[i] \in STRING
  BY DEF Paths
<1> HIDE DEF N
<1> DEFINE T == {n \in Nat : n <= N => Canonical(l, f[n])}
<1>3. 0 \in T
  BY <1>1
<1>4. ASSUME NEW n \in Nat \ {0}, n - 1 \in T PROVE n \in T
  <2>1. SUFFICES ASSUME n <= N PROVE Canonical(l, f[n])
    OBVIOUS
  <2>2. n \in 1 .. N /\ n - 1 <= N
    BY <1>2, <2>1
  <2>3. f[n] = Further(l, f[n - 1], segments[n]) /\ segments[n] \in STRING /\ Canonical(l, f[n - 1])
    BY <1>1, <1>2, <1>4, <2>2 DEF N
  <2> QED BY <2>3, FurtherCanonical
<1>5. T = Nat
  <2>1. T \in SUBSET Nat
    OBVIOUS
  <2> HIDE DEF T
  <2> QED BY <1>3, <1>4, <2>1, Induction
<1>6. N \in T /\ N <= N
  BY <1>2, <1>5
<1> QED BY <1>1, <1>6 DEF N

\* And what is resolved is where Along returns to, from any of its beginnings.
LEMMA AlongStays == ASSUME NEW l, NEW root \in Paths, NEW segments \in Paths, Canonical(l, root \o segments)
                    PROVE  Along(l, root, segments) = root \o segments
<1>0. PICK f : Arrives(f, l, root, segments)
  BY AlongIs
<1>1. /\ f[0] = root /\ Along(l, root, segments) = f[Len(segments)]
      /\ \A i \in 1 .. Len(segments) : f[i] = Further(l, f[i - 1], segments[i])
  BY <1>0 DEF Arrives
<1> DEFINE N == Len(segments)
           R == Len(root)
           q == root \o segments
<1>2. /\ N \in Nat /\ R \in Nat /\ q \in Seq(STRING) /\ Len(q) = R + N /\ DOMAIN q = 1 .. (R + N)
      /\ \A i \in 1 .. N : q[R + i] = segments[i]
      /\ SubSeq(q, 1, R) = root /\ SubSeq(q, 1, R + N) = q
  BY DEF Paths
<1>3. \A i \in 1 .. (R + N) : q[i] # ".." /\ SubSeq(q, 1, i) # l.at
  BY <1>2 DEF Canonical
<1> HIDE DEF N, R, q
<1> DEFINE T == {n \in Nat : n <= N => f[n] = SubSeq(q, 1, R + n)}
<1>4. 0 \in T
  BY <1>1, <1>2
<1>5. ASSUME NEW n \in Nat \ {0}, n - 1 \in T PROVE n \in T
  <2>1. SUFFICES ASSUME n <= N PROVE f[n] = SubSeq(q, 1, R + n)
    OBVIOUS
  <2>2. n \in 1 .. N /\ n - 1 <= N /\ R + n \in 1 .. (R + N) /\ R + (n - 1) = (R + n) - 1
    BY <1>2, <2>1
  <2> DEFINE k == R + n
  <2>3. f[n] = Further(l, SubSeq(q, 1, k - 1), q[k])
    <3>1. f[n] = Further(l, f[n - 1], segments[n])
      BY <1>1, <2>2 DEF N
    <3>2. f[n - 1] = SubSeq(q, 1, R + (n - 1))
      BY <1>5, <2>2
    <3>3. segments[n] = q[k]
      BY <1>2, <2>2
    <3> QED BY <2>2, <3>1, <3>2, <3>3
  <2>4. k \in 1 .. Len(q) /\ q[k] # ".." /\ SubSeq(q, 1, k) # l.at
    BY <1>2, <1>3, <2>2
  <2> HIDE DEF k
  <2>5. Append(SubSeq(q, 1, k - 1), q[k]) = SubSeq(q, 1, k)
    BY <1>2, <2>4
  <2> QED BY <2>3, <2>4, <2>5 DEF Further, k
<1>6. T = Nat
  <2>1. T \in SUBSET Nat
    OBVIOUS
  <2> HIDE DEF T
  <2> QED BY <1>4, <1>5, <2>1, Induction
<1> HIDE DEF T
<1>7. N \in T /\ N <= N
  BY <1>2, <1>6
<1>8. f[N] = q
  BY <1>2, <1>7 DEF T
<1> QED BY <1>1, <1>8 DEF q, N

\* A link leads to what is resolved, and directories of mounts are.
LEMMA MountsCanonical == ASSUME link \in Links \cup {NoLink}
                         PROVE  /\ Canonical(link, link.to) /\ Canonical(link, <<>>)
                                /\ \A m \in Mounts : Canonical(link, m.local)
<1>1. CASE link \in Links
  <2> DEFINE none == <<>>
  <2>1. none \in Seq(STRING) /\ DOMAIN none = {}
    OBVIOUS
  <2> HIDE DEF none
  <2>2. Canonical(link, none)
    BY <2>1 DEF Canonical, Paths
  <2>3. Canonical(link, link.to) /\ \A m \in Mounts : Canonical(link, m.local)
    BY <1>1, PathAssumption
  <2> QED BY <2>2, <2>3 DEF none
<1>2. CASE link = NoLink
  <2>1. link.to = <<>> /\ link.at = <<"no link">>
    BY <1>2 DEF NoLink
  <2>2. Canonical(link, <<>>)
    BY DEF Canonical, Paths
  <2>3. ASSUME NEW m \in Mounts PROVE Canonical(link, m.local)
    <3>1. m.local \in Seq(STRING) /\ \A i \in DOMAIN m.local : m.local[i] # ".." /\ m.local[i] # "no link"
      BY PathAssumption DEF Paths
    <3>2. ASSUME NEW i \in DOMAIN m.local PROVE SubSeq(m.local, 1, i) # <<"no link">>
      <4> DEFINE p == m.local
                 none == "no link"
      <4>1. p \in Seq(STRING) /\ i \in DOMAIN p /\ \A k \in DOMAIN p : p[k] # none
        BY <3>1
      <4> HIDE DEF p, none
      <4>2. i \in 1 .. Len(p) /\ Len(p) \in Nat /\ DOMAIN p = 1 .. Len(p)
        BY <4>1
      <4>3. 1 \in DOMAIN p /\ SubSeq(p, 1, i)[1] = p[1]
        BY <4>1, <4>2
      <4>4. <<none>>[1] = none
        OBVIOUS
      <4>5. SubSeq(p, 1, i) # <<none>>
        BY <4>1, <4>3, <4>4
      <4> QED BY <4>5 DEF p, none
    <3> QED BY <2>1, <3>1, <3>2 DEF Canonical, Paths
  <2> QED BY <2>1, <2>2, <2>3
<1> QED BY <1>1, <1>2

\* What follows a directory in a path is a path, and the rest of one put after it is found again.
LEMMA RestIs == ASSUME NEW p \in Paths, NEW root \in Paths
                PROVE  /\ Within(p, root) => Rest(p, root) \in Paths /\ root \o Rest(p, root) = p
                       /\ Within(root \o p, root) /\ Rest(root \o p, root) = p /\ root \o p \in Paths
<1>1. /\ p \in Seq(STRING) /\ root \in Seq(STRING) /\ Len(p) \in Nat /\ Len(root) \in Nat
  BY DEF Paths
<1>2. ASSUME Within(p, root) PROVE Rest(p, root) \in Paths /\ root \o Rest(p, root) = p
  <2>1. Len(root) <= Len(p) /\ SubSeq(p, 1, Len(root)) = root
    BY <1>2 DEF Within
  <2>2. Rest(p, root) \in Seq(STRING)
    BY <1>1, <2>1 DEF Rest
  <2> DEFINE R == Len(root)
             q == SubSeq(p, R + 1, Len(p))
  <2>3. q \in Seq(STRING) /\ Len(q) = Len(p) - R /\ \A j \in 1 .. (Len(p) - R) : q[j] = p[R + j]
    BY <1>1, <2>1
  <2>4. R \in Nat /\ R <= Len(p) /\ \A j \in 1 .. R : root[j] = p[j]
    <3>1. \A j \in 1 .. R : SubSeq(p, 1, R)[j] = p[j]
      BY <1>1, <2>1
    <3> QED BY <1>1, <2>1, <3>1
  <2> DEFINE c == root \o q
  <2>5. /\ c \in Seq(STRING) /\ Len(c) = R + Len(q)
        /\ \A j \in 1 .. Len(c) : c[j] = IF j <= R THEN root[j] ELSE q[j - R]
    BY <1>1, <2>3
  <2> HIDE DEF R, q, c
  <2>6. Len(c) = Len(p) /\ \A j \in 1 .. Len(p) : c[j] = p[j]
    BY <1>1, <2>3, <2>4, <2>5
  <2>7. c = p
    BY <1>1, <2>5, <2>6
  <2> QED BY <2>2, <2>7 DEF Rest, Paths, c, q, R
<1>3. Within(root \o p, root)
  BY <1>1 DEF Within
<1>4. Rest(root \o p, root) = p
  BY <1>1 DEF Rest
<1>5. root \o p \in Paths
  BY <1>1 DEF Paths
<1> QED BY <1>2, <1>3, <1>4, <1>5

\* The paths of mounts have lengths.
LEMMA MountPaths == ASSUME NEW m \in Mounts
                    PROVE  /\ m.container \in Paths /\ m.local \in Paths
                           /\ Len(m.container) \in Nat /\ Len(m.local) \in Nat
<1>1. m.container \in Paths /\ m.local \in Paths
  BY PathAssumption
<1> DEFINE p == m.container
           q == m.local
<1>2. p \in Seq(STRING) /\ q \in Seq(STRING)
  BY <1>1 DEF Paths
<1> HIDE DEF p, q
<1>3. Len(p) \in Nat /\ Len(q) \in Nat
  BY <1>2
<1> QED BY <1>1, <1>3 DEF p, q

\* There is a mount that a path is under whose container path is longest, and the same on the host.
LEMMA LongestExists == ASSUME NEW p \in Paths
                       PROVE  /\ MountsOf(p) # {} => MountOf(p) \in MountsOf(p)
                              /\ MountsAt(p) # {} => NearestAt(p) \in MountsAt(p)
<1>1. Len(p) \in Nat
  BY DEF Paths
<1>2. ASSUME MountsOf(p) # {} PROVE MountOf(p) \in MountsOf(p)
  <2> DEFINE T == {Len(p) - Len(m.container) : m \in MountsOf(p)}
  <2>1. \A m \in MountsOf(p) : Len(m.container) \in Nat /\ Len(m.container) <= Len(p)
    BY MountPaths DEF MountsOf, Within
  <2>2. T \in SUBSET Nat /\ T # {}
    BY <1>1, <1>2, <2>1
  <2>3. PICK x \in T : \A y \in T : x <= y
    <3> HIDE DEF T
    <3> QED BY <2>2, Least
  <2>4. PICK m \in MountsOf(p) : x = Len(p) - Len(m.container)
    BY <2>3
  <2>5. ASSUME NEW o \in MountsOf(p) PROVE Len(o.container) <= Len(m.container)
    <3> DEFINE a == Len(o.container)
               b == Len(m.container)
               c == Len(p)
    <3>1. a \in Nat /\ b \in Nat /\ c \in Nat
      BY <1>1, <2>1
    <3>2. c - a \in T
      OBVIOUS
    <3>3. c - b <= c - a
      BY <2>3, <2>4, <3>2
    <3> HIDE DEF a, b, c
    <3>4. a <= b
      BY <3>1, <3>3
    <3> QED BY <3>4 DEF a, b
  <2>6. \E k \in MountsOf(p) : \A o \in MountsOf(p) : Len(o.container) <= Len(k.container)
    BY <2>5
  <2>7. MountOf(p) = CHOOSE k \in MountsOf(p) : \A o \in MountsOf(p) : Len(o.container) <= Len(k.container)
    BY DEF MountOf, Longest
  <2> QED BY <2>6, <2>7
<1>3. ASSUME MountsAt(p) # {} PROVE NearestAt(p) \in MountsAt(p)
  <2> DEFINE T == {Len(p) - Len(m.local) : m \in MountsAt(p)}
  <2>1. \A m \in MountsAt(p) : Len(m.local) \in Nat /\ Len(m.local) <= Len(p)
    BY MountPaths DEF MountsAt, Within
  <2>2. T \in SUBSET Nat /\ T # {}
    BY <1>1, <1>3, <2>1
  <2>3. PICK x \in T : \A y \in T : x <= y
    <3> HIDE DEF T
    <3> QED BY <2>2, Least
  <2>4. PICK m \in MountsAt(p) : x = Len(p) - Len(m.local)
    BY <2>3
  <2>5. ASSUME NEW o \in MountsAt(p) PROVE Len(o.local) <= Len(m.local)
    <3> DEFINE a == Len(o.local)
               b == Len(m.local)
               c == Len(p)
    <3>1. a \in Nat /\ b \in Nat /\ c \in Nat
      BY <1>1, <2>1
    <3>2. c - a \in T
      OBVIOUS
    <3>3. c - b <= c - a
      BY <2>3, <2>4, <3>2
    <3> HIDE DEF a, b, c
    <3>4. a <= b
      BY <3>1, <3>3
    <3> QED BY <3>4 DEF a, b
  <2>6. \E k \in MountsAt(p) : \A o \in MountsAt(p) : Len(o.local) <= Len(k.local)
    BY <2>5
  <2>7. NearestAt(p) = CHOOSE k \in MountsAt(p) : \A o \in MountsAt(p) : Len(o.local) <= Len(k.local)
    BY DEF NearestAt, Longest
  <2> QED BY <2>6, <2>7
<1> QED BY <1>2, <1>3

\* What an agent's path leads to, as a path.
LEMMA ResolveIsPath == ASSUME link \in Links \cup {NoLink}, NEW p \in Paths
                      PROVE  Resolve(p) # Escape => Resolve(p) \in Paths
<1>1. CASE MountsOf(p) = {}
  BY <1>1 DEF Resolve
<1>2. CASE MountsOf(p) # {}
  <2> DEFINE m == MountOf(p)
             local == Along(link, m.local, Rest(p, m.container))
  <2>1. m \in Mounts /\ Within(p, m.container)
    BY <1>2, LongestExists DEF MountsOf
  <2>2. Rest(p, m.container) \in Paths
    BY <2>1, RestIs, PathAssumption
  <2>3. Canonical(link, link.to) /\ Canonical(link, m.local)
    BY <2>1, MountsCanonical
  <2>4. local \in Paths
    <3> HIDE DEF m
    <3>1. Canonical(link, local)
      BY <2>2, <2>3, AlongCanonical
    <3> QED BY <3>1 DEF Canonical
  <2>5. Resolve(p) = IF Within(local, m.local) THEN local ELSE Escape
    BY <1>2 DEF Resolve, Walk
  <2> QED BY <2>4, <2>5
<1> QED BY <1>1, <1>2

\* A file's name in the container leads to the file, unless a mount hides it there.
LEMMA NameLeadsBack == ASSUME link \in Links \cup {NoLink}, NEW local, Canonical(link, local), ~Hidden(local)
                       PROVE  Host(ContainerPath(local)) = local
<1>1. local \in Paths /\ <<>> \in Paths /\ <<>> \o local = local
  BY DEF Canonical, Paths
<1>2. Along(link, <<>>, local) = local
  <2> DEFINE none == <<>>
  <2>1. none \in Paths /\ none \o local = local
    BY <1>1
  <2> HIDE DEF none
  <2>2. Along(link, none, local) = none \o local
    BY <1>1, <2>1, AlongStays
  <2> QED BY <2>1, <2>2 DEF none
<1>3. CASE MountsAt(local) = {}
  <2>1. ContainerPath(local) = local /\ MountsOf(local) = {}
    BY <1>3 DEF ContainerPath, Hidden
  <2> QED BY <1>2, <2>1 DEF Host, Resolve, Walk
<1>4. CASE MountsAt(local) # {}
  <2> DEFINE m    == NearestAt(local)
             rest == Rest(local, m.local)
             r    == m.container \o rest
  <2>1. m \in Mounts /\ Within(local, m.local) /\ m.container \in Paths /\ m.local \in Paths
    BY <1>1, <1>4, LongestExists, PathAssumption DEF MountsAt
  <2>2. ContainerPath(local) = r
    BY <1>4 DEF ContainerPath
  <2>3. \A o \in Mounts \ {m} : Within(r, o.container) => ~(Len(o.container) >= Len(m.container))
    BY <1>4, <2>2 DEF Hidden
  <2> HIDE DEF m
  <2>4. rest \in Paths /\ m.local \o rest = local
    BY <1>1, <2>1, RestIs
  <2> HIDE DEF rest
  <2>5. r \in Paths /\ Within(r, m.container) /\ Rest(r, m.container) = rest
    BY <2>1, <2>4, RestIs
  <2> HIDE DEF r
  <2>6. m \in MountsOf(r) /\ MountOf(r) \in MountsOf(r)
    BY <2>1, <2>5, LongestExists DEF MountsOf
  <2>7. MountOf(r) = m
    <3>1. MountOf(r) = CHOOSE k \in MountsOf(r) : \A o \in MountsOf(r) : Len(o.container) <= Len(k.container)
      BY DEF MountOf, Longest
    <3>2. \A o \in MountsOf(r) : Len(o.container) \in Nat
      BY MountPaths DEF MountsOf
    <3>3. \A o \in MountsOf(r) : Len(o.container) <= Len(m.container)
      BY <2>3, <2>6, <3>2 DEF MountsOf
    <3>4. Len(m.container) <= Len(MountOf(r).container)
      BY <2>6, <3>1, <3>3
    <3>5. MountOf(r) \in Mounts /\ Within(r, MountOf(r).container)
      BY <2>6 DEF MountsOf
    <3> QED BY <2>3, <2>6, <3>2, <3>4, <3>5
  <2>8. Along(link, m.local, rest) = local
    BY <2>1, <2>4, AlongStays
  <2>9. Resolve(r) = local
    BY <2>1, <2>5, <2>6, <2>7, <2>8 DEF Resolve, Walk
  <2> QED BY <1>2, <2>2, <2>9 DEF Host, Walk
<1> QED BY <1>3, <1>4

\* A text that a sandbox shows with the container's names leads where it did.
LEMMA TextReadsBack == ASSUME link \in Links \cup {NoLink}, NEW s \in Sessions, NEW l, NEW path \in Paths,
                              ~Hidden(Walk(<<>>, path)), ~Twofold(path)
                       PROVE  Host(ReadBackBy(s, l, path)) = Host(path)
<1>1. CASE ReadBackBy(s, l, path) = path
  BY <1>1
<1>2. CASE ReadBackBy(s, l, path) # path
  <2>1. MountsAt(path) # {} /\ ReadBackBy(s, l, path) = ContainerPath(Walk(<<>>, path))
    BY <1>2 DEF ReadBackBy, ReverseResolve
  <2>2. Canonical(link, Walk(<<>>, path))
    <3>1. Canonical(link, link.to) /\ Canonical(link, <<>>)
      BY MountsCanonical
    <3> DEFINE none == <<>>
    <3>2. Canonical(link, none)
      BY <3>1
    <3> HIDE DEF none
    <3>3. Canonical(link, Along(link, none, path))
      BY <3>1, <3>2, AlongCanonical
    <3> QED BY <3>3 DEF none, Walk
  <2>3. Host(ContainerPath(Walk(<<>>, path))) = Walk(<<>>, path)
    <3> DEFINE local == Walk(<<>>, path)
    <3>1. Canonical(link, local) /\ ~Hidden(local)
      BY <2>2
    <3> HIDE DEF local
    <3>2. Host(ContainerPath(local)) = local
      BY <3>1, NameLeadsBack
    <3> QED BY <3>2 DEF local
  <2>4. MountsOf(path) = {}
    BY <2>1 DEF Twofold
  <2>5. Host(path) = Walk(<<>>, path)
    BY <2>4 DEF Host, Resolve
  <2> QED BY <2>1, <2>3, <2>5
<1> QED BY <1>1, <1>2

-----------------------------------------------------------------------------
MountTyped ==
    /\ lru \in Seq(Sessions) /\ Distinct(lru) /\ Len(lru) <= MaxSandboxes
    /\ tracked = [s \in Sessions |-> tracked[s]]
    /\ holds \in [Sessions -> {"none", "cached", "orphan"}]
    /\ \A s \in Sessions : s \notin ElementsOf(lru) => tracked[s] = {} /\ holds[s] # "cached"
    /\ checked = [s \in Sessions |-> checked[s]]
    /\ \A s \in Sessions : checked[s] # Unchecked => holds[s] # "none" /\ checked[s].local # Escape
    /\ link \in Links \cup {NoLink} /\ \A l \in DOMAIN disk : disk[l] \subseteq Paths

\* The cache may lose the sandboxes that are forgotten, and no others.
LEMMA ForgetsTyped ==
  ASSUME MountTyped, NEW gone \in SUBSET Sessions, Forgets(gone), UNCHANGED <<checked, disk, link>>,
         lru' \in Seq(Sessions), Distinct(lru'), Len(lru') <= MaxSandboxes,
         ElementsOf(lru) \subseteq ElementsOf(lru') \cup gone
  PROVE  MountTyped'
<1>1. /\ tracked' = [s \in Sessions |-> IF s \in gone THEN {} ELSE tracked[s]]
      /\ holds' = [s \in Sessions |-> IF s \in gone /\ holds[s] = "cached" THEN "orphan" ELSE holds[s]]
  BY DEF Forgets
<1>2. /\ tracked' = [s \in Sessions |-> tracked'[s]]
      /\ holds' \in [Sessions -> {"none", "cached", "orphan"}]
  BY <1>1 DEF MountTyped
<1>3. link' \in Links \cup {NoLink} /\ \A l \in DOMAIN disk' : disk'[l] \subseteq Paths
  BY DEF MountTyped
<1>4. ASSUME NEW s \in Sessions, s \notin ElementsOf(lru') PROVE tracked'[s] = {} /\ holds'[s] # "cached"
  <2>1. CASE s \in gone
    BY <1>1, <2>1 DEF MountTyped
  <2>2. CASE s \notin gone
    BY <1>1, <1>4, <2>2 DEF MountTyped
  <2> QED BY <2>1, <2>2
<1>5. ASSUME NEW s \in Sessions, checked'[s] # Unchecked PROVE holds'[s] # "none" /\ checked'[s].local # Escape
  BY <1>1, <1>5 DEF MountTyped
<1>6. checked' = [s \in Sessions |-> checked'[s]]
  BY DEF MountTyped
<1> QED BY <1>2, <1>3, <1>4, <1>5, <1>6 DEF MountTyped

\* An order of use without one of its sessions.
LEMMA OrderIs == ASSUME NEW t \in Seq(Sessions), Distinct(t), NEW K
                 PROVE  /\ Without(t, K) \in Seq(Sessions) /\ Distinct(Without(t, K))
                        /\ ElementsOf(Without(t, K)) = ElementsOf(t) \ K
                        /\ Len(Without(t, K)) <= Len(t) /\ Len(Without(t, K)) \in Nat
                        /\ (\E j \in 1 .. Len(t) : t[j] \in K) => Len(Without(t, K)) < Len(t)
<1>1. IsWithout(Without(t, K), t, K, Len(t), Sessions)
  BY WithoutIs
<1> QED BY <1>1, WithoutElements DEF IsWithout

\* And with one more, the last.
LEMMA UsedLast == ASSUME NEW t \in Seq(Sessions), Distinct(t), NEW s \in Sessions, s \notin ElementsOf(t)
                  PROVE  /\ Append(t, s) \in Seq(Sessions) /\ Distinct(Append(t, s))
                         /\ Len(Append(t, s)) = Len(t) + 1 /\ Len(t) \in Nat
                         /\ ElementsOf(Append(t, s)) = ElementsOf(t) \cup {s}
<1> DEFINE N == Len(t)
           u == Append(t, s)
<1>1. /\ N \in Nat /\ u \in Seq(Sessions) /\ Len(u) = N + 1 /\ DOMAIN t = 1 .. N /\ DOMAIN u = 1 .. (N + 1)
      /\ u[N + 1] = s /\ \A i \in 1 .. N : u[i] = t[i]
  OBVIOUS
<1> HIDE DEF N, u
<1>2. (\A i \in 1 .. (N + 1) : i \in 1 .. N \/ i = N + 1) /\ \A i \in 1 .. N : i \in 1 .. (N + 1)
  BY <1>1
<1>3. N + 1 \in 1 .. (N + 1)
  BY <1>1
<1>4. \A i \in 1 .. N : t[i] # s
  BY <1>1 DEF ElementsOf
<1>5. Distinct(u)
  BY <1>1, <1>2, <1>4 DEF Distinct
<1>6. ElementsOf(u) = ElementsOf(t) \cup {s}
  BY <1>1, <1>2, <1>3 DEF ElementsOf
<1> QED BY <1>1, <1>5, <1>6 DEF u, N

\* A sandbox is put last, and if there are too many the first one goes.
LEMMA AcquireTyped == ASSUME MountTyped, NEW s \in Sessions, AcquireSandbox(s) PROVE MountTyped'
<1> DEFINE others  == Without(lru, {s})
           evicted == IF Len(others) = MaxSandboxes THEN {others[1]} ELSE {}
           u       == Append(others, s)
<1>1. lru' = Without(u, evicted) /\ Forgets(evicted) /\ UNCHANGED <<checked, disk, link>>
  BY DEF AcquireSandbox
<1>2. /\ others \in Seq(Sessions) /\ Distinct(others) /\ ElementsOf(others) = ElementsOf(lru) \ {s}
      /\ Len(others) <= MaxSandboxes /\ Len(others) \in Nat
  <2>1. lru \in Seq(Sessions) /\ Distinct(lru) /\ Len(lru) <= MaxSandboxes /\ Len(lru) \in Nat
    BY DEF MountTyped
  <2>2. /\ others \in Seq(Sessions) /\ Distinct(others) /\ ElementsOf(others) = ElementsOf(lru) \ {s}
        /\ Len(others) <= Len(lru) /\ Len(others) \in Nat
    BY <2>1, OrderIs
  <2> DEFINE a == Len(others)
             b == Len(lru)
  <2>3. a \in Nat /\ b \in Nat /\ a <= b /\ b <= MaxSandboxes /\ MaxSandboxes \in Nat
    BY <2>1, <2>2, MountAssumption
  <2> HIDE DEF a, b
  <2>4. a <= MaxSandboxes
    BY <2>3
  <2> QED BY <2>2, <2>4 DEF a
<1> HIDE DEF others
<1>3. /\ u \in Seq(Sessions) /\ Distinct(u) /\ Len(u) = Len(others) + 1
      /\ ElementsOf(u) = ElementsOf(lru) \cup {s}
  <2>1. s \notin ElementsOf(others)
    BY <1>2
  <2>2. ElementsOf(u) = ElementsOf(others) \cup {s}
    BY <1>2, <2>1, UsedLast
  <2> QED BY <1>2, <2>1, <2>2, UsedLast
<1>4. evicted \in SUBSET Sessions /\ (Len(others) = MaxSandboxes => \E j \in 1 .. Len(u) : u[j] \in evicted)
  <2>1. CASE Len(others) = MaxSandboxes
    <3>1. 1 \in 1 .. Len(others) /\ 1 \in 1 .. Len(u)
      BY <1>2, <1>3, <2>1, MountAssumption
    <3>2. others[1] \in Sessions /\ u[1] = others[1]
      BY <1>2, <3>1
    <3> QED BY <2>1, <3>1, <3>2
  <2>2. CASE Len(others) # MaxSandboxes
    BY <2>2
  <2> QED BY <2>1, <2>2
<1> HIDE DEF u
<1>5. /\ lru' \in Seq(Sessions) /\ Distinct(lru') /\ ElementsOf(lru') = (ElementsOf(lru) \cup {s}) \ evicted
      /\ Len(lru') <= Len(u) /\ Len(lru') \in Nat
      /\ (\E j \in 1 .. Len(u) : u[j] \in evicted) => Len(lru') < Len(u)
  <2> HIDE DEF evicted
  <2> QED BY <1>1, <1>3, OrderIs
<1> DEFINE a == Len(others)
           b == Len(u)
           c == Len(lru')
<1>6. /\ a \in Nat /\ b = a + 1 /\ c \in Nat /\ a <= MaxSandboxes /\ c <= b /\ (a = MaxSandboxes => c < b)
      /\ MaxSandboxes \in Nat
  BY <1>2, <1>3, <1>4, <1>5, MountAssumption
<1>7. Len(lru') <= MaxSandboxes
  <2> HIDE DEF a, b, c
  <2>1. c <= MaxSandboxes
    BY <1>6
  <2> QED BY <2>1 DEF c
<1>8. ElementsOf(lru) \subseteq ElementsOf(lru') \cup evicted
  BY <1>5
<1> HIDE DEF evicted
<1> QED BY <1>1, <1>4, <1>5, <1>7, <1>8, ForgetsTyped

\* A call finds a sandbox and puts it last.
LEMMA GetTyped == ASSUME MountTyped, NEW s \in Sessions, GetSandbox(s) PROVE MountTyped'
<1> DEFINE others == Without(lru, {s})
<1>1. /\ s \in ToSet(lru) /\ lru' = Append(others, s) /\ holds' = [holds EXCEPT ![s] = "cached"]
      /\ UNCHANGED <<tracked, checked, disk, link>>
  BY DEF GetSandbox
<1>2. s \in ElementsOf(lru) /\ \E j \in 1 .. Len(lru) : lru[j] \in {s}
  <2>1. PICK j \in DOMAIN lru : lru[j] = s
    BY <1>1 DEF ToSet
  <2>2. DOMAIN lru = 1 .. Len(lru)
    BY DEF MountTyped
  <2> QED BY <2>1, <2>2 DEF ElementsOf
<1>3. lru \in Seq(Sessions) /\ Distinct(lru) /\ Len(lru) <= MaxSandboxes /\ Len(lru) \in Nat
  BY DEF MountTyped
<1>4. /\ others \in Seq(Sessions) /\ Distinct(others) /\ ElementsOf(others) = ElementsOf(lru) \ {s}
      /\ Len(others) < Len(lru) /\ Len(others) \in Nat
  BY <1>2, <1>3, OrderIs
<1> HIDE DEF others
<1>5. /\ lru' \in Seq(Sessions) /\ Distinct(lru') /\ Len(lru') = Len(others) + 1
      /\ ElementsOf(lru') = ElementsOf(others) \cup {s}
  <2>1. s \notin ElementsOf(others)
    BY <1>4
  <2> QED BY <1>1, <1>4, <2>1, UsedLast
<1> DEFINE a == Len(others)
           b == Len(lru)
           c == Len(lru')
<1>6. a \in Nat /\ b \in Nat /\ c = a + 1 /\ a < b /\ b <= MaxSandboxes /\ MaxSandboxes \in Nat
  BY <1>3, <1>4, <1>5, MountAssumption
<1>7. Len(lru') <= MaxSandboxes
  <2> HIDE DEF a, b, c
  <2>1. c <= MaxSandboxes
    BY <1>6
  <2> QED BY <2>1 DEF c
<1>8. ElementsOf(lru') = ElementsOf(lru)
  BY <1>2, <1>4, <1>5
<1> QED BY <1>1, <1>2, <1>5, <1>7, <1>8 DEF MountTyped

\* A text is left in a file, and the call ends.
LEMMA LandsTyped ==
  ASSUME MountTyped, NEW s \in Sessions, NEW text \in SUBSET Paths, Lands(s, text), UNCHANGED <<lru, link>>,
         \/ tracked' = tracked
         \/ holds[s] = "cached" /\ \E ls : tracked' = [tracked EXCEPT ![s] = ls]
  PROVE  MountTyped'
<1> DEFINE l == Walk(<<>>, checked[s].local)
<1>1. /\ disk' = Put(disk, l, text)
      /\ checked' = [checked EXCEPT ![s] = Unchecked] /\ holds' = [holds EXCEPT ![s] = "none"]
  BY DEF Lands
<1> HIDE DEF l
<1>2. link' \in Links \cup {NoLink} /\ \A x \in DOMAIN disk' : disk'[x] \subseteq Paths
  BY <1>1 DEF MountTyped, Put
<1>3. /\ tracked' = [x \in Sessions |-> tracked'[x]] /\ checked' = [x \in Sessions |-> checked'[x]]
      /\ holds' \in [Sessions -> {"none", "cached", "orphan"}]
  BY <1>1 DEF MountTyped
<1>4. ASSUME NEW x \in Sessions, x \notin ElementsOf(lru') PROVE tracked'[x] = {} /\ holds'[x] # "cached"
  <2>1. tracked[x] = {} /\ holds[x] # "cached" /\ holds'[x] # "cached"
    BY <1>1, <1>4 DEF MountTyped
  <2>2. tracked'[x] = tracked[x]
    BY <2>1 DEF MountTyped
  <2> QED BY <2>1, <2>2
<1>5. ASSUME NEW x \in Sessions, checked'[x] # Unchecked PROVE holds'[x] # "none" /\ checked'[x].local # Escape
  <2>1. x # s
    BY <1>1, <1>5 DEF MountTyped
  <2> QED BY <1>1, <1>5, <2>1 DEF MountTyped
<1> QED BY <1>2, <1>3, <1>4, <1>5 DEF MountTyped

\* A call ends that has not checked anything.
LEMMA DoneTyped ==
  ASSUME MountTyped, NEW s \in Sessions, Done(s), UNCHANGED <<lru, tracked>>,
         link' \in Links \cup {NoLink}, \A l \in DOMAIN disk' : disk'[l] \subseteq Paths
  PROVE  MountTyped'
BY DEF MountTyped, Done

\* Every call, release and link keeps the types.
LEMMA MountsTyped == MountTyped /\ [MountNext]_mountVars => MountTyped'
<1> SUFFICES ASSUME MountTyped, [MountNext]_mountVars PROVE MountTyped'
  OBVIOUS
<1>1. CASE ResetProvider
  <2>1. /\ lru' = <<>> /\ Forgets(ToSet(lru)) /\ UNCHANGED <<checked, disk, link>>
    BY <1>1 DEF ResetProvider
  <2>2. ToSet(lru) \in SUBSET Sessions /\ ElementsOf(lru) = ToSet(lru)
    BY DEF MountTyped, ToSet, ElementsOf
  <2>3. lru' \in Seq(Sessions) /\ Distinct(lru') /\ Len(lru') <= MaxSandboxes
    BY <2>1, MountAssumption DEF Distinct
  <2> QED BY <2>1, <2>2, <2>3, ForgetsTyped
<1>2. ASSUME NEW s \in Sessions, ForceRelease(s) PROVE MountTyped'
  <2>1. lru' = Without(lru, {s}) /\ Forgets({s}) /\ UNCHANGED <<checked, disk, link>>
    BY <1>2 DEF ForceRelease
  <2>2. lru \in Seq(Sessions) /\ Distinct(lru) /\ Len(lru) <= MaxSandboxes /\ Len(lru) \in Nat
    BY DEF MountTyped
  <2>3. /\ lru' \in Seq(Sessions) /\ Distinct(lru') /\ ElementsOf(lru') = ElementsOf(lru) \ {s}
        /\ Len(lru') <= Len(lru) /\ Len(lru') \in Nat
    BY <2>1, <2>2, OrderIs
  <2> DEFINE a == Len(lru')
             b == Len(lru)
  <2>4. a \in Nat /\ b \in Nat /\ a <= b /\ b <= MaxSandboxes /\ MaxSandboxes \in Nat
    BY <2>2, <2>3, MountAssumption
  <2>5. Len(lru') <= MaxSandboxes
    <3> HIDE DEF a, b
    <3>1. a <= MaxSandboxes
      BY <2>4
    <3> QED BY <3>1 DEF a
  <2> QED BY <2>1, <2>3, <2>5, ForgetsTyped
<1>3. ASSUME NEW s \in Sessions, WriteRefused(s) PROVE MountTyped'
  BY <1>3 DEF WriteRefused, MountTyped
<1>4. ASSUME NEW s \in Sessions, NEW p, CheckWrite(s, p) PROVE MountTyped'
  <2> DEFINE local == Resolve(p)
             r == [local |-> local, link |-> link]
  <2>1. /\ checked' = [checked EXCEPT ![s] = r] /\ local # Escape /\ holds[s] # "none"
        /\ UNCHANGED <<lru, tracked, holds, disk, link>>
    BY <1>4 DEF CheckWrite
  <2> HIDE DEF local
  <2>2. r.local = local
    OBVIOUS
  <2> HIDE DEF r
  <2> QED BY <2>1, <2>2 DEF MountTyped
<1>5. ASSUME NEW s \in Sessions, NEW mention \in Mentioned, UpdateBytes(s, mention) PROVE MountTyped'
  <2>1. Lands(s, {mention}) /\ UNCHANGED <<lru, tracked, link>>
    BY <1>5 DEF UpdateBytes
  <2>2. {mention} \in SUBSET Paths
    BY PathAssumption
  <2> QED BY <2>1, <2>2, LandsTyped
<1>6. ASSUME NEW s \in Sessions, NEW mention \in Mentioned, NEW append \in BOOLEAN, WriteText(s, mention, append)
      PROVE  MountTyped'
  <2> DEFINE l   == checked[s].local
             old == IF append /\ l \in DOMAIN disk THEN disk[l] ELSE {}
             text == old \cup {Resolve(mention)}
  <2>1. /\ Lands(s, text) /\ UNCHANGED <<lru, link>>
        /\ tracked' = IF holds[s] = "cached" THEN [tracked EXCEPT ![s] = @ \cup {l}] ELSE tracked
    BY <1>6 DEF WriteText
  <2>2. text \in SUBSET Paths
    <3>1. Resolve(mention) \in Paths
      BY <1>6, ResolveIsPath, PathAssumption DEF MountTyped, WriteText
    <3>2. old \in SUBSET Paths
      BY DEF MountTyped
    <3> QED BY <3>1, <3>2
  <2> DEFINE ls == tracked[s] \cup {l}
  <2>3. \/ tracked' = tracked
        \/ holds[s] = "cached" /\ tracked' = [tracked EXCEPT ![s] = ls]
    BY <2>1
  <2> HIDE DEF text, ls
  <2> QED BY <2>1, <2>2, <2>3, LandsTyped
<1>7. ASSUME NEW s \in Sessions, NEW p \in Asked, Execute(s, p) PROVE MountTyped'
  <2>1. /\ Done(s) /\ UNCHANGED <<lru, tracked>>
        /\ \/ link' \in Links /\ UNCHANGED disk
           \/ Resolve(p) # Escape /\ disk' = Put(disk, Host(p), {Resolve(p)}) /\ UNCHANGED link
    BY <1>7 DEF Execute
  <2>2. Resolve(p) # Escape => Resolve(p) \in Paths
    BY ResolveIsPath, PathAssumption DEF MountTyped
  <2>3. link' \in Links \cup {NoLink} /\ \A l \in DOMAIN disk' : disk'[l] \subseteq Paths
    BY <2>1, <2>2 DEF MountTyped, Put
  <2> QED BY <2>1, <2>3, DoneTyped
<1>8. ASSUME NEW s \in Sessions, ReadOrList(s) PROVE MountTyped'
  <2>1. Done(s) /\ UNCHANGED <<lru, tracked, disk, link>>
    BY <1>8 DEF ReadOrList
  <2> QED BY <2>1, DoneTyped DEF MountTyped
<1>9. CASE UNCHANGED mountVars
  BY <1>9 DEF mountVars, MountTyped
<1> QED BY <1>1, <1>2, <1>3, <1>4, <1>5, <1>6, <1>7, <1>8, <1>9, AcquireTyped, GetTyped DEF MountNext

\* The order of use names each cached sandbox once and no more than there may be, and a call that has
\* checked a path is under way (local_sandbox_provider.py).
THEOREM MountsAreTyped == MountSpec => []MountTypeOK
<1>1. MountInit => MountTyped
  BY MountAssumption DEF MountInit, MountTyped, Distinct
<1>2. ChecksStand /\ MountTyped => MountTypeOK
  <2>1. lru \in Seq(Sessions) => ToSet(lru) = ElementsOf(lru)
    BY DEF ToSet, ElementsOf
  <2>2. ChecksStand => trespass \in BOOLEAN
    BY DEF ChecksStand
  <2> QED BY <2>1, <2>2 DEF ChecksStand, MountTyped, MountTypeOK, Distinct
<1> QED BY <1>1, <1>2, MountsInitially, MountsKeep, MountsTyped, PTL DEF MountSpec

\* A path in a text leads to the same file whether a sandbox shows the text with the container's names
\* or a program of the host reads it, whatever link there is, unless one mount hides the file from
\* another's names, or the path means something on both sides
\* (local_sandbox.py: read_file, _reverse_resolve_in_output, _reverse_resolve_path).
THEOREM TextsLeadWhereTheyDid == MountSpec => []TextsReadBack
<1>1. MountInit => MountTyped
  BY MountAssumption DEF MountInit, MountTyped, Distinct
<1>2. MountTyped => TextsReadBack
  BY TextReadsBack DEF MountTyped, TextsReadBack
<1> QED BY <1>1, <1>2, MountsTyped, PTL DEF MountSpec

\* Whatever the mounts, links and paths, the tools write only where they may, and a text leads
\* to the files it led to (sandbox/src/local_sandbox.py).
THEOREM MountsAreKept == MountSpec => []MountsHold
BY ReadOnlyMountsStayAsTheyAre, TextsLeadWhereTheyDid, PTL DEF MountsHold
=============================================================================
