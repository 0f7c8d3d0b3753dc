-------------------------- MODULE GadgetConfigProofs --------------------------
(***************************************************************************)
(* For every set of vendor configurations, in which no token is repeated:  *)
(* what validateAndSetVidPid accepts is linked completely and once, the    *)
(* ids it writes tell the links apart, and usbradio mode publishes them.   *)
(***************************************************************************)
EXTENDS GadgetRequests, TLAPS

-----------------------------------------------------------------------------
(***************************************************************************)
(* Sequences of links                                                      *)
(***************************************************************************)

\* The names in a concatenation are those of its parts; no name is repeated if
\* none is in either part and the parts share none.
LEMMA Concat ==
  ASSUME NEW S, NEW s \in Seq(S), NEW u \in Seq(S)
  PROVE  /\ s \o u \in Seq(S)
         /\ Names(s \o u) = Names(s) \cup Names(u)
         /\ Once(s) /\ Once(u) /\ Names(s) \cap Names(u) = {} => Once(s \o u)
<1>1. /\ s \o u \in Seq(S)
      /\ Len(s) \in Nat /\ Len(u) \in Nat
      /\ DOMAIN s = 1..Len(s) /\ DOMAIN u = 1..Len(u)
      /\ DOMAIN (s \o u) = 1..(Len(s) + Len(u))
  OBVIOUS
<1>2. ASSUME NEW i \in DOMAIN (s \o u)
      PROVE  \/ i \in DOMAIN s /\ (s \o u)[i] = s[i]
             \/ i - Len(s) \in DOMAIN u /\ (s \o u)[i] = u[i - Len(s)]
  BY <1>1
<1>3. ASSUME NEW i \in DOMAIN s
      PROVE  i \in DOMAIN (s \o u) /\ (s \o u)[i] = s[i]
  BY <1>1
<1>4. ASSUME NEW i \in DOMAIN u
      PROVE  Len(s) + i \in DOMAIN (s \o u) /\ (s \o u)[Len(s) + i] = u[i]
  BY <1>1
<1>5. Names(s \o u) \subseteq Names(s) \cup Names(u)
  BY <1>2 DEF Names
<1>6. Names(s) \subseteq Names(s \o u) /\ Names(u) \subseteq Names(s \o u)
  BY <1>3, <1>4 DEF Names
<1>7. ASSUME Once(s), Once(u), Names(s) \cap Names(u) = {},
             NEW i \in DOMAIN (s \o u), NEW j \in DOMAIN (s \o u),
             (s \o u)[i] = (s \o u)[j]
      PROVE  i = j
  <2>1. CASE i \in DOMAIN s /\ (s \o u)[i] = s[i] /\ j \in DOMAIN s /\ (s \o u)[j] = s[j]
    BY <1>7, <2>1 DEF Once
  <2>2. CASE /\ i - Len(s) \in DOMAIN u /\ (s \o u)[i] = u[i - Len(s)]
             /\ j - Len(s) \in DOMAIN u /\ (s \o u)[j] = u[j - Len(s)]
    <3>1. i - Len(s) = j - Len(s)
      BY <1>7, <2>2 DEF Once
    <3> QED
      BY <1>1, <3>1
  <2>3. ASSUME NEW k \in DOMAIN s, NEW l \in DOMAIN u, s[k] = u[l]
        PROVE  FALSE
    BY <1>7, <2>3 DEF Names
  <2> QED
    BY <1>2, <1>7, <2>1, <2>2, <2>3
<1> QED
  BY <1>1, <1>5, <1>6, <1>7 DEF Once

NameIf(cond, name) == IF cond THEN {name} ELSE {}

\* One more link, if it is to be made.
LEMMA AddLink ==
  ASSUME NEW s \in Seq(Link), Once(s), NEW cond, NEW name \in Link, name \notin Names(s)
  PROVE  /\ s \o LinkIf(cond, name) \in Seq(Link)
         /\ Names(s \o LinkIf(cond, name)) = Names(s) \cup NameIf(cond, name)
         /\ Once(s \o LinkIf(cond, name))
<1>1. /\ LinkIf(cond, name) \in Seq(Link)
      /\ Names(LinkIf(cond, name)) = NameIf(cond, name)
      /\ Once(LinkIf(cond, name))
  BY DEF LinkIf, Names, NameIf, Once
<1>2. Names(s) \cap Names(LinkIf(cond, name)) = {}
  BY <1>1 DEF NameIf
<1> QED
  BY <1>1, <1>2, Concat

-----------------------------------------------------------------------------
(***************************************************************************)
(* setupFunctions                                                          *)
(***************************************************************************)

\* What getVendorFunctions may return.
Vendor == {v \in Seq(Token) : Once(v)} \cup {<<"user">>}

DebugLinks == {"diag.diag", "cser.dun.0", "gsi.rmnet"}

\* The links that a request is given whatever the vendor configuration is.
FunctionLinks(f) ==
  NameIf("MTP" \in f, "ffs.mtp") \cup NameIf("MTP" \notin f /\ "PTP" \in f, "ffs.ptp")
  \cup NameIf("MIDI" \in f, "midi.gs5") \cup NameIf("ACCESSORY" \in f, "accessory.gs2")
  \cup NameIf("AUDIO_SOURCE" \in f, "audio_source.gs3")
  \cup NameIf("RNDIS" \in f, "gsi.rndis") \cup NameIf("ADB" \in f, "ffs.adb")

\* The tokens of a vendor configuration are debug links, each of them once.
LEMMA VendorLinksOnce ==
  ASSUME NEW v \in Vendor
  PROVE  /\ VendorLinks(v) \in Seq(Link)
         /\ Names(VendorLinks(v)) \subseteq DebugLinks
         /\ Once(VendorLinks(v))
<1>1. CASE v = <<"user">>
  BY <1>1 DEF VendorLinks, Names, Once
<1>2. CASE v # <<"user">>
  <2>1. v \in Seq(Token) /\ Once(v)
    BY <1>2 DEF Vendor
  <2>2. VendorLinks(v) = [i \in DOMAIN v |-> VendorLink(v[i])]
    BY <1>2 DEF VendorLinks
  <2>3. \A x \in Token : VendorLink(x) \in DebugLinks
    BY DEF Token, VendorLink, DebugLinks
  <2>4. \A x, y \in Token : VendorLink(x) = VendorLink(y) => x = y
    BY DEF Token, VendorLink
  <2>5. \A i \in DOMAIN v : v[i] \in Token
    BY <2>1
  <2>6. Len(v) \in Nat /\ DOMAIN v = 1..Len(v)
    BY <2>1
  <2>7. \A i \in DOMAIN v : VendorLink(v[i]) \in Link
    BY <2>3, <2>5 DEF DebugLinks, Link
  <2>8. VendorLinks(v) \in Seq(Link)
    BY <2>2, <2>6, <2>7
  <2>9. Names(VendorLinks(v)) \subseteq DebugLinks
    BY <2>2, <2>3, <2>5 DEF Names
  <2>10. Once(VendorLinks(v))
    BY <2>1, <2>2, <2>4, <2>5 DEF Once
  <2> QED
    BY <2>8, <2>9, <2>10
<1> QED
  BY <1>1, <1>2

\* setupFunctions makes the links of the functions and those of the vendor
\* configuration, no link twice.
LEMMA LinkOrderNames ==
  ASSUME NEW f, NEW v \in Vendor
  PROVE  /\ Names(LinkOrder(f, v)) = FunctionLinks(f) \cup Names(VendorLinks(v))
         /\ Once(LinkOrder(f, v))
<1> DEFINE s0 == <<>>
           s1 == s0 \o LinkIf("MTP" \in f, "ffs.mtp")
           s2 == s1 \o LinkIf("MTP" \notin f /\ "PTP" \in f, "ffs.ptp")
           s3 == s2 \o LinkIf("MIDI" \in f, "midi.gs5")
           s4 == s3 \o LinkIf("ACCESSORY" \in f, "accessory.gs2")
           s5 == s4 \o LinkIf("AUDIO_SOURCE" \in f, "audio_source.gs3")
           s6 == s5 \o LinkIf("RNDIS" \in f, "gsi.rndis")
           s7 == s6 \o VendorLinks(v)
           s8 == s7 \o LinkIf("ADB" \in f, "ffs.adb")
           N1 == NameIf("MTP" \in f, "ffs.mtp")
           N2 == NameIf("MTP" \notin f /\ "PTP" \in f, "ffs.ptp")
           N3 == NameIf("MIDI" \in f, "midi.gs5")
           N4 == NameIf("ACCESSORY" \in f, "accessory.gs2")
           N5 == NameIf("AUDIO_SOURCE" \in f, "audio_source.gs3")
           N6 == NameIf("RNDIS" \in f, "gsi.rndis")
           N8 == NameIf("ADB" \in f, "ffs.adb")
<1>1. s8 = LinkOrder(f, v)
  <2>1. LinkIf("MTP" \in f, "ffs.mtp") \in Seq(Link)
    BY DEF LinkIf, Link, FfsLink
  <2>2. s1 = LinkIf("MTP" \in f, "ffs.mtp")
    BY <2>1
  <2> HIDE DEF s1
  <2> QED
    BY <2>2 DEF LinkOrder
<1>2. /\ N1 \subseteq {"ffs.mtp"} /\ N2 \subseteq {"ffs.ptp"} /\ N3 \subseteq {"midi.gs5"}
      /\ N4 \subseteq {"accessory.gs2"} /\ N5 \subseteq {"audio_source.gs3"}
      /\ N6 \subseteq {"gsi.rndis"} /\ N8 \subseteq {"ffs.adb"}
  BY DEF NameIf
<1>3. {"ffs.mtp", "ffs.ptp", "midi.gs5", "accessory.gs2", "audio_source.gs3",
       "gsi.rndis", "ffs.adb"} \subseteq Link
  BY DEF Link, FfsLink
<1>4. s0 \in Seq(Link) /\ Names(s0) = {} /\ Once(s0)
  BY DEF Names, Once
<1> HIDE DEF s0
<1>5. s1 \in Seq(Link) /\ Names(s1) = N1 /\ Once(s1)
  <2>1. "ffs.mtp" \notin Names(s0)
    BY <1>4
  <2>2. s1 \in Seq(Link) /\ Names(s1) = Names(s0) \cup N1 /\ Once(s1)
    BY <1>3, <1>4, <2>1, AddLink
  <2> QED
    BY <1>4, <2>2
<1> HIDE DEF s1, N1
<1>6. s2 \in Seq(Link) /\ Names(s2) = N1 \cup N2 /\ Once(s2)
  <2>1. "ffs.ptp" \notin Names(s1)
    BY <1>2, <1>5
  <2> QED
    BY <1>3, <1>5, <2>1, AddLink
<1> HIDE DEF s2, N2
<1>7. s3 \in Seq(Link) /\ Names(s3) = N1 \cup N2 \cup N3 /\ Once(s3)
  <2>1. "midi.gs5" \notin Names(s2)
    BY <1>2, <1>6
  <2> QED
    BY <1>3, <1>6, <2>1, AddLink
<1> HIDE DEF s3, N3
<1>8. s4 \in Seq(Link) /\ Names(s4) = N1 \cup N2 \cup N3 \cup N4 /\ Once(s4)
  <2>1. "accessory.gs2" \notin Names(s3)
    BY <1>2, <1>7
  <2> QED
    BY <1>3, <1>7, <2>1, AddLink
<1> HIDE DEF s4, N4
<1>9. s5 \in Seq(Link) /\ Names(s5) = N1 \cup N2 \cup N3 \cup N4 \cup N5 /\ Once(s5)
  <2>1. "audio_source.gs3" \notin Names(s4)
    BY <1>2, <1>8
  <2> QED
    BY <1>3, <1>8, <2>1, AddLink
<1> HIDE DEF s5, N5
<1>10. s6 \in Seq(Link) /\ Names(s6) = N1 \cup N2 \cup N3 \cup N4 \cup N5 \cup N6 /\ Once(s6)
  <2>1. "gsi.rndis" \notin Names(s5)
    BY <1>2, <1>9
  <2> QED
    BY <1>3, <1>9, <2>1, AddLink
<1> HIDE DEF s6, N6
<1>11. /\ s7 \in Seq(Link) /\ Once(s7)
       /\ Names(s7) = (N1 \cup N2 \cup N3 \cup N4 \cup N5 \cup N6) \cup Names(VendorLinks(v))
  <2>1. Names(s6) \cap Names(VendorLinks(v)) = {}
    BY <1>2, <1>10, VendorLinksOnce DEF DebugLinks
  <2> QED
    BY <1>10, <2>1, VendorLinksOnce, Concat
<1> HIDE DEF s7
<1>12. Names(s8) = Names(s7) \cup N8 /\ Once(s8)
  <2>1. "ffs.adb" \notin Names(s7)
    BY <1>2, <1>11, VendorLinksOnce DEF DebugLinks
  <2> QED
    BY <1>3, <1>11, <2>1, AddLink
<1> HIDE DEF s8
<1>13. FunctionLinks(f) = N1 \cup N2 \cup N3 \cup N4 \cup N5 \cup N6 \cup N8
  BY DEF FunctionLinks, N1, N2, N3, N4, N5, N6
<1> HIDE DEF N8
<1> QED
  BY <1>1, <1>11, <1>12, <1>13

-----------------------------------------------------------------------------
(***************************************************************************)
(* getVendorFunctions and validateAndSetVidPid                             *)
(***************************************************************************)

TokenSeqs == {v \in Seq(Token) : Once(v)}

GoodProps == [build : BOOLEAN, radio : BOOLEAN, persist : TokenSeqs, vendor : TokenSeqs]

\* getVendorFunctions returns a vendor configuration and leaves the properties
\* such that a second call returns the same.
LEMMA VendorFunctions ==
  ASSUME NEW p \in GoodProps
  PROVE  /\ getVendorFunctions(p) \in Vendor
         /\ PropsAfter(p) \in GoodProps
         /\ getVendorFunctions(PropsAfter(p)) = getVendorFunctions(p)
<1>1. /\ p.build \in BOOLEAN /\ p.radio \in BOOLEAN
      /\ p.persist \in TokenSeqs /\ p.vendor \in TokenSeqs
  BY DEF GoodProps
<1>2. <<"diag">> \in TokenSeqs /\ <<>> \in TokenSeqs /\ <<"diag">> # <<>>
  BY DEF TokenSeqs, Once, Token
<1>3. getVendorFunctions(p) \in Vendor
  BY <1>1, <1>2 DEF getVendorFunctions, Vendor, TokenSeqs
<1>4. CASE ~p.build /\ p.vendor = <<>> /\ p.radio
  <2>1. getVendorFunctions(p) = IF p.persist # <<>> THEN p.persist ELSE <<"diag">>
    BY <1>4 DEF getVendorFunctions
  <2>2. getVendorFunctions(p) \in TokenSeqs /\ getVendorFunctions(p) # <<>>
    BY <1>1, <1>2, <2>1
  <2>3. PropsAfter(p) = [p EXCEPT !.vendor = getVendorFunctions(p)]
    BY <1>4 DEF PropsAfter
  <2>4. PropsAfter(p) \in GoodProps
    BY <2>2, <2>3 DEF GoodProps
  <2>5. PropsAfter(p).build = p.build /\ PropsAfter(p).vendor = getVendorFunctions(p)
    BY <2>3 DEF GoodProps
  <2>6. getVendorFunctions(PropsAfter(p)) = PropsAfter(p).vendor
    BY <1>4, <2>2, <2>5 DEF getVendorFunctions
  <2> QED
    BY <1>3, <2>4, <2>5, <2>6
<1>5. CASE ~(~p.build /\ p.vendor = <<>> /\ p.radio)
  BY <1>3, <1>5 DEF PropsAfter
<1> QED
  BY <1>4, <1>5

\* In usbradio mode the vendor property then holds what was returned.
LEMMA RadioPublishes ==
  ASSUME NEW p \in GoodProps, p.radio, ~p.build
  PROVE  PropsAfter(p).vendor = getVendorFunctions(p)
<1>1. CASE p.vendor = <<>>
  BY <1>1 DEF PropsAfter, GoodProps
<1>2. CASE p.vendor # <<>>
  BY <1>2 DEF PropsAfter, getVendorFunctions
<1> QED
  BY <1>1, <1>2

\* The three ways a request can be accepted.
LEMMA AcceptedBy ==
  ASSUME NEW f, NEW v, NEW id \in VidPids(f, v)
  PROVE  \/ \E e \in GoogleIds : e.f = f /\ v \in {<<"user">>, <<>>} /\ id = <<"18d1", e.pid>>
         \/ \E e \in QualcommIds : e.f = f /\ e.v = v /\ id = <<"05C6", e.pid>>
         \/ \E e \in AccessoryIds : e.f = f /\ id = <<"18d1", e.pid>>
BY DEF VidPids

\* No table has MTP and PTP together.
LEMMA NeverBothTransfers ==
  ASSUME NEW f, NEW v, NEW id \in VidPids(f, v)
  PROVE  "MTP" \notin f \/ "PTP" \notin f
<1>1. \A e \in GoogleIds : "MTP" \notin e.f \/ "PTP" \notin e.f
  BY DEF GoogleIds
<1>2. \A e \in QualcommIds : "MTP" \notin e.f \/ "PTP" \notin e.f
  BY DEF QualcommIds
<1>3. \A e \in AccessoryIds : "MTP" \notin e.f \/ "PTP" \notin e.f
  BY DEF AccessoryIds
<1> QED
  BY <1>1, <1>2, <1>3, AcceptedBy

\* No product id stands twice in a table.
LEMMA ProductsDiffer ==
  /\ \A a, b \in GoogleIds : a.pid = b.pid => a = b
  /\ \A a, b \in QualcommIds : a.pid = b.pid => a = b
<1>1. \A a, b \in GoogleIds : a.pid = b.pid => a = b
  BY DEF GoogleIds
<1>2. \A a, b \in QualcommIds : a.pid = b.pid => a = b
  BY DEF QualcommIds
<1> QED
  BY <1>1, <1>2

\* Ids other than an accessory's determine the functions and the debug links.
LEMMA IdsDetermine ==
  ASSUME NEW f, NEW g, NEW v, NEW w, NEW id,
         id \in VidPids(f, v), id \in VidPids(g, w),
         id[2] \notin {e.pid : e \in AccessoryIds}
  PROVE  f = g /\ VendorLinks(v) = VendorLinks(w)
<1>1. \A x \in {<<"user">>, <<>>} : VendorLinks(x) = <<>>
  BY DEF VendorLinks
<1>2. ASSUME NEW e \in AccessoryIds, id = <<"18d1", e.pid>>
      PROVE  FALSE
  BY <1>2
<1>3. ASSUME NEW e \in GoogleIds, NEW d \in QualcommIds,
             id = <<"18d1", e.pid>>, id = <<"05C6", d.pid>>
      PROVE  FALSE
  BY <1>3
<1>4. \/ \E e \in GoogleIds : e.f = f /\ v \in {<<"user">>, <<>>} /\ id = <<"18d1", e.pid>>
      \/ \E e \in QualcommIds : e.f = f /\ e.v = v /\ id = <<"05C6", e.pid>>
  BY <1>2, AcceptedBy
<1>5. \/ \E e \in GoogleIds : e.f = g /\ w \in {<<"user">>, <<>>} /\ id = <<"18d1", e.pid>>
      \/ \E e \in QualcommIds : e.f = g /\ e.v = w /\ id = <<"05C6", e.pid>>
  BY <1>2, AcceptedBy
<1>6. CASE \E e \in GoogleIds : e.f = f /\ v \in {<<"user">>, <<>>} /\ id = <<"18d1", e.pid>>
  <2>1. PICK e \in GoogleIds : e.f = f /\ v \in {<<"user">>, <<>>} /\ id = <<"18d1", e.pid>>
    BY <1>6
  <2>2. PICK d \in GoogleIds : d.f = g /\ w \in {<<"user">>, <<>>} /\ id = <<"18d1", d.pid>>
    BY <1>3, <1>5, <2>1
  <2>3. e.pid = d.pid
    BY <2>1, <2>2
  <2> QED
    BY <1>1, <2>1, <2>2, <2>3, ProductsDiffer
<1>7. CASE \E e \in QualcommIds : e.f = f /\ e.v = v /\ id = <<"05C6", e.pid>>
  <2>1. PICK e \in QualcommIds : e.f = f /\ e.v = v /\ id = <<"05C6", e.pid>>
    BY <1>7
  <2>2. PICK d \in QualcommIds : d.f = g /\ d.v = w /\ id = <<"05C6", d.pid>>
    BY <1>3, <1>5, <2>1
  <2>3. e.pid = d.pid
    BY <2>1, <2>2
  <2> QED
    BY <2>1, <2>2, <2>3, ProductsDiffer
<1> QED
  BY <1>4, <1>6, <1>7

\* The link that serves a function is among those of the request, unless PTP is
\* asked for next to MTP.
LEMMA EveryFunctionLinked ==
  ASSUME NEW f \in SUBSET Function, "MTP" \notin f \/ "PTP" \notin f, NEW x \in f
  PROVE  ServedBy[x] \in FunctionLinks(f)
<1>1. CASE x = "MTP"
  BY <1>1 DEF ServedBy, FunctionLinks, NameIf
<1>2. CASE x = "PTP"
  BY <1>2 DEF ServedBy, FunctionLinks, NameIf
<1>3. CASE x = "MIDI"
  BY <1>3 DEF ServedBy, FunctionLinks, NameIf
<1>4. CASE x = "ACCESSORY"
  BY <1>4 DEF ServedBy, FunctionLinks, NameIf
<1>5. CASE x = "AUDIO_SOURCE"
  BY <1>5 DEF ServedBy, FunctionLinks, NameIf
<1>6. CASE x = "RNDIS"
  BY <1>6 DEF ServedBy, FunctionLinks, NameIf
<1>7. CASE x = "ADB"
  BY <1>7 DEF ServedBy, FunctionLinks, NameIf
<1> QED
  BY <1>1, <1>2, <1>3, <1>4, <1>5, <1>6, <1>7 DEF Function

-----------------------------------------------------------------------------
(***************************************************************************)
(* Every request, in every order                                           *)
(***************************************************************************)

\* An accepted configuration has the ids and the links of its functions under
\* one and the same vendor configuration: setupFunctions asks for it again, and
\* is told what validateAndSetVidPid was told.
ConfigInv ==
  config.accepted =>
    /\ config.functions \in SUBSET Function
    /\ \E v \in Vendor : /\ config.ids \in VidPids(config.functions, v)
                         /\ config.links = LinkOrder(config.functions, v)

TablesInv == props \in GoodProps /\ ConfigInv

\* What a request does.
LEMMA ConfigureStep ==
  ASSUME props \in GoodProps, NEW f \in SUBSET Function, Configure(f)
  PROVE  /\ props' \in GoodProps
         /\ config'.functions = f
         /\ config'.accepted \in BOOLEAN
         /\ config'.accepted =>
              /\ config'.ids \in VidPids(f, getVendorFunctions(props))
              /\ config'.links = LinkOrder(f, getVendorFunctions(props))
              /\ props' = PropsAfter(PropsAfter(props))
<1> DEFINE v == getVendorFunctions(props)
           p == PropsAfter(props)
<1>1. p \in GoodProps /\ getVendorFunctions(p) = v /\ PropsAfter(p) \in GoodProps
  BY VendorFunctions
<1>2. CASE Supported(f, v)
  <2>1. VidPid(f, v) \in VidPids(f, v)
    BY <1>2 DEF Supported, VidPid
  <2>2. /\ props' = PropsAfter(p)
        /\ config' = [functions |-> f, accepted |-> TRUE, ids |-> VidPid(f, v),
                      links |-> LinkOrder(f, getVendorFunctions(p))]
    BY <1>2 DEF Configure
  <2>3. /\ config'.functions = f /\ config'.accepted = TRUE
        /\ config'.ids = VidPid(f, v)
        /\ config'.links = LinkOrder(f, getVendorFunctions(p))
    BY <2>2
  <2> QED
    BY <1>1, <2>1, <2>2, <2>3
<1>3. CASE ~Supported(f, v)
  <2>1. /\ props' = p
        /\ config' = [functions |-> f, accepted |-> FALSE, ids |-> <<>>, links |-> <<>>]
    BY <1>3 DEF Configure
  <2>2. config'.functions = f /\ config'.accepted = FALSE
    BY <2>1
  <2> QED
    BY <1>1, <2>1, <2>2
<1> QED
  BY <1>2, <1>3

\* What is accepted was accepted, and is linked, under one vendor configuration.
THEOREM TablesInvariant == Spec => []TablesInv
<1>1. Init => TablesInv
  BY VendorAssumption DEF Init, TablesInv, ConfigInv, GoodProps, TokenSeqs
<1>2. TablesInv /\ [Next]_vars => TablesInv'
  <2> SUFFICES ASSUME TablesInv, [Next]_vars
               PROVE  TablesInv'
    OBVIOUS
  <2>1. ASSUME NEW f \in (SUBSET Function) \ {{}}, Configure(f)
        PROVE  TablesInv'
    <3>1. f \in SUBSET Function /\ props \in GoodProps
      BY DEF TablesInv
    <3>2. getVendorFunctions(props) \in Vendor
      BY <3>1, VendorFunctions
    <3>3. /\ props' \in GoodProps
          /\ config'.functions = f
          /\ config'.accepted =>
               /\ config'.ids \in VidPids(f, getVendorFunctions(props))
               /\ config'.links = LinkOrder(f, getVendorFunctions(props))
      BY <2>1, <3>1, ConfigureStep
    <3> QED
      BY <3>1, <3>2, <3>3 DEF TablesInv, ConfigInv
  <2>2. ASSUME NEW v \in VendorConfigs, SetVendorConfig(v)
        PROVE  TablesInv'
    <3>1. v \in TokenSeqs
      BY VendorAssumption DEF TokenSeqs
    <3> QED
      BY <2>2, <3>1 DEF SetVendorConfig, TablesInv, ConfigInv, GoodProps
  <2>3. CASE UNCHANGED vars
    BY <2>3 DEF vars, TablesInv, ConfigInv
  <2> QED
    BY <2>1, <2>2, <2>3 DEF Next
<1> QED
  BY <1>1, <1>2, PTL DEF Spec

\* Whatever validateAndSetVidPid accepts, setupFunctions links completely, no
\* function twice: under every vendor configuration without repeated tokens.
THEOREM AcceptedIsLinkedHolds == Spec => []AcceptedIsLinked
<1>1. TablesInv => AcceptedIsLinked
  <2> SUFFICES ASSUME TablesInv, config.accepted
               PROVE  /\ \A x \in config.functions : ServedBy[x] \in Names(config.links)
                      /\ Once(config.links)
    BY DEF AcceptedIsLinked
  <2>1. PICK v \in Vendor : /\ config.ids \in VidPids(config.functions, v)
                            /\ config.links = LinkOrder(config.functions, v)
    BY DEF TablesInv, ConfigInv
  <2>2. config.functions \in SUBSET Function
    BY DEF TablesInv, ConfigInv
  <2>3. "MTP" \notin config.functions \/ "PTP" \notin config.functions
    BY <2>1, NeverBothTransfers
  <2>4. \A x \in config.functions : ServedBy[x] \in FunctionLinks(config.functions)
    BY <2>2, <2>3, EveryFunctionLinked
  <2>5. /\ FunctionLinks(config.functions) \subseteq Names(config.links)
        /\ Once(config.links)
    BY <2>1, LinkOrderNames
  <2> QED
    BY <2>4, <2>5
<1> QED
  BY <1>1, TablesInvariant, PTL

\* The ids the host selects its drivers by tell the linked functions apart: two
\* accepted requests with the same ids, an accessory's excepted, make the same
\* links.
THEOREM IdsIdentifyFunctionsHolds == Spec => IdsIdentifyFunctions
<1> DEFINE Same == /\ config.accepted /\ config'.accepted
                   /\ config.ids = config'.ids
                   /\ config.ids[2] \notin {e.pid : e \in AccessoryIds}
                   => Names(config.links) = Names(config'.links)
<1>1. TablesInv /\ TablesInv' => Same
  <2> SUFFICES ASSUME TablesInv, TablesInv', config.accepted, config'.accepted,
                      config.ids = config'.ids,
                      config.ids[2] \notin {e.pid : e \in AccessoryIds}
               PROVE  Names(config.links) = Names(config'.links)
    OBVIOUS
  <2>1. PICK v \in Vendor : /\ config.ids \in VidPids(config.functions, v)
                            /\ config.links = LinkOrder(config.functions, v)
    BY DEF TablesInv, ConfigInv
  <2>2. PICK w \in Vendor : /\ config'.ids \in VidPids(config'.functions, w)
                            /\ config'.links = LinkOrder(config'.functions, w)
    BY DEF TablesInv, ConfigInv
  <2>3. config.functions = config'.functions /\ VendorLinks(v) = VendorLinks(w)
    BY <2>1, <2>2, IdsDetermine
  <2> QED
    BY <2>1, <2>2, <2>3, LinkOrderNames
<1>2. TablesInv /\ TablesInv' => [Same]_vars
  BY <1>1
<1> QED
  BY <1>2, TablesInvariant, PTL DEF IdsIdentifyFunctions

\* In usbradio mode vendor.usb.config names, after an accepted request, the
\* debug functions that were linked with it.
THEOREM VendorConfigReflectsHolds == Spec => VendorConfigReflects
<1> DEFINE Reflects == /\ config'.accepted /\ config # config'
                       /\ props.radio /\ ~props.build
                       => Names(config'.links) \ Names(LinkOrder(config'.functions, <<>>))
                            = Names(VendorLinks(props'.vendor))
<1>1. TablesInv /\ [Next]_vars => [Reflects]_vars
  <2> SUFFICES ASSUME TablesInv, [Next]_vars, config'.accepted, config # config',
                      props.radio, ~props.build
               PROVE  Names(config'.links) \ Names(LinkOrder(config'.functions, <<>>))
                        = Names(VendorLinks(props'.vendor))
    OBVIOUS
  <2> DEFINE v == getVendorFunctions(props)
  <2>1. PICK f \in SUBSET Function : Configure(f)
    BY DEF Next, SetVendorConfig, vars
  <2>2. props \in GoodProps
    BY DEF TablesInv
  <2>3. /\ config'.functions = f
        /\ config'.links = LinkOrder(f, v)
        /\ props' = PropsAfter(PropsAfter(props))
    BY <2>1, <2>2, ConfigureStep
  <2>4. v \in Vendor
    BY <2>2, VendorFunctions
  <2>5. props'.vendor = v
    <3> DEFINE p == PropsAfter(props)
    <3>1. p \in GoodProps /\ getVendorFunctions(p) = v
      BY <2>2, VendorFunctions
    <3>2. p.radio /\ ~p.build
      BY <2>2 DEF PropsAfter, GoodProps
    <3>3. PropsAfter(p).vendor = getVendorFunctions(p)
      BY <3>1, <3>2, RadioPublishes
    <3> QED
      BY <2>3, <3>1, <3>3
  <2>6. <<>> \in Vendor /\ Names(VendorLinks(<<>>)) = {}
    BY DEF Vendor, Once, Names, VendorLinks
  <2>7. Names(LinkOrder(f, <<>>)) = FunctionLinks(f)
    BY <2>6, LinkOrderNames
  <2>8. Names(LinkOrder(f, v)) = FunctionLinks(f) \cup Names(VendorLinks(v))
    BY <2>4, LinkOrderNames
  <2>9. FunctionLinks(f) \cap Names(VendorLinks(v)) = {}
    <3>1. FunctionLinks(f) \cap DebugLinks = {}
      BY DEF FunctionLinks, DebugLinks, NameIf
    <3> QED
      BY <2>4, <3>1, VendorLinksOnce
  <2> QED
    BY <2>3, <2>5, <2>7, <2>8, <2>9
<1> QED
  BY <1>1, TablesInvariant, PTL DEF Spec, VendorConfigReflects
===============================================================================
