----------------------------- MODULE PassProofs -----------------------------
(***************************************************************************)
(* What a pass leaves, for any deployments, names and goroutines: the      *)
(* services it has dealt with need no second pass, a service it switches   *)
(* off keeps its endpoint, and a published port is never lost.             *)
(***************************************************************************)
EXTENDS ReconcilerProofs

-----------------------------------------------------------------------------
(* The overlay, field by field                                             *)

\* The port that the existing service hands on to the desired one.
KeptPort(cur, ds) ==
    IF ~ds.portFromBinding /\ cur.targets # << >> /\ cur.targets[1].port # 0
    THEN cur.targets[1].port ELSE ds.service.targets[1].port

\* A sequence of one element.
LEMMA OnlyElement ==
    ASSUME NEW T, NEW ts \in Seq(T), Len(ts) = 1
    PROVE  ts = <<ts[1]>> /\ ts[1] \in T /\ DOMAIN ts = {1}
<1>1. DOMAIN ts = {1} /\ ts[1] \in T
  OBVIOUS
<1>2. <<ts[1]>> \in Seq(T) /\ Len(<<ts[1]>>) = 1 /\ <<ts[1]>>[1] = ts[1]
  BY <1>1
<1>3. ts = <<ts[1]>>
  BY <1>1, <1>2, SeqEqual
<1> QED
  BY <1>1, <1>3

\* InheritPort changes one port at most, and leaves one target.
LEMMA InheritFields ==
    ASSUME NEW cur \in ServiceType, NEW ds \in DesiredType
    PROVE  LET kept == InheritPort(cur, ds)
           IN  /\ kept \in ServiceType
               /\ kept.name = ds.service.name
               /\ kept.listenPort = ds.service.listenPort
               /\ kept.proxyCluster = ds.service.proxyCluster
               /\ kept.enabled = ds.service.enabled
               /\ kept.auth = ds.service.auth
               /\ kept.access = ds.service.access
               /\ kept.payload = ds.service.payload
               /\ kept.targets = <<[ds.service.targets[1] EXCEPT !.port = KeptPort(cur, ds)]>>
<1> DEFINE d == ds.service
           t == d.targets[1]
<1>1. /\ d \in ServiceType
      /\ d.targets \in Seq(TargetType)
      /\ Len(d.targets) = 1
      /\ cur.targets \in Seq(TargetType)
  BY DEF DesiredType, ServiceType
<1>2. d.targets = <<t>> /\ t \in TargetType
  BY <1>1, OnlyElement
<1>3. CASE ~ds.portFromBinding /\ cur.targets # << >> /\ cur.targets[1].port # 0
  <2> DEFINE ts == <<[t EXCEPT !.port = cur.targets[1].port]>>
  <2>1. InheritPort(cur, ds) = [d EXCEPT !.targets = ts]
    BY <1>3 DEF InheritPort
  <2>2. KeptPort(cur, ds) = cur.targets[1].port
    BY <1>3 DEF KeptPort
  <2>3. ts \in Seq(TargetType)
    <3>1. cur.targets[1] \in TargetType
      BY <1>1, <1>3
    <3> QED
      BY <1>2, <3>1 DEF TargetType
  <2> HIDE DEF d, ts
  <2>4. LET kept == [d EXCEPT !.targets = ts]
        IN  /\ kept \in ServiceType
            /\ kept.name = d.name /\ kept.listenPort = d.listenPort
            /\ kept.proxyCluster = d.proxyCluster /\ kept.enabled = d.enabled
            /\ kept.auth = d.auth /\ kept.access = d.access /\ kept.payload = d.payload
            /\ kept.targets = ts
    BY <1>1, <2>3 DEF ServiceType
  <2> QED
    BY <2>1, <2>2, <2>4 DEF d, ts
<1>4. CASE ~(~ds.portFromBinding /\ cur.targets # << >> /\ cur.targets[1].port # 0)
  <2>1. InheritPort(cur, ds) = d
    BY <1>4 DEF InheritPort
  <2>2. KeptPort(cur, ds) = t.port
    BY <1>4 DEF KeptPort
  <2>3. [t EXCEPT !.port = t.port] = t
    BY <1>2 DEF TargetType
  <2> QED
    BY <1>1, <1>2, <2>1, <2>2, <2>3
<1> QED
  BY <1>3, <1>4

\* The overlay of a service that is on.
LEMMA OverlayOn ==
    ASSUME NEW cur \in ServiceType, NEW ds \in DesiredType, ds.service.enabled
    PROVE  LET o == Overlay(cur, ds)
           IN  /\ o \in ServiceType
               /\ o.id = cur.id
               /\ o.name = ds.service.name
               /\ o.listenPort = IF ds.service.listenPort = 0 THEN cur.listenPort
                                                              ELSE ds.service.listenPort
               /\ o.proxyCluster = IF ds.service.proxyCluster = NoText
                                   THEN cur.proxyCluster ELSE ds.service.proxyCluster
               /\ o.enabled
               /\ o.auth = ds.service.auth
               /\ o.access = ds.service.access
               /\ o.payload = ds.service.payload
               /\ o.targets = <<[ds.service.targets[1] EXCEPT !.port = KeptPort(cur, ds)]>>
<1> DEFINE kept == InheritPort(cur, ds)
           port == IF kept.listenPort = 0 THEN cur.listenPort ELSE kept.listenPort
           cluster == IF kept.proxyCluster = NoText THEN cur.proxyCluster
                                                    ELSE kept.proxyCluster
<1>1. /\ kept \in ServiceType
      /\ kept.name = ds.service.name
      /\ kept.listenPort = ds.service.listenPort
      /\ kept.proxyCluster = ds.service.proxyCluster
      /\ kept.enabled = ds.service.enabled
      /\ kept.auth = ds.service.auth
      /\ kept.access = ds.service.access
      /\ kept.payload = ds.service.payload
      /\ kept.targets = <<[ds.service.targets[1] EXCEPT !.port = KeptPort(cur, ds)]>>
  BY InheritFields
<1>2. Overlay(cur, ds) = Merge(cur, kept)
  BY DEF Overlay
<1> HIDE DEF kept
<1>3. Merge(cur, kept) = [kept EXCEPT !.id = cur.id, !.meta = cur.meta,
                                      !.portAuto = cur.portAuto, !.proxyCluster = cluster,
                                      !.listenPort = port]
  BY DEF Merge
<1>4. port \in Int /\ cluster \in Text
  BY <1>1 DEF ServiceType
<1>5. /\ port = IF ds.service.listenPort = 0 THEN cur.listenPort ELSE ds.service.listenPort
      /\ cluster = IF ds.service.proxyCluster = NoText
                   THEN cur.proxyCluster ELSE ds.service.proxyCluster
  BY <1>1
<1> HIDE DEF port, cluster
<1> DEFINE o == [kept EXCEPT !.id = cur.id, !.meta = cur.meta, !.portAuto = cur.portAuto,
                             !.proxyCluster = cluster, !.listenPort = port]
<1>6. /\ o \in ServiceType
      /\ o.id = cur.id /\ o.name = kept.name /\ o.listenPort = port
      /\ o.proxyCluster = cluster /\ o.enabled = kept.enabled /\ o.auth = kept.auth
      /\ o.access = kept.access /\ o.payload = kept.payload /\ o.targets = kept.targets
  BY <1>1, <1>4 DEF ServiceType
<1>7. Overlay(cur, ds) = o
  BY <1>2, <1>3
<1> HIDE DEF o
<1> QED
  BY <1>1, <1>5, <1>6, <1>7

\* Switching off keeps every field but the switches.
LEMMA DisableFields ==
    ASSUME NEW s \in ServiceType
    PROVE  LET off == DisableInPlace(s)
           IN  /\ off.id = s.id /\ off.name = s.name /\ off.listenPort = s.listenPort
               /\ off.portAuto = s.portAuto /\ off.proxyCluster = s.proxyCluster
               /\ off.enabled = FALSE /\ off.terminated = s.terminated
               /\ off.auth = s.auth /\ off.access = s.access
               /\ off.payload = s.payload /\ off.meta = s.meta
               /\ off.targets = [i \in DOMAIN s.targets |->
                                    [s.targets[i] EXCEPT !.enabled = FALSE]]
               /\ \A i \in DOMAIN off.targets : off.targets[i].enabled = FALSE
<1> DEFINE ts == [i \in DOMAIN s.targets |-> [s.targets[i] EXCEPT !.enabled = FALSE]]
           off == [s EXCEPT !.enabled = FALSE, !.targets = ts]
<1>1. DisableInPlace(s) = off
  BY DEF DisableInPlace
<1>2. \A i \in DOMAIN ts : ts[i].enabled = FALSE
  <2>1. s.targets \in Seq(TargetType)
    BY DEF ServiceType
  <2>2. \A i \in DOMAIN s.targets : s.targets[i] \in TargetType
    BY <2>1
  <2> QED
    BY <2>2 DEF TargetType
<1> HIDE DEF ts
<1>3. /\ off.id = s.id /\ off.name = s.name /\ off.listenPort = s.listenPort
      /\ off.portAuto = s.portAuto /\ off.proxyCluster = s.proxyCluster
      /\ off.enabled = FALSE /\ off.terminated = s.terminated
      /\ off.auth = s.auth /\ off.access = s.access
      /\ off.payload = s.payload /\ off.meta = s.meta /\ off.targets = ts
  BY DEF ServiceType
<1> HIDE DEF off
<1> QED
  BY <1>1, <1>2, <1>3 DEF ts

-----------------------------------------------------------------------------
(* Comparing a second time                                                 *)

\* A service that compares like what the overlay made of it, whatever it was
\* before, is laid over without a difference.
LEMMA OverlaySettles ==
    ASSUME NEW cur \in ServiceType, NEW c \in ServiceType, NEW ds \in DesiredType,
           ds.service.name = cur.name, Alike(c, Overlay(cur, ds))
    PROVE  ServicesEqual(c, Overlay(c, ds))
<1>1. Overlay(cur, ds) \in ServiceType /\ Overlay(cur, ds).name = cur.name
  BY OverlayType
<1>2. c.name = ds.service.name
  BY <1>1 DEF Alike
<1>3. Overlay(c, ds) \in ServiceType
  BY <1>2, OverlayType
<1>4. CASE ds.service.enabled
  <2> DEFINE t == [ds.service.targets[1] EXCEPT !.port = KeptPort(cur, ds)]
  <2>1. /\ Overlay(cur, ds).targets = <<t>>
        /\ Overlay(cur, ds).auth = ds.service.auth
        /\ Overlay(cur, ds).access = ds.service.access
        /\ Overlay(cur, ds).payload = ds.service.payload
        /\ Overlay(cur, ds).enabled
        /\ ds.service.listenPort # 0 => Overlay(cur, ds).listenPort = ds.service.listenPort
        /\ ds.service.proxyCluster # NoText
              => Overlay(cur, ds).proxyCluster = ds.service.proxyCluster
    BY <1>4, OverlayOn
  <2>2. t.port = KeptPort(cur, ds)
    <3>1. ds.service.targets \in Seq(TargetType) /\ Len(ds.service.targets) = 1
      BY DEF DesiredType, ServiceType
    <3>2. ds.service.targets[1] \in TargetType
      BY <3>1, OnlyElement
    <3> QED
      BY <3>2 DEF TargetType
  <2>3. DOMAIN c.targets = {1} /\ c.targets[1].port = KeptPort(cur, ds)
    <3>1. /\ DOMAIN c.targets = DOMAIN Overlay(cur, ds).targets
          /\ \A i \in DOMAIN c.targets : c.targets[i].port = Overlay(cur, ds).targets[i].port
      BY <1>1, AlikeTargets
    <3> HIDE DEF t
    <3>2. DOMAIN <<t>> = {1} /\ <<t>>[1] = t
      OBVIOUS
    <3> QED
      BY <2>1, <2>2, <3>1, <3>2
  <2>4. KeptPort(c, ds) = KeptPort(cur, ds)
    <3>1. c.targets # << >>
      BY <2>3
    <3> QED
      BY <2>3, <3>1 DEF KeptPort
  <2>5. /\ Overlay(c, ds).targets = <<t>>
        /\ Overlay(c, ds).auth = ds.service.auth
        /\ Overlay(c, ds).access = ds.service.access
        /\ Overlay(c, ds).payload = ds.service.payload
        /\ Overlay(c, ds).enabled
        /\ Overlay(c, ds).name = ds.service.name
        /\ Overlay(c, ds).listenPort = IF ds.service.listenPort = 0 THEN c.listenPort
                                                                    ELSE ds.service.listenPort
        /\ Overlay(c, ds).proxyCluster = IF ds.service.proxyCluster = NoText
                                         THEN c.proxyCluster ELSE ds.service.proxyCluster
    BY <1>4, <2>4, OverlayOn
  <2> HIDE DEF t
  <2>6. c.enabled = Overlay(c, ds).enabled
    <3>1. /\ c.enabled \in BOOLEAN
          /\ Overlay(cur, ds).enabled \in BOOLEAN
          /\ Overlay(c, ds).enabled \in BOOLEAN
      BY <1>1, <1>3 DEF ServiceType
    <3> QED
      BY <2>1, <2>5, <3>1 DEF Alike
  <2>7. Alike(c, Overlay(c, ds))
    BY <1>2, <2>1, <2>5, <2>6 DEF Alike
  <2> QED
    BY <1>3, <2>7, EqualIsAlike
<1>5. CASE ~ds.service.enabled
  <2>1. \A s : Overlay(s, ds) = DisableInPlace(s)
    BY <1>5 DEF Overlay
  <2>2. DisableInPlace(cur).enabled = FALSE /\ DisableInPlace(cur) \in ServiceType
    BY DisableFields, DisableInPlaceType
  <2>3. c.enabled = FALSE
    BY <2>1, <2>2 DEF Alike
  <2>4. \A i \in DOMAIN c.targets : c.targets[i].enabled = FALSE
    <3> DEFINE o == DisableInPlace(cur)
    <3>1. \A i \in DOMAIN o.targets : o.targets[i].enabled = FALSE
      BY DisableFields
    <3>2. o \in ServiceType /\ Alike(c, o)
      BY <2>1, <2>2
    <3> HIDE DEF o
    <3> QED
      BY <3>1, <3>2, AlikeTargets
  <2>5. Alike(c, DisableInPlace(c))
    BY <2>3, <2>4, DisabledStays
  <2> QED
    BY <1>3, <2>1, <2>5, EqualIsAlike
<1> QED
  BY <1>4, <1>5

\* What the server makes of a posted service needs no request either.
LEMMA PostedSettles ==
    ASSUME NEW ds \in DesiredType, NEW id \in Ids,
           ds.service.targets[1].enabled = ds.service.enabled
    PROVE  LET c == View(Stored(id, ds.service)) IN ServicesEqual(c, Overlay(c, ds))
<1> DEFINE d == ds.service
           c == View(Stored(id, d))
<1>1. d \in ServiceType /\ d.targets \in Seq(TargetType) /\ Len(d.targets) = 1
  BY DEF DesiredType, ServiceType
<1>2. Stored(id, d) \in ServiceType
  BY <1>1, StoredType
<1>3. c \in ServiceType /\ Alike(c, Stored(id, d))
  BY <1>2, ViewType, ViewIsAlike
<1>4. /\ c.name = d.name /\ c.proxyCluster = d.proxyCluster /\ c.enabled = d.enabled
      /\ NormalTargets(c.targets) = NormalTargets(d.targets)
      /\ NormalAuth(c.auth) = NormalAuth(d.auth)
      /\ NormalAccess(c.access) = NormalAccess(d.access)
      /\ c.payload = d.payload
      /\ d.listenPort # 0 => c.listenPort = d.listenPort
  BY <1>1, <1>3, StoredFields DEF Alike
<1>5. d.targets = <<d.targets[1]>> /\ d.targets[1] \in TargetType /\ DOMAIN d.targets = {1}
  BY <1>1, OnlyElement
<1>6. /\ DOMAIN c.targets = {1}
      /\ c.targets[1].port = d.targets[1].port
      /\ c.targets[1].enabled = d.targets[1].enabled
  <2>1. Stored(id, d).targets = d.targets
    BY <1>1, StoredFields
  <2> QED
    BY <1>2, <1>3, <1>5, <2>1, AlikeTargets
<1>7. Overlay(c, ds) \in ServiceType
  BY <1>3, <1>4, OverlayType
<1> HIDE DEF c
<1>8. CASE d.enabled
  <2>1. KeptPort(c, ds) = d.targets[1].port
    BY <1>6 DEF KeptPort
  <2>2. [d.targets[1] EXCEPT !.port = KeptPort(c, ds)] = d.targets[1]
    BY <1>5, <2>1 DEF TargetType
  <2>3. /\ Overlay(c, ds).targets = d.targets
        /\ Overlay(c, ds).auth = d.auth
        /\ Overlay(c, ds).access = d.access
        /\ Overlay(c, ds).payload = d.payload
        /\ Overlay(c, ds).enabled
        /\ Overlay(c, ds).name = d.name
        /\ Overlay(c, ds).listenPort = IF d.listenPort = 0 THEN c.listenPort ELSE d.listenPort
        /\ Overlay(c, ds).proxyCluster = IF d.proxyCluster = NoText
                                         THEN c.proxyCluster ELSE d.proxyCluster
    BY <1>3, <1>5, <1>8, <2>2, OverlayOn
  <2>4. c.enabled = Overlay(c, ds).enabled
    <3>1. d.enabled \in BOOLEAN /\ Overlay(c, ds).enabled \in BOOLEAN
      BY <1>1, <1>7 DEF ServiceType
    <3> QED
      BY <1>4, <1>8, <2>3, <3>1
  <2>5. Alike(c, Overlay(c, ds))
    BY <1>4, <2>3, <2>4 DEF Alike
  <2> QED
    BY <1>3, <1>7, <2>5, EqualIsAlike DEF c
<1>9. CASE ~d.enabled
  <2>1. ~c.enabled /\ \A i \in DOMAIN c.targets : ~c.targets[i].enabled
    BY <1>4, <1>6, <1>9
  <2>2. Overlay(c, ds) = DisableInPlace(c)
    BY <1>9 DEF Overlay
  <2> QED
    BY <1>3, <1>7, <2>1, <2>2, DisabledStays, EqualIsAlike DEF c
<1> QED
  BY <1>8, <1>9

\* Nor does what a PUT has left.
LEMMA PutSettles ==
    ASSUME NEW cur \in ServiceType, NEW ds \in DesiredType, ds.service.name = cur.name,
           NEW old \in ServiceType, NEW id \in Ids
    PROVE  LET c == View(Put(id, AfterCompare(Overlay(cur, ds)), old))
           IN  ServicesEqual(c, Overlay(c, ds))
<1> DEFINE o == Overlay(cur, ds)
           body == AfterCompare(o)
           new == Put(id, body, old)
<1>1. o \in ServiceType
  BY OverlayType
<1> HIDE DEF o
<1>2. body \in ServiceType /\ Alike(body, o)
  BY <1>1, AfterCompareType, AfterCompareIsAlike
<1> HIDE DEF body
<1>3. new \in ServiceType /\ Alike(new, body)
  BY <1>2, PutFields
<1> HIDE DEF new
<1>4. View(new) \in ServiceType /\ Alike(View(new), new)
  BY <1>3, ViewType, ViewIsAlike
<1>5. Alike(View(new), o)
  BY <1>2, <1>3, <1>4, AlikeTrans
<1> QED
  BY <1>4, <1>5, OverlaySettles DEF o, body, new

-----------------------------------------------------------------------------
(* The endpoint of a service that is switched off                          *)

\* What Endpoint looks at.
LEMMA SameEndpoint ==
    ASSUME NEW a \in ServiceType, NEW b \in ServiceType,
           a.id = b.id, a.meta = b.meta, a.portAuto = b.portAuto, a.name = b.name,
           a.listenPort = b.listenPort, a.proxyCluster = b.proxyCluster,
           a.access = b.access, a.payload = b.payload,
           [a.auth EXCEPT !.secret = NoText] = [b.auth EXCEPT !.secret = NoText],
           NormalTargets(DisableInPlace(a).targets) = NormalTargets(DisableInPlace(b).targets)
    PROVE  Endpoint(a) = Endpoint(b)
<1> DEFINE E(s) ==
             [id |-> s.id, name |-> s.name, listenPort |-> s.listenPort,
              portAuto |-> s.portAuto, proxyCluster |-> s.proxyCluster,
              targets |-> NormalTargets(DisableInPlace(s).targets), enabled |-> FALSE,
              terminated |-> FALSE, auth |-> [s.auth EXCEPT !.secret = NoText],
              access |-> s.access, payload |-> s.payload, meta |-> s.meta]
<1>1. ASSUME NEW s \in ServiceType
      PROVE  Endpoint(s) = E(s)
  <2> DEFINE off == DisableInPlace(s)
             ts == NormalTargets(off.targets)
             auth == [s.auth EXCEPT !.secret = NoText]
  <2>1. /\ off \in ServiceType
        /\ off.id = s.id /\ off.name = s.name /\ off.listenPort = s.listenPort
        /\ off.portAuto = s.portAuto /\ off.proxyCluster = s.proxyCluster
        /\ off.enabled = FALSE /\ off.terminated = s.terminated
        /\ off.auth = s.auth /\ off.access = s.access
        /\ off.payload = s.payload /\ off.meta = s.meta
    BY DisableFields, DisableInPlaceType
  <2> HIDE DEF off
  <2>2. AfterCompare(off) = [off EXCEPT !.targets = ts, !.auth = auth]
    BY <2>1 DEF AfterCompare
  <2> HIDE DEF ts, auth
  <2>3. Endpoint(s) = [[off EXCEPT !.targets = ts, !.auth = auth] EXCEPT !.terminated = FALSE]
    BY <2>2 DEF Endpoint, off
  <2>4. Endpoint(s) =
          [id |-> s.id, name |-> s.name, listenPort |-> s.listenPort,
           portAuto |-> s.portAuto, proxyCluster |-> s.proxyCluster, targets |-> ts,
           enabled |-> FALSE, terminated |-> FALSE, auth |-> auth,
           access |-> s.access, payload |-> s.payload, meta |-> s.meta]
    BY <2>1, <2>3 DEF ServiceType
  <2> QED
    BY <2>4 DEF ts, auth, off
<1>2. E(a) = E(b)
  OBVIOUS
<1> QED
  BY <1>1, <1>2

\* What switching off, comparing and listing make of one target.
TargetOff(t) == [t EXCEPT !.enabled = FALSE]

TargetCompared(t) == [t EXCEPT !.options = IF t.options = "empty" THEN "nil" ELSE t.options]

TargetListed(t) == [t EXCEPT !.options = IF t.options = "nil" THEN "empty" ELSE t.options]

\* A target that is switched off, stripped of empty options and listed again
\* is but switched off.
LEMMA TargetStaysOff ==
    ASSUME NEW t \in TargetType
    PROVE  TargetCompared(TargetOff(TargetListed(TargetCompared(TargetOff(t)))))
             = TargetCompared(TargetOff(t))
BY DEF TargetType, TargetOff, TargetCompared, TargetListed

\* Switching off in place, as the list shows the service, is all that a PUT
\* changes when a container has stopped.
LEMMA StopInPlace ==
    ASSUME NEW s \in ServiceType, NEW id \in Ids, s.id = id
    PROVE  Endpoint(View(Put(id, AfterCompare(DisableInPlace(View(s))), s))) = Endpoint(View(s))
<1> DEFINE a == View(s)
           off == DisableInPlace(a)
           body == AfterCompare(off)
           new == Put(id, body, s)
           b == View(new)
<1>1. /\ a \in ServiceType /\ a.id = id /\ a.meta = s.meta
      /\ a.auth = [s.auth EXCEPT !.secret = NoText]
  BY ViewType, ViewIsAlike
<1>2. a.targets \in Seq(TargetType) /\ s.auth \in AuthType
  BY <1>1 DEF ServiceType
<1> HIDE DEF a
<1>3. /\ off \in ServiceType
      /\ off.name = a.name /\ off.listenPort = a.listenPort
      /\ off.portAuto = a.portAuto /\ off.proxyCluster = a.proxyCluster
      /\ off.auth = a.auth /\ off.access = a.access /\ off.payload = a.payload
      /\ off.targets = [i \in DOMAIN a.targets |-> [a.targets[i] EXCEPT !.enabled = FALSE]]
  BY <1>1, DisableFields, DisableInPlaceType
<1> HIDE DEF off
<1>4. /\ body \in ServiceType /\ Alike(body, off)
      /\ body.portAuto = off.portAuto /\ body.access = off.access
      /\ body.auth = [off.auth EXCEPT !.secret = NoText]
      /\ body.targets = NormalTargets(off.targets)
  BY <1>3, AfterCompareType, AfterCompareIsAlike
<1> HIDE DEF body, new
<1>5. /\ new \in ServiceType /\ Alike(new, body) /\ new.id = id /\ new.meta = s.meta
      /\ new.portAuto = body.portAuto /\ new.access = body.access
      /\ new.auth = body.auth /\ new.targets = body.targets
  <2>1. new = Put(id, body, s)
    BY DEF new
  <2>2. body \in ServiceType
    BY <1>4
  <2>3. Alike(Put(id, body, s), body)
    BY <2>2, PutFields
  <2>4. /\ Put(id, body, s) \in ServiceType
        /\ Put(id, body, s).id = id /\ Put(id, body, s).meta = s.meta
        /\ Put(id, body, s).portAuto = body.portAuto /\ Put(id, body, s).access = body.access
        /\ Put(id, body, s).auth = body.auth /\ Put(id, body, s).targets = body.targets
    BY <2>2, PutFields
  <2> QED
    BY <2>1, <2>3, <2>4
<1>6. /\ b \in ServiceType /\ Alike(b, new) /\ b.id = id /\ b.meta = s.meta
      /\ b.portAuto = new.portAuto /\ b.access = new.access
      /\ b.auth = [new.auth EXCEPT !.secret = NoText]
      /\ b.targets = [i \in DOMAIN new.targets |->
            [new.targets[i] EXCEPT !.options = IF new.targets[i].options = "nil"
                                               THEN "empty" ELSE new.targets[i].options]]
  BY <1>5, ViewType, ViewIsAlike
<1> HIDE DEF b
<1>7. [b.auth EXCEPT !.secret = NoText] = [a.auth EXCEPT !.secret = NoText]
  BY <1>1, <1>2, <1>3, <1>4, <1>5, <1>6 DEF AuthType
<1>8. NormalTargets(DisableInPlace(b).targets) = NormalTargets(DisableInPlace(a).targets)
  <2>1. /\ off.targets = [i \in DOMAIN a.targets |-> TargetOff(a.targets[i])]
        /\ new.targets = [i \in DOMAIN off.targets |-> TargetCompared(off.targets[i])]
        /\ b.targets = [i \in DOMAIN new.targets |-> TargetListed(new.targets[i])]
    BY <1>3, <1>4, <1>5, <1>6 DEF NormalTargets, TargetOff, TargetCompared, TargetListed
  <2>2. /\ DOMAIN b.targets = DOMAIN a.targets
        /\ \A i \in DOMAIN a.targets :
              b.targets[i] = TargetListed(TargetCompared(TargetOff(a.targets[i])))
    BY <2>1
  <2>3. ASSUME NEW i \in DOMAIN a.targets
        PROVE  TargetCompared(TargetOff(b.targets[i])) = TargetCompared(TargetOff(a.targets[i]))
    <3>1. a.targets[i] \in TargetType
      BY <1>2
    <3> QED
      BY <2>2, <3>1, TargetStaysOff
  <2>4. ASSUME NEW x \in ServiceType
        PROVE  NormalTargets(DisableInPlace(x).targets)
                 = [i \in DOMAIN x.targets |-> TargetCompared(TargetOff(x.targets[i]))]
    <3> DEFINE ts == DisableInPlace(x).targets
    <3>1. ts = [i \in DOMAIN x.targets |-> TargetOff(x.targets[i])]
      BY DisableFields DEF TargetOff
    <3> HIDE DEF ts
    <3>2. NormalTargets(ts) = [i \in DOMAIN ts |-> TargetCompared(ts[i])]
      BY DEF NormalTargets, TargetCompared
    <3>3. DOMAIN ts = DOMAIN x.targets /\ \A i \in DOMAIN ts : ts[i] = TargetOff(x.targets[i])
      BY <3>1
    <3> QED
      BY <3>2, <3>3 DEF ts
  <2> DEFINE Left(x) == [i \in DOMAIN x.targets |-> TargetCompared(TargetOff(x.targets[i]))]
  <2>5. Left(b) = Left(a)
    BY <2>2, <2>3
  <2>6. NormalTargets(DisableInPlace(a).targets) = Left(a)
    BY <1>1, <2>4
  <2>7. NormalTargets(DisableInPlace(b).targets) = Left(b)
    BY <1>6, <2>4
  <2> QED
    BY <2>5, <2>6, <2>7
<1>9. /\ b.name = a.name /\ b.listenPort = a.listenPort /\ b.proxyCluster = a.proxyCluster
      /\ b.payload = a.payload /\ b.portAuto = a.portAuto /\ b.access = a.access
  BY <1>3, <1>4, <1>5, <1>6 DEF Alike
<1>10. Endpoint(b) = Endpoint(a)
  BY <1>1, <1>6, <1>7, <1>8, <1>9, SameEndpoint
<1> QED
  BY <1>10 DEF a, off, body, new, b

-----------------------------------------------------------------------------
(* What a pass knows                                                       *)

\* What a clean pass has listed of a service that it still has to deal with
\* is what a list would return now.
FreshView ==
    \A g \in Goroutines : pass[g].clean =>
        \A n \in pass[g].todo \cap DOMAIN pass[g].byName :
            LET id == pass[g].byName[n].id
            IN  id \in DOMAIN services /\ View(services[id]) = pass[g].byName[n]

\* A desired service is on or off together with its target.
Coherent ==
    \A g \in Goroutines : \A n \in DOMAIN pass[g].desired :
        pass[g].desired[n].service.targets[1].enabled = pass[g].desired[n].service.enabled

\* Two services have the same number of targets as far as none or some goes,
\* and the same port.
SamePort(a, b) ==
    /\ a.targets = << >> <=> b.targets = << >>
    /\ a.targets # << >> => a.targets[1].port = b.targets[1].port

\* The ports that a pass has listed are right until it writes them, clean or
\* not: people change no port.
PortsSeen ==
    \A g \in Goroutines : \A n \in pass[g].todo \cap DOMAIN pass[g].byName :
        LET id == pass[g].byName[n].id
        IN  id \in DOMAIN services => SamePort(services[id], pass[g].byName[n])

\* A port that was found in the bindings is a host port.
PortsMeant ==
    \A g \in Goroutines : \A n \in DOMAIN pass[g].desired :
        pass[g].desired[n].portFromBinding /\ AlwaysPublished(n)
            => pass[g].desired[n].service.targets[1].port \in HostPorts

\* A goroutine goes on with the pass it is in, or has none.
GoesOn(h) ==
    \/ pass'[h] = IdlePass
    \/ /\ pass'[h].desired = pass[h].desired
       /\ pass'[h].byName = pass[h].byName
       /\ pass'[h].todo = pass[h].todo
       /\ pass'[h].clean = pass[h].clean
       /\ pass'[h].phase \in {pass[h].phase, "list"}

\* What one name's turn leaves of the locals.
LEMMA DoneFields ==
    ASSUME TypeOK, NEW g \in Goroutines, NEW n, NEW ok \in BOOLEAN, Done(g, n, ok)
    PROVE  /\ pass'[g].phase = pass[g].phase
           /\ pass'[g].desired = pass[g].desired
           /\ pass'[g].byName = pass[g].byName
           /\ pass'[g].todo = pass[g].todo \ {n}
           /\ pass'[g].clean = (pass[g].clean /\ ok)
           /\ \A h \in Goroutines \ {g} : pass'[h] = pass[h]
BY DEF Done, TypeOK, PassOK, IdlePass

\* The steps of the system, by what they do to the locals of the passes.
LEMMA StepKinds ==
    ASSUME TypeOK, [Next]_vars
    PROVE  \/ \E g \in Goroutines : ListContainers(g) \/ ListServices(g)
           \/ \E g \in Goroutines, n \in Names : Deals(g, n)
           \/ UserStep
           \/ services' = services /\ \A h \in Goroutines : GoesOn(h)
<1> DEFINE Rest == services' = services /\ \A h \in Goroutines : GoesOn(h)
<1>1. DOMAIN pass = Goroutines /\ \A h \in Goroutines : PassOK(pass[h])
  BY DEF TypeOK
<1>2. ASSUME NEW g \in Goroutines, Return(g), services' = services
      PROVE  Rest
  BY <1>1, <1>2 DEF Return, GoesOn
<1>3. ASSUME NEW g \in Goroutines, Lock(g)
      PROVE  Rest
  BY <1>1, <1>3 DEF Lock, GoesOn, PassOK, IdlePass, netbirdVars
<1>4. ASSUME NEW g \in Goroutines,
             ListContainersFails(g) \/ ListServicesFails(g) \/ EndPass(g)
      PROVE  Rest
  BY <1>2, <1>4 DEF ListContainersFails, ListServicesFails, EndPass, netbirdVars
<1>5. Restart => Rest
  BY DEF Restart, GoesOn, netbirdVars
<1>6. Cancel \/ DockerStep \/ UNCHANGED vars => Rest
  BY DEF Cancel, DockerStep, vars, netbirdVars, processVars, GoesOn
<1> QED
  BY <1>3, <1>4, <1>5, <1>6 DEF Next, PassStep, ApplyStep, Deals

-----------------------------------------------------------------------------
(* What is desired                                                         *)

\* What a pass wants of a name is built from a service that the labels of a
\* deployment give that name, and from that deployment's bindings or none.
BuiltFrom(n, ds) ==
    \E d \in Deployments, c \in ReportType : \E k \in DOMAIN Parsed[d.labels] :
        LET sp == Parsed[d.labels][k]
        IN  /\ c.bindings \in {d.publish, NoBindings}
            /\ ServiceName(d, k, sp) = n
            /\ ds = BuildDesired(c, k, sp)

\* Every service that a pass wants is built so.
LEMMA DesiredIsBuilt ==
    ASSUME DockerTypeOK, NEW hidden, NEW down, NEW n \in DOMAIN Desired(List(hidden), down)
    PROVE  BuiltFrom(n, Desired(List(hidden), down)[n])
<1> DEFINE listed == List(hidden)
           ck == First(listed, down, n)
           c == listed[ck[1]]
<1>1. Listing(listed)
  BY ListIsListing
<1>2. ck \in Built(listed, down) /\ NameOf(listed, ck) = n
  BY <1>1, FirstIsBuilt DEF Desired
<1>3. Desired(listed, down)[n] = BuildDesired(c, ck[2], SpecOf(listed, ck))
  BY DEF Desired
<1> HIDE DEF ck
<1>4. ck \in Specs(listed)
  BY <1>2 DEF Built
<1>5. ck[1] \in DOMAIN listed /\ c \in ReportType
  BY <1>1, <1>4, SpecType
<1>6. ck[1] \in Labelled /\ c = FromSummary(ck[1], hidden)
  BY <1>5 DEF List
<1> DEFINE d == containers[ck[1]].dep
<1>7. /\ d \in Deployments
      /\ c.cname = d.cname /\ c.labels = d.labels
      /\ c.bindings \in {d.publish, NoBindings}
  <2>1. d \in Deployments
    BY <1>6 DEF Labelled, DockerTypeOK
  <2> QED
    BY <1>6, <2>1 DEF FromSummary
<1>8. ck[2] \in DOMAIN Parsed[d.labels]
  <2>1. PICK other \in DOMAIN listed :
           ck \in {<<other, k>> : k \in DOMAIN Parsed[listed[other].labels]}
    BY <1>4 DEF Specs
  <2>2. PICK k \in DOMAIN Parsed[listed[other].labels] : ck = <<other, k>>
    BY <2>1
  <2>3. ck[1] = other /\ ck[2] = k
    BY <2>2
  <2> QED
    BY <1>7, <2>2, <2>3
<1>9. SpecOf(listed, ck) = Parsed[d.labels][ck[2]]
  BY <1>7 DEF SpecOf
<1>10. ServiceName(d, ck[2], SpecOf(listed, ck)) = n
  BY <1>2, <1>7 DEF NameOf, ServiceName
<1> HIDE DEF c, d, listed
<1> QED
  BY <1>3, <1>5, <1>7, <1>8, <1>9, <1>10 DEF BuiltFrom, listed

\* buildDesired switches service and target together (lines 370 to 376).
LEMMA BuiltCoherent ==
    ASSUME NEW n, NEW ds, BuiltFrom(n, ds)
    PROVE  ds.service.targets[1].enabled = ds.service.enabled
BY DEF BuiltFrom, BuildDesired

\* A port from a binding of a container whose labelled port is published is
\* the host port it is published at.
LEMMA BuiltPort ==
    ASSUME NEW n, NEW ds, BuiltFrom(n, ds), ds.portFromBinding, AlwaysPublished(n)
    PROVE  ds.service.targets[1].port \in HostPorts
<1>1. PICK d \in Deployments, c \in ReportType : \E k \in DOMAIN Parsed[d.labels] :
         LET sp == Parsed[d.labels][k]
         IN  /\ c.bindings \in {d.publish, NoBindings}
             /\ ServiceName(d, k, sp) = n
             /\ ds = BuildDesired(c, k, sp)
  BY DEF BuiltFrom
<1>2. PICK k \in DOMAIN Parsed[d.labels] :
         LET sp == Parsed[d.labels][k]
         IN  /\ c.bindings \in {d.publish, NoBindings}
             /\ ServiceName(d, k, sp) = n
             /\ ds = BuildDesired(c, k, sp)
  BY <1>1
<1> DEFINE sp == Parsed[d.labels][k]
<1>3. Published([bindings |-> d.publish], sp)
  BY <1>2 DEF AlwaysPublished
<1>4. ~InNetwork(sp) /\ sp.port \in DOMAIN d.publish
  BY <1>3 DEF Published
<1>5. PortFromBinding(c, sp) /\ ds.service.targets[1].port = TargetPort(c, sp)
  BY <1>2 DEF BuildDesired
<1> HIDE DEF sp
<1>6. c.bindings # NoBindings
  BY <1>4, <1>5 DEF PortFromBinding, Published, NoBindings
<1>7. c.bindings = d.publish
  BY <1>2, <1>6
<1>8. TargetPort(c, sp) = d.publish[sp.port]
  BY <1>4, <1>7 DEF TargetPort, Published
<1> QED
  BY <1>4, <1>5, <1>8 DEF HostPorts

\* The configuration of a process never changes.
LEMMA ConfigStays == [Next]_vars => cfg' = cfg
<1> SUFFICES ASSUME [Next]_vars PROVE cfg' = cfg
  OBVIOUS
<1>1. ASSUME NEW g \in Goroutines, PassStep(g)
      PROVE  cfg' = cfg
  <2>1. Lock(g) \/ ListContainers(g) \/ ListContainersFails(g) => cfg' = cfg
    BY DEF Lock, ListContainers, ListContainersFails
  <2>2. ListServices(g) \/ ListServicesFails(g) \/ EndPass(g) => cfg' = cfg
    BY DEF ListServices, ListServicesFails, EndPass
  <2>3. ASSUME NEW result, NEW n, Request(g, n, result)
        PROVE  cfg' = cfg
    BY <2>3 DEF Request
  <2>4. ApplyStep(g) => cfg' = cfg
    BY <2>3 DEF ApplyStep, Create, DeleteStopped, Update, UpToDate
  <2> QED
    BY <1>1, <2>1, <2>2, <2>4 DEF PassStep
<1>2. Cancel \/ Restart \/ DockerStep \/ UserStep => cfg' = cfg
  BY DEF Cancel, Restart, DockerStep, UserStep, processVars
<1>3. UNCHANGED vars => cfg' = cfg
  BY DEF vars, processVars
<1> QED
  BY <1>1, <1>2, <1>3 DEF Next

\* What a look at the containers makes of the locals.
LEMMA LookFields ==
    ASSUME TypeOK, NEW g \in Goroutines, ListContainers(g)
    PROVE  /\ services' = services
           /\ pass'[g].phase = "services"
           /\ pass'[g].byName = pass[g].byName
           /\ pass'[g].todo = {}
           /\ pass'[g].clean = pass[g].clean
           /\ \A n \in DOMAIN pass'[g].desired : BuiltFrom(n, pass'[g].desired[n])
           /\ \A h \in Goroutines \ {g} : pass'[h] = pass[h]
<1>1. PICK hidden \in SUBSET Stopping : \E down :
          pass' = [pass EXCEPT ![g].phase = "services",
                               ![g].listed = List(hidden),
                               ![g].desired = Desired(List(hidden), down)]
  BY DEF ListContainers
<1>2. PICK down :
          pass' = [pass EXCEPT ![g].phase = "services",
                               ![g].listed = List(hidden),
                               ![g].desired = Desired(List(hidden), down)]
  BY <1>1
<1> DEFINE desired == Desired(List(hidden), down)
<1>3. \A n \in DOMAIN desired : BuiltFrom(n, desired[n])
  BY DesiredIsBuilt DEF TypeOK
<1> HIDE DEF desired
<1>4. /\ pass'[g].phase = "services"
      /\ pass'[g].byName = pass[g].byName
      /\ pass'[g].todo = pass[g].todo
      /\ pass'[g].clean = pass[g].clean
      /\ pass'[g].desired = desired
      /\ \A h \in Goroutines \ {g} : pass'[h] = pass[h]
  BY <1>2 DEF desired, TypeOK, PassOK, IdlePass
<1>5. pass[g].todo = {}
  BY DEF ListContainers, TypeOK, PassOK
<1>6. services' = services
  BY DEF ListContainers, netbirdVars
<1> QED
  BY <1>3, <1>4, <1>5, <1>6

\* What the list of the services makes of the locals.
LEMMA ListFields ==
    ASSUME TypeOK, NEW g \in Goroutines, ListServices(g)
    PROVE  /\ services' = services
           /\ pass'[g].phase = "apply"
           /\ pass'[g].desired = pass[g].desired
           /\ pass'[g].todo = DOMAIN pass[g].desired
           /\ \A n \in DOMAIN pass'[g].byName :
                 LET id == pass'[g].byName[n].id
                 IN  id \in DOMAIN services /\ View(services[id]) = pass'[g].byName[n]
           /\ \A h \in Goroutines \ {g} : pass'[h] = pass[h]
<1>1. PICK last \in [{services[id].name : id \in DOMAIN services} -> DOMAIN services] :
          pass' = [pass EXCEPT ![g].phase = "apply",
                               ![g].byName = [n \in DOMAIN last |-> View(services[last[n]])],
                               ![g].todo = DOMAIN pass[g].desired,
                               ![g].clean = TRUE]
  BY DEF ListServices
<1> DEFINE byName == [n \in DOMAIN last |-> View(services[last[n]])]
<1>2. ASSUME NEW n \in DOMAIN byName
      PROVE  LET id == byName[n].id
             IN  id \in DOMAIN services /\ View(services[id]) = byName[n]
  <2>1. last[n] \in DOMAIN services
    BY <1>1, <1>2
  <2>2. services[last[n]] \in ServiceType /\ services[last[n]].id = last[n]
    BY <2>1 DEF TypeOK, NetBirdTypeOK
  <2>3. byName[n].id = last[n]
    BY <2>2, ViewType
  <2> QED
    BY <2>1, <2>3
<1>3. pass' = [pass EXCEPT ![g].phase = "apply", ![g].byName = byName,
                           ![g].todo = DOMAIN pass[g].desired, ![g].clean = TRUE]
  BY <1>1
<1> HIDE DEF byName
<1>4. DOMAIN pass = Goroutines /\ DOMAIN pass[g] = DOMAIN IdlePass
  BY DEF TypeOK, PassOK
<1>5. /\ pass'[g].phase = "apply"
      /\ pass'[g].desired = pass[g].desired
      /\ pass'[g].todo = DOMAIN pass[g].desired
      /\ pass'[g].byName = byName
      /\ \A h \in Goroutines \ {g} : pass'[h] = pass[h]
  BY <1>3, <1>4 DEF IdlePass
<1>6. services' = services
  BY DEF ListServices, netbirdVars
<1> QED
  BY <1>2, <1>5, <1>6

\* An edit spoils the passes that are under way, and nothing else in them.
LEMMA EditFields ==
    ASSUME TypeOK, UserStep
    PROVE  \A h \in Goroutines : /\ pass'[h].phase = pass[h].phase
                                 /\ pass'[h].desired = pass[h].desired
                                 /\ pass'[h].byName = pass[h].byName
                                 /\ pass'[h].todo = pass[h].todo
                                 /\ pass'[h].clean = FALSE
BY DEF UserStep, TypeOK, PassOK, IdlePass

\* What is desired stays what it was built to be.
LEMMA DesiredKept ==
    ASSUME TypeOK, Coherent, PortsMeant, [Next]_vars
    PROVE  Coherent' /\ PortsMeant'
<1> DEFINE Good(ds, n) == /\ ds.service.targets[1].enabled = ds.service.enabled
                          /\ ds.portFromBinding /\ AlwaysPublished(n)
                                => ds.service.targets[1].port \in HostPorts
<1>1. \A n : AlwaysPublished(n)' <=> AlwaysPublished(n)
  BY ConfigStays DEF AlwaysPublished, Published, InNetwork
<1> SUFFICES ASSUME NEW h \in Goroutines
             PROVE  \A n \in DOMAIN pass'[h].desired : Good(pass'[h].desired[n], n)
  BY <1>1 DEF Coherent, PortsMeant
<1>2. CASE pass'[h].desired = pass[h].desired
  BY <1>2 DEF Coherent, PortsMeant
<1>3. CASE pass'[h] = IdlePass
  BY <1>3 DEF IdlePass
<1>4. ASSUME NEW g \in Goroutines, ListContainers(g)
      PROVE  \/ pass'[h].desired = pass[h].desired
             \/ \A n \in DOMAIN pass'[h].desired : Good(pass'[h].desired[n], n)
  BY <1>4, LookFields, BuiltCoherent, BuiltPort
<1>5. ASSUME NEW g \in Goroutines, ListServices(g)
      PROVE  pass'[h].desired = pass[h].desired
  BY <1>5, ListFields
<1>6. ASSUME NEW g \in Goroutines, NEW n \in Names, Deals(g, n)
      PROVE  pass'[h].desired = pass[h].desired
  <2>1. \E ok \in BOOLEAN : Done(g, n, ok)
    BY <1>6 DEF Deals, Create, DeleteStopped, Update, UpToDate, Request
  <2> QED
    BY <2>1, DoneFields
<1>7. UserStep => pass'[h].desired = pass[h].desired
  BY EditFields
<1> QED
  BY <1>2, <1>3, <1>4, <1>5, <1>6, <1>7, StepKinds DEF GoesOn


-----------------------------------------------------------------------------
(* What a pass knows stays true until it is used                           *)

\* One name's turn, whichever of the four ways it takes.
LEMMA DealFields ==
    ASSUME TypeOK, NEW g \in Goroutines, NEW n \in Names, Deals(g, n)
    PROVE  /\ Takes(g, n)
           /\ pass'[g].phase = pass[g].phase
           /\ pass'[g].desired = pass[g].desired
           /\ pass'[g].byName = pass[g].byName
           /\ pass'[g].todo = pass[g].todo \ {n}
           /\ pass'[g].clean => pass[g].clean
           /\ \A h \in Goroutines \ {g} : pass'[h] = pass[h]
<1>1. PICK ok \in BOOLEAN : Takes(g, n) /\ Done(g, n, ok)
  BY DEF Deals, Create, DeleteStopped, Update, UpToDate, Request
<1> QED
  BY <1>1, DoneFields

\* The turn of one name leaves the services that the names to come are joined
\* with as they are.
LEMMA OthersKept ==
    ASSUME TypeOK, Serialised, NamesInv, NEW g \in Goroutines, NEW n \in Names, Deals(g, n),
           NEW h \in Goroutines, NEW m \in pass'[h].todo \cap DOMAIN pass'[h].byName
    PROVE  LET id == pass[h].byName[m].id
           IN  /\ pass'[h].byName = pass[h].byName
               /\ m \in pass[h].todo
               /\ pass'[h].clean => pass[h].clean
               /\ id \in DOMAIN services' <=> id \in DOMAIN services
               /\ id \in DOMAIN services => services'[id] = services[id]
<1> DEFINE id == pass[h].byName[m].id
<1>1. h = g
  <2>1. pass[g].phase = "apply"
    BY DealFields DEF Takes
  <2>2. h # g => pass'[h].todo = {}
    BY <2>1, DealFields, OneList
  <2> QED
    BY <2>2
<1>2. pass'[h].byName = pass[h].byName /\ m \in pass[h].todo /\ m # n
  BY <1>1, DealFields
<1>3. id \in Remembered
  BY <1>2 DEF Remembered
<1>4. Exists(g, n) => id # pass[g].byName[n].id
  BY <1>1, <1>2 DEF NamesInv, Remembers, Exists
<1> HIDE DEF id
<1>5. CASE services' = services
  BY <1>1, <1>2, <1>5, DealFields DEF id
<1>6. CASE services' # services
  <2>1. PICK i : /\ i \in DOMAIN services  => Exists(g, n) /\ i = pass[g].byName[n].id
                 /\ DOMAIN services' \ {i} = DOMAIN services \ {i}
                 /\ \A other \in DOMAIN services \ {i} : services'[other] = services[other]
                 /\ i \in DOMAIN services' \ DOMAIN services => i \notin Remembered
    BY <1>6, OneWritten DEF OnlyWrites
  <2>2. CASE id = i
    <3>1. i \notin DOMAIN services /\ i \notin DOMAIN services'
      BY <1>3, <1>4, <2>1, <2>2
    <3> QED
      BY <1>1, <1>2, <2>2, <3>1, DealFields DEF id
  <2>3. CASE id # i
    BY <1>1, <1>2, <2>1, <2>3, DealFields DEF id
  <2> QED
    BY <2>2, <2>3
<1> QED
  BY <1>5, <1>6

\* A listed service has the ports of the service.
LEMMA ViewPort ==
    ASSUME NEW s \in ServiceType
    PROVE  SamePort(s, View(s))
<1>1. View(s) \in ServiceType /\ Alike(View(s), s)
  BY ViewType, ViewIsAlike
<1>2. s.targets \in Seq(TargetType) /\ View(s).targets \in Seq(TargetType)
  BY <1>1 DEF ServiceType
<1>3. /\ DOMAIN View(s).targets = DOMAIN s.targets
      /\ \A i \in DOMAIN View(s).targets : View(s).targets[i].port = s.targets[i].port
  BY <1>1, AlikeTargets
<1> QED
  BY <1>2, <1>3 DEF SamePort

\* People change no port, and give nothing the id of a service that a pass
\* remembers.
LEMMA PeopleKeepPorts ==
    ASSUME TypeOK, UserStep, NEW id \in Remembered, id \in DOMAIN services'
    PROVE  id \in DOMAIN services /\ services'[id].targets = services[id].targets
<1>1. Collection(services)
  BY NetBirdIsCollection DEF TypeOK
<1>2. ASSUME NEW n \in UserNames, NEW i \in Ids, UserCreate(n, i, Remembered)
      PROVE  id \in DOMAIN services /\ services'[id].targets = services[id].targets
  <2>1. services' = Posted(i, UserService(n)) /\ i \notin Remembered
    BY <1>2 DEF UserCreate, Fresh
  <2>2. UserService(n) \in ServiceType
    BY UserWrites, NetBirdAssumption
  <2>3. /\ DOMAIN services' = DOMAIN services \cup {i}
        /\ \A other \in DOMAIN services \ {i} : services'[other] = services[other]
    BY <1>1, <2>1, <2>2, PostedTyped
  <2>4. id # i
    BY <2>1
  <2> QED
    BY <2>3, <2>4
<1>3. ASSUME NEW i \in DOMAIN services, NEW s \in UserEdits(services[i]), UserEdit(i, s)
      PROVE  id \in DOMAIN services /\ services'[id].targets = services[id].targets
  <2>1. services[i] \in ServiceType /\ i \in Ids
    BY <1>1 DEF Collection
  <2>2. s \in ServiceType /\ s.targets = services[i].targets
    <3>1. s \in ServiceType
      BY <2>1, UserWrites
    <3>2. s.targets = services[i].targets
      BY <2>1 DEF UserEdits, ServiceType
    <3> QED
      BY <3>1, <3>2
  <2>3. services' = Replaced(i, s)
    BY <1>3 DEF UserEdit
  <2>4. /\ DOMAIN services' = DOMAIN services
        /\ \A other \in DOMAIN services \ {i} : services'[other] = services[other]
    BY <1>1, <2>2, <2>3, ReplacedTyped
  <2>5. services'[i] = Put(i, s, services[i])
    BY <2>3 DEF Replaced, Put
  <2>6. services'[i].targets = s.targets
    BY <2>1, <2>2, <2>5, PutFields
  <2> QED
    BY <2>2, <2>4, <2>6
<1>4. ASSUME NEW i \in DOMAIN services, UserDelete(i)
      PROVE  id \in DOMAIN services /\ services'[id].targets = services[id].targets
  BY <1>1, <1>4, DeletedTyped DEF UserDelete
<1> QED
  BY <1>2, <1>3, <1>4 DEF UserStep

\* The ports that a pass has listed stay right.
LEMMA PortsSeenKept ==
    ASSUME TypeOK, Serialised, NamesInv, PortsSeen, [Next]_vars
    PROVE  PortsSeen'
<1> SUFFICES ASSUME NEW h \in Goroutines, NEW m \in pass'[h].todo \cap DOMAIN pass'[h].byName,
                    pass'[h].byName[m].id \in DOMAIN services'
             PROVE  SamePort(services'[pass'[h].byName[m].id], pass'[h].byName[m])
  BY DEF PortsSeen, SamePort
<1>1. ASSUME services' = services, pass'[h].byName = pass[h].byName,
             pass'[h].todo = pass[h].todo
      PROVE  SamePort(services'[pass'[h].byName[m].id], pass'[h].byName[m])
  BY <1>1 DEF PortsSeen
<1>2. ASSUME NEW g \in Goroutines, ListContainers(g)
      PROVE  SamePort(services'[pass'[h].byName[m].id], pass'[h].byName[m])
  BY <1>1, <1>2, LookFields
<1>3. ASSUME NEW g \in Goroutines, ListServices(g)
      PROVE  SamePort(services'[pass'[h].byName[m].id], pass'[h].byName[m])
  <2>1. CASE h = g
    <3> DEFINE id == pass'[g].byName[m].id
    <3>1. id \in DOMAIN services /\ View(services[id]) = pass'[g].byName[m]
      BY <1>3, <2>1, ListFields
    <3>2. services' = services /\ services[id] \in ServiceType
      BY <1>3, <3>1, ListFields DEF TypeOK, NetBirdTypeOK
    <3> HIDE DEF id
    <3> QED
      BY <2>1, <3>1, <3>2, ViewPort DEF id
  <2>2. CASE h # g
    BY <1>1, <1>3, <2>2, ListFields
  <2> QED
    BY <2>1, <2>2
<1>4. ASSUME NEW g \in Goroutines, NEW n \in Names, Deals(g, n)
      PROVE  SamePort(services'[pass'[h].byName[m].id], pass'[h].byName[m])
  <2> DEFINE id == pass[h].byName[m].id
  <2>1. /\ pass'[h].byName = pass[h].byName /\ m \in pass[h].todo
        /\ id \in DOMAIN services /\ services'[id] = services[id]
    BY <1>4, OthersKept
  <2> QED
    BY <2>1 DEF PortsSeen
<1>5. CASE UserStep
  <2> DEFINE id == pass[h].byName[m].id
  <2>1. pass'[h].byName = pass[h].byName /\ pass'[h].todo = pass[h].todo
    BY <1>5, EditFields
  <2>2. id \in Remembered /\ id \in DOMAIN services'
    BY <2>1 DEF Remembered
  <2>3. id \in DOMAIN services /\ services'[id].targets = services[id].targets
    BY <1>5, <2>2, PeopleKeepPorts
  <2>4. SamePort(services[id], pass[h].byName[m])
    BY <2>1, <2>3 DEF PortsSeen
  <2> QED
    BY <2>1, <2>3, <2>4 DEF SamePort
<1>6. CASE services' = services /\ GoesOn(h)
  BY <1>1, <1>6 DEF GoesOn, IdlePass
<1> QED
  BY <1>2, <1>3, <1>4, <1>5, <1>6, StepKinds

\* What a clean pass has listed stays what a list would return.
LEMMA FreshViewKept ==
    ASSUME TypeOK, Serialised, NamesInv, FreshView, [Next]_vars
    PROVE  FreshView'
<1> DEFINE Fine(h, m) ==
      LET id == pass'[h].byName[m].id
      IN  id \in DOMAIN services' /\ View(services'[id]) = pass'[h].byName[m]
<1> SUFFICES ASSUME NEW h \in Goroutines, pass'[h].clean,
                    NEW m \in pass'[h].todo \cap DOMAIN pass'[h].byName
             PROVE  Fine(h, m)
  BY DEF FreshView
<1>1. ASSUME services' = services, pass'[h].byName = pass[h].byName,
             pass'[h].todo = pass[h].todo, pass'[h].clean = pass[h].clean
      PROVE  Fine(h, m)
  BY <1>1 DEF FreshView
<1>2. ASSUME NEW g \in Goroutines, ListContainers(g)
      PROVE  Fine(h, m)
  BY <1>1, <1>2, LookFields
<1>3. ASSUME NEW g \in Goroutines, ListServices(g)
      PROVE  Fine(h, m)
  <2>1. CASE h = g
    BY <1>3, <2>1, ListFields
  <2>2. CASE h # g
    BY <1>1, <1>3, <2>2, ListFields
  <2> QED
    BY <2>1, <2>2
<1>4. ASSUME NEW g \in Goroutines, NEW n \in Names, Deals(g, n)
      PROVE  Fine(h, m)
  <2> DEFINE id == pass[h].byName[m].id
  <2>1. /\ pass'[h].byName = pass[h].byName /\ m \in pass[h].todo /\ pass[h].clean
        /\ id \in DOMAIN services' <=> id \in DOMAIN services
        /\ id \in DOMAIN services => services'[id] = services[id]
    BY <1>4, OthersKept
  <2>2. id \in DOMAIN services /\ View(services[id]) = pass[h].byName[m]
    BY <2>1 DEF FreshView
  <2> QED
    BY <2>1, <2>2
<1>5. CASE UserStep
  BY <1>5, EditFields
<1>6. CASE services' = services /\ GoesOn(h)
  <2>1. pass'[h] # IdlePass
    BY DEF IdlePass
  <2> HIDE DEF Fine
  <2> QED
    BY <1>1, <1>6, <2>1 DEF GoesOn
<1> HIDE DEF Fine
<1> QED
  BY <1>2, <1>3, <1>4, <1>5, <1>6, StepKinds


-----------------------------------------------------------------------------
(* A clean pass settles what it deals with                                 *)

\* When the pass is still clean after a request, the request was carried out
\* and answered.
LEMMA CleanRequest ==
    ASSUME TypeOK, NEW g \in Goroutines, NEW n, NEW result,
           Request(g, n, result), pass'[g].clean
    PROVE  services' = result
<1>1. Done(g, n, FALSE) => ~pass'[g].clean
  BY DoneFields
<1> QED
  BY <1>1 DEF Request

\* A service that is there needs no request to become what is desired.
Agrees(s, ds) == ServicesEqual(View(s), Overlay(View(s), ds))

\* The name that was dealt with is settled.
LEMMA DealSettles ==
    ASSUME TypeOK, FreshView, Coherent, NEW g \in Goroutines, NEW n \in Names,
           Deals(g, n), pass'[g].clean
    PROVE  LET ds == pass[g].desired[n]
           IN  IF Exists(g, n) /\ DeletesWhenOff(ds)
               THEN pass[g].byName[n].id \notin DOMAIN services'
               ELSE \E id \in DOMAIN services' :
                      /\ services'[id].name = n
                      /\ Exists(g, n) => id = pass[g].byName[n].id
                      /\ Agrees(services'[id], ds)
<1> DEFINE ds == pass[g].desired[n]
           cur == pass[g].byName[n]
           id == cur.id
<1>1. Takes(g, n) /\ pass[g].clean
  BY DealFields
<1>2. Collection(services)
  BY NetBirdIsCollection DEF TypeOK
<1>3. /\ ds \in DesiredType /\ ds.service \in ServiceType /\ ds.service.name = n
      /\ ds.service.targets[1].enabled = ds.service.enabled
  <2>1. n \in DOMAIN pass[g].desired
    BY <1>1 DEF Takes, TypeOK, PassOK
  <2> QED
    BY <1>1, <2>1, TakesTyped DEF Coherent
<1>4. Exists(g, n) => /\ cur \in ServiceType /\ cur.name = n /\ id \in Ids
                      /\ Merged(g, n) = Overlay(cur, ds) /\ Merged(g, n) \in ServiceType
                      /\ id \in DOMAIN services /\ services[id] \in ServiceType
                      /\ services[id].name = n /\ View(services[id]) = cur
  <2>1. Exists(g, n) => n \in pass[g].todo \cap DOMAIN pass[g].byName
    BY <1>1 DEF Takes, Exists
  <2>2. Exists(g, n) => id \in DOMAIN services /\ View(services[id]) = cur
    BY <1>1, <2>1 DEF FreshView
  <2>3. Exists(g, n) => services[id] \in ServiceType
    BY <1>2, <2>2 DEF Collection
  <2>4. Exists(g, n) => services[id].name = n
    <3>1. Exists(g, n) => View(services[id]).name = services[id].name
      BY <2>3, ViewType
    <3> QED
      BY <1>1, <2>2, <3>1, TakesTyped
  <2> QED
    BY <1>1, <2>2, <2>3, <2>4, TakesTyped DEF Merged
<1> HIDE DEF ds, cur
<1>5. CASE Create(g, n)
  <2>1. PICK new \in Ids : Request(g, n, Posted(new, ds.service))
    BY <1>5 DEF Create, ds
  <2>2. services' = Posted(new, ds.service)
    BY <2>1, CleanRequest
  <2>3. new \in DOMAIN services' /\ services'[new] = Stored(new, ds.service)
    BY <2>2 DEF Posted, With
  <2>4. services'[new].name = n
    BY <1>3, <2>3, StoredType
  <2>5. Agrees(services'[new], ds)
    BY <1>3, <2>3, PostedSettles DEF Agrees
  <2>6. ~Exists(g, n)
    BY <1>5 DEF Create
  <2> QED
    BY <2>3, <2>4, <2>5, <2>6 DEF ds
<1>6. CASE DeleteStopped(g, n)
  <2>1. Exists(g, n) /\ DeletesWhenOff(ds) /\ Request(g, n, Deleted(id))
    BY <1>6 DEF DeleteStopped, ds, cur
  <2>2. services' = Deleted(id)
    BY <2>1, CleanRequest
  <2>3. id \notin DOMAIN services'
    BY <1>2, <2>2, DeletedTyped
  <2> QED
    BY <2>1, <2>3 DEF ds, cur
<1>7. CASE Update(g, n)
  <2> DEFINE body == AfterCompare(Overlay(cur, ds))
  <2>1. /\ Exists(g, n) /\ ~DeletesWhenOff(ds)
        /\ Request(g, n, Replaced(id, AfterCompare(Merged(g, n))))
    BY <1>7 DEF Update, ds, cur
  <2>2. services' = Replaced(id, body)
    BY <1>4, <2>1, CleanRequest
  <2>3. body \in ServiceType /\ body.name = n
    <3>1. Overlay(cur, ds) \in ServiceType /\ Overlay(cur, ds).name = n
      BY <1>3, <1>4, <2>1, OverlayType
    <3> QED
      BY <3>1, AfterCompareType
  <2>4. id \in DOMAIN services' /\ services'[id].name = n
    BY <1>2, <1>4, <2>1, <2>2, <2>3, ReplacedTyped
  <2>5. services'[id] = Put(id, body, services[id])
    BY <1>4, <2>1, <2>2 DEF Replaced, Put
  <2>6. Agrees(services'[id], ds)
    BY <1>3, <1>4, <2>1, <2>5, PutSettles DEF Agrees
  <2> QED
    BY <2>1, <2>4, <2>6 DEF ds, cur
<1>8. CASE UpToDate(g, n)
  <2>1. /\ Exists(g, n) /\ ~DeletesWhenOff(ds)
        /\ ServicesEqual(cur, Merged(g, n))
        /\ services' = services
    BY <1>8 DEF UpToDate, InSync, netbirdVars, ds, cur
  <2>2. Agrees(services'[id], ds)
    BY <1>4, <2>1 DEF Agrees
  <2> QED
    BY <1>4, <2>1, <2>2 DEF ds, cur
<1> QED
  BY <1>5, <1>6, <1>7, <1>8 DEF Deals

\* The names that were settled before stay so.
LEMMA DealKeepsSettled ==
    ASSUME TypeOK, FreshView, NEW g \in Goroutines, NEW n \in Names, Deals(g, n),
           pass[g].clean, NEW m \in Names, m # n, Settled(g, m)
    PROVE  LET ds == pass[g].desired[m]
           IN  IF Exists(g, m) /\ DeletesWhenOff(ds)
               THEN pass[g].byName[m].id \notin DOMAIN services'
               ELSE \E id \in DOMAIN services' :
                      /\ services'[id].name = m
                      /\ Exists(g, m) => id = pass[g].byName[m].id
                      /\ Agrees(services'[id], ds)
<1> DEFINE cur == pass[g].byName[n]
<1>1. Exists(g, n) => services[cur.id].name = n
  <2>1. Takes(g, n)
    BY DealFields
  <2>2. Exists(g, n) => cur.id \in DOMAIN services /\ View(services[cur.id]) = cur
    BY <2>1 DEF FreshView, Takes, Exists
  <2>3. Exists(g, n) => View(services[cur.id]).name = services[cur.id].name
    BY <2>2, ViewType DEF TypeOK, NetBirdTypeOK
  <2> QED
    BY <2>1, <2>2, <2>3, TakesTyped
<1>2. PICK i : /\ i \in DOMAIN services => services[i].name = n \/ services' = services
               /\ DOMAIN services' \ {i} = DOMAIN services \ {i}
               /\ \A other \in DOMAIN services \ {i} : services'[other] = services[other]
               /\ i \in DOMAIN services' \ DOMAIN services => i \notin Remembered
  BY <1>1, OneWritten DEF OnlyWrites
<1>3. CASE Exists(g, m) /\ DeletesWhenOff(pass[g].desired[m])
  <2>1. pass[g].byName[m].id \in Remembered
    BY <1>3 DEF Remembered, Exists
  <2>2. pass[g].byName[m].id \notin DOMAIN services
    BY <1>3 DEF Settled
  <2> QED
    BY <1>2, <1>3, <2>1, <2>2
<1>4. CASE ~(Exists(g, m) /\ DeletesWhenOff(pass[g].desired[m]))
  <2>1. PICK id \in DOMAIN services :
           /\ services[id].name = m
           /\ Exists(g, m) => id = pass[g].byName[m].id
           /\ Agrees(services[id], pass[g].desired[m])
    BY <1>4 DEF Settled, ServicesNamed, Agrees
  <2>2. id \in DOMAIN services' /\ services'[id] = services[id]
    BY <1>2, <2>1
  <2> QED
    BY <1>4, <2>1, <2>2
<1> QED
  BY <1>3, <1>4

\* A step leaves what it has settled.
LEMMA SettlesKept ==
    ASSUME TypeOK, Serialised, NamesInv, FreshView, Coherent, CleanPassSettles, [Next]_vars
    PROVE  CleanPassSettles'
<1> SUFFICES ASSUME NEW h \in Goroutines, pass'[h].phase = "apply", pass'[h].clean,
                    NEW m \in DOMAIN pass'[h].desired \ pass'[h].todo
             PROVE  Settled(h, m)'
  BY DEF CleanPassSettles
<1>1. ASSUME services' = services, pass'[h].phase = pass[h].phase,
             pass'[h].desired = pass[h].desired, pass'[h].byName = pass[h].byName,
             pass'[h].todo = pass[h].todo, pass'[h].clean = pass[h].clean
      PROVE  Settled(h, m)'
  <2>1. Settled(h, m)
    BY <1>1 DEF CleanPassSettles
  <2> QED
    BY <1>1, <2>1 DEF Settled, Exists, ServicesNamed
<1>2. ASSUME NEW g \in Goroutines, ListContainers(g)
      PROVE  Settled(h, m)'
  BY <1>1, <1>2, LookFields
<1>3. ASSUME NEW g \in Goroutines, ListServices(g)
      PROVE  Settled(h, m)'
  <2>1. h # g
    BY <1>3, ListFields
  <2> QED
    BY <1>1, <1>3, <2>1, ListFields
<1>4. ASSUME NEW g \in Goroutines, NEW n \in Names, Deals(g, n)
      PROVE  Settled(h, m)'
  <2>1. /\ pass[g].phase = "apply"
        /\ pass'[g].desired = pass[g].desired /\ pass'[g].byName = pass[g].byName
        /\ pass'[g].todo = pass[g].todo \ {n}
        /\ pass'[g].clean => pass[g].clean
        /\ \A other \in Goroutines \ {g} : pass'[other] = pass[other]
    BY <1>4, DealFields DEF Takes
  <2>2. h = g
    BY <2>1 DEF Serialised
  <2>3. m \in Names
    BY <2>1, <2>2 DEF TypeOK, PassOK
  <2>4. pass[g].clean /\ (m # n => Settled(g, m))
    BY <2>1, <2>2 DEF CleanPassSettles
  <2>5. LET ds == pass[g].desired[m]
        IN  IF Exists(g, m) /\ DeletesWhenOff(ds)
            THEN pass[g].byName[m].id \notin DOMAIN services'
            ELSE \E id \in DOMAIN services' :
                   /\ services'[id].name = m
                   /\ Exists(g, m) => id = pass[g].byName[m].id
                   /\ Agrees(services'[id], ds)
    BY <1>4, <2>2, <2>3, <2>4, DealSettles, DealKeepsSettled
  <2> QED
    BY <2>1, <2>2, <2>5 DEF Settled, Exists, ServicesNamed, Agrees
<1>5. CASE UserStep
  BY <1>5, EditFields
<1>6. CASE services' = services /\ GoesOn(h)
  <2>1. pass'[h] # IdlePass
    BY DEF IdlePass
  <2> QED
    BY <1>1, <1>6, <2>1 DEF GoesOn
<1> QED
  BY <1>2, <1>3, <1>4, <1>5, <1>6, StepKinds


-----------------------------------------------------------------------------
(* The services that the controller changes                                *)

\* An existing service is written in one way only: a pass takes its name and
\* replaces it with what comparing has left of the overlay.
LEMMA HowWritten ==
    ASSUME TypeOK, Serialised, NamesInv, [Next]_vars, ControllerWrites,
           NEW id \in DOMAIN services \cap DOMAIN services', services'[id] # services[id]
    PROVE  /\ mu \in Goroutines
           /\ \E n \in Names :
                /\ Takes(mu, n) /\ Exists(mu, n)
                /\ id = pass[mu].byName[n].id
                /\ services'[id] = Put(id, AfterCompare(Merged(mu, n)), services[id])
                /\ services'[id].name = n
<1>1. PICK g \in Goroutines, n \in Names : Deals(g, n)
  BY WhoWrites DEF ApplyStep, Deals
<1>2. Takes(g, n)
  BY <1>1, DealFields
<1>3. mu = g
  BY <1>2 DEF Takes, Serialised
<1>4. Collection(services)
  BY NetBirdIsCollection DEF TypeOK
<1>5. ~Create(g, n)
  <2> SUFFICES ASSUME Create(g, n) PROVE FALSE
    OBVIOUS
  <2>1. PICK new \in Ids : /\ Fresh(new, Remembered)
                           /\ services' = Posted(new, pass[g].desired[n].service)
    BY DEF Create, Request, ControllerWrites
  <2>2. new # id
    BY <2>1 DEF Fresh
  <2>3. services'[id] = services[id]
    BY <2>1, <2>2 DEF Posted, With
  <2> QED
    BY <2>3
<1>6. ~DeleteStopped(g, n)
  BY DEF DeleteStopped, Request, ControllerWrites, Deleted, Without
<1>7. ~UpToDate(g, n)
  BY DEF UpToDate, netbirdVars
<1> DEFINE cur == pass[g].byName[n].id
<1>8. Exists(g, n) /\ services' = Replaced(cur, AfterCompare(Merged(g, n)))
  BY <1>1, <1>5, <1>6, <1>7 DEF Deals, Update, Request, ControllerWrites
<1>9. /\ cur \in DOMAIN services
      /\ services' = [services EXCEPT ![cur] = Put(cur, AfterCompare(Merged(g, n)), services[cur])]
  BY <1>8 DEF Replaced, Put, ControllerWrites
<1>10. id = cur
  BY <1>9
<1>11. services'[id] = Put(id, AfterCompare(Merged(g, n)), services[id])
  BY <1>9, <1>10
<1>12. services'[id].name = n
  <2>1. AfterCompare(Merged(g, n)) \in ServiceType /\ AfterCompare(Merged(g, n)).name = n
    BY <1>2, <1>8, TakesTyped, AfterCompareType
  <2> DEFINE body == AfterCompare(Merged(g, n))
  <2> HIDE DEF body, cur
  <2>2. Replaced(cur, body)[cur].name = n
    BY <1>4, <1>9, <2>1, ReplacedTyped DEF body
  <2> QED
    BY <1>8, <1>10, <2>2 DEF body
<1> QED
  BY <1>2, <1>3, <1>8, <1>10, <1>11, <1>12

\* A service is switched off only by a pass that wants it off, and then keeps
\* its endpoint.
LEMMA StopStep ==
    ASSUME TypeOK, Serialised, NamesInv, FreshView, [Next]_vars, ControllerWrites,
           NEW id \in DOMAIN services \cap DOMAIN services',
           services[id].enabled, ~services'[id].enabled, pass[mu].clean
    PROVE  Endpoint(View(services'[id])) = Endpoint(View(services[id]))
<1>1. services'[id] # services[id]
  OBVIOUS
<1>2. mu \in Goroutines
  BY <1>1, HowWritten
<1>3. PICK n \in Names :
         /\ Takes(mu, n) /\ Exists(mu, n)
         /\ id = pass[mu].byName[n].id
         /\ services'[id] = Put(id, AfterCompare(Merged(mu, n)), services[id])
  BY <1>1, HowWritten
<1> DEFINE cur == pass[mu].byName[n]
           ds == pass[mu].desired[n]
           o == Merged(mu, n)
<1>4. /\ ds \in DesiredType /\ cur \in ServiceType /\ o \in ServiceType
      /\ o = Overlay(cur, ds)
  BY <1>2, <1>3, TakesTyped DEF Merged
<1>5. /\ services[id] \in ServiceType /\ services[id].id = id /\ id \in Ids
  BY DEF TypeOK, NetBirdTypeOK
<1>6. View(services[id]) = cur
  <2>1. n \in pass[mu].todo \cap DOMAIN pass[mu].byName
    BY <1>3 DEF Takes, Exists
  <2> QED
    BY <1>2, <1>3, <2>1 DEF FreshView
<1> HIDE DEF cur, ds, o
<1>7. services'[id].enabled = o.enabled
  <2>1. AfterCompare(o) \in ServiceType /\ Alike(AfterCompare(o), o)
    BY <1>4, AfterCompareType, AfterCompareIsAlike
  <2>2. Alike(Put(id, AfterCompare(o), services[id]), AfterCompare(o))
    BY <1>5, <2>1, PutFields
  <2> QED
    BY <1>3, <2>1, <2>2 DEF Alike, o
<1>8. ~ds.service.enabled
  BY <1>4, <1>7, OverlayOn
<1>9. o = DisableInPlace(View(services[id]))
  BY <1>4, <1>6, <1>8 DEF Overlay
<1> QED
  BY <1>3, <1>5, <1>9, StopInPlace DEF o

\* A service that points at a host port goes on pointing at one.
LEMMA PortStep ==
    ASSUME TypeOK, Serialised, NamesInv, PortsSeen, PortsMeant, [Next]_vars, ControllerWrites,
           NEW id \in DOMAIN services \cap DOMAIN services',
           services[id].targets # << >>, services[id].targets[1].port \in HostPorts,
           AlwaysPublished(services'[id].name)
    PROVE  services'[id].targets[1].port \in HostPorts
<1>1. CASE services'[id] = services[id]
  BY <1>1
<1>2. CASE services'[id] # services[id]
  <2>1. mu \in Goroutines
    BY <1>2, HowWritten
  <2>2. PICK n \in Names :
           /\ Takes(mu, n) /\ Exists(mu, n)
           /\ id = pass[mu].byName[n].id /\ services'[id].name = n
           /\ services'[id] = Put(id, AfterCompare(Merged(mu, n)), services[id])
    BY <1>2, HowWritten
  <2> DEFINE cur == pass[mu].byName[n]
             ds == pass[mu].desired[n]
             o == Merged(mu, n)
  <2>3. /\ ds \in DesiredType /\ cur \in ServiceType /\ o \in ServiceType
        /\ o = Overlay(cur, ds)
    BY <2>1, <2>2, TakesTyped DEF Merged
  <2>4. services[id] \in ServiceType /\ id \in Ids
    BY DEF TypeOK, NetBirdTypeOK
  <2>5. SamePort(services[id], cur)
    <3>1. n \in pass[mu].todo \cap DOMAIN pass[mu].byName
      BY <2>2 DEF Takes, Exists
    <3> QED
      BY <2>1, <2>2, <3>1 DEF PortsSeen
  <2>6. ds.portFromBinding => ds.service.targets[1].port \in HostPorts
    <3>1. n \in DOMAIN pass[mu].desired
      BY <2>1, <2>2 DEF Takes, TypeOK, PassOK
    <3> QED
      BY <2>1, <2>2, <3>1 DEF PortsMeant
  <2> HIDE DEF cur, ds, o
  <2>7. cur.targets # << >> /\ cur.targets[1].port \in HostPorts
    BY <2>5 DEF SamePort
  <2>8. cur.targets[1].port # 0
    BY <2>7, DockerAssumption DEF HostPorts
  <2>9. 1 \in DOMAIN o.targets /\ o.targets[1].port \in HostPorts
    <3>1. CASE ds.service.enabled
      <4> DEFINE t == ds.service.targets[1]
                 new == [t EXCEPT !.port = KeptPort(cur, ds)]
      <4>1. t \in TargetType
        <5>1. ds.service.targets \in Seq(TargetType) /\ Len(ds.service.targets) = 1
          BY <2>3 DEF DesiredType, ServiceType
        <5> QED
          BY <5>1, OnlyElement
      <4>2. KeptPort(cur, ds) \in HostPorts
        BY <2>6, <2>7, <2>8 DEF KeptPort
      <4>3. new.port = KeptPort(cur, ds)
        BY <4>1 DEF TargetType
      <4>4. o.targets = <<new>>
        BY <2>3, <3>1, OverlayOn
      <4> HIDE DEF new
      <4> QED
        BY <4>2, <4>3, <4>4
    <3>2. CASE ~ds.service.enabled
      <4>1. o = DisableInPlace(cur)
        BY <2>3, <3>2 DEF Overlay
      <4>2. o.targets = [i \in DOMAIN cur.targets |-> [cur.targets[i] EXCEPT !.enabled = FALSE]]
        BY <2>3, <4>1, DisableFields
      <4>3. cur.targets \in Seq(TargetType)
        BY <2>3 DEF ServiceType
      <4>4. 1 \in DOMAIN cur.targets /\ cur.targets[1] \in TargetType
        BY <2>7, <4>3
      <4> QED
        BY <2>7, <4>2, <4>4 DEF TargetType
    <3> QED
      BY <3>1, <3>2
  <2> DEFINE body == AfterCompare(o)
  <2>10. body \in ServiceType /\ Alike(body, o)
    BY <2>3, AfterCompareType, AfterCompareIsAlike
  <2>11. services'[id] = Put(id, body, services[id])
    BY <2>2 DEF o
  <2> HIDE DEF body
  <2>12. services'[id].targets = body.targets
    <3>1. Put(id, body, services[id]).targets = body.targets
      BY <2>4, <2>10, PutFields
    <3> QED
      BY <2>11, <3>1
  <2>13. /\ DOMAIN body.targets = DOMAIN o.targets
         /\ \A i \in DOMAIN body.targets : body.targets[i].port = o.targets[i].port
    BY <2>3, <2>10, AlikeTargets
  <2> QED
    BY <2>9, <2>12, <2>13
<1> QED
  BY <1>1, <1>2

-----------------------------------------------------------------------------
(* The theorems                                                            *)

\* What passes know of the services and of the containers; each part is
\* needed for another one to be kept, or by a theorem below.
PassInv == NamesInv /\ FreshView /\ PortsSeen /\ Coherent /\ PortsMeant

\* No step makes it wrong.
LEMMA PassInvKept == Spec => []PassInv
<1>1. Init => PassInv
  BY DEF Init, NetBirdInit, ReconcilerInit, PassInv, NamesInv, Remembers, Listed, NamesUnique,
     FreshView, PortsSeen, Coherent, PortsMeant, IdlePass
<1>2. TypeOK /\ Serialised /\ PassInv /\ [Next]_vars => PassInv'
  BY NamesStep, FreshViewKept, PortsSeenKept, DesiredKept DEF PassInv
<1> QED
  BY <1>1, <1>2, TypeCorrect, PassesSerialised, PTL DEF Spec

\* Idempotence, for any labels, containers and edits: every name that a clean
\* pass has dealt with is such that comparing it again (line 155) would send
\* nothing, whatever the server added to it, redacted or completed in it.
THEOREM CleanPassesSettle == Spec => []CleanPassSettles
<1>1. Init => CleanPassSettles
  BY DEF Init, ReconcilerInit, CleanPassSettles, IdlePass
<1>2. TypeOK /\ Serialised /\ PassInv /\ CleanPassSettles /\ [Next]_vars => CleanPassSettles'
  BY SettlesKept DEF PassInv
<1> QED
  BY <1>1, <1>2, TypeCorrect, PassesSerialised, PassInvKept, PTL DEF Spec

\* Switching a service off leaves its host, its port and all the rest of it
\* (lines 138-141), though the pass sees the stopped container without its
\* bindings and its address.
THEOREM StopsKeepEndpoint == Spec => StopKeepsEndpoint
<1>1. TypeOK /\ Serialised /\ PassInv /\ [Next]_vars =>
        [ControllerWrites => \A id \in DOMAIN services \cap DOMAIN services' :
            services[id].enabled /\ ~services'[id].enabled /\ pass[mu].clean =>
               Endpoint(View(services'[id])) = Endpoint(View(services[id]))]_vars
  BY StopStep DEF PassInv
<1> QED
  BY <1>1, TypeCorrect, PassesSerialised, PassInvKept, PTL DEF Spec, StopKeepsEndpoint

\* A service whose containers all publish their labelled port never falls back
\* from a host port to a container port (lines 142-152), in clean passes and
\* in those that fail or are overtaken.
THEOREM PublishedPortsKept == Spec => PublishedPortKept
<1>1. TypeOK /\ Serialised /\ PassInv /\ [Next]_vars =>
        [ControllerWrites => \A id \in DOMAIN services \cap DOMAIN services' :
            /\ services[id].targets # << >>
            /\ services[id].targets[1].port \in HostPorts
            /\ AlwaysPublished(services'[id].name)
            => services'[id].targets[1].port \in HostPorts]_vars
  BY PortStep DEF PassInv
<1> QED
  BY <1>1, TypeCorrect, PassesSerialised, PassInvKept, PTL DEF Spec, PublishedPortKept

=============================================================================
