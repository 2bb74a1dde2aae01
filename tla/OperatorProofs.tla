--------------------------- MODULE OperatorProofs ---------------------------
(***************************************************************************)
(* What the pure functions of the reconciler return, for every container   *)
(* and every service: the label parser, and what disables, overlays,       *)
(* compares and stores services.                                           *)
(***************************************************************************)
EXTENDS Labels, NetBird, SequenceTheorems, TLAPS

-----------------------------------------------------------------------------
(* The label parser                                                        *)

\* The specification of a service that a parsed container asks for.
ParsedType ==
    [name : Nat, domain : Text, listenPort : Int, proxyCluster : Text,
     forcedOff : BOOLEAN, ephemeral : BOOLEAN, targetMode : Text, groups : BOOLEAN,
     targetId : Text, targetName : Text, host : Text, port : Int,
     options : {"nil", "set"},
     auth : [state : {"nil", "off", "on"}, secret : Text],
     access : {"nil", "empty", "set"}, payload : Text]

\* A label of text is text, and so is the default in its place.
LEMMA TextLabel ==
    ASSUME NEW raw, WellFormedLabels(raw), NEW k, NEW default \in Text,
           NEW field \in TextFields \ {"access"}
    PROVE  Get(raw, k, field, default) \in Text
<1>1. ValuesOf(field) = Text
  BY DEF ValuesOf, TextFields, NumericFields
<1> QED
  BY <1>1 DEF Get, Has, WellFormedLabels

\* A numeric label is a number, or it is not and parsing fails.
LEMMA NumericLabel ==
    ASSUME NEW raw, WellFormedLabels(raw), NEW k, NEW field \in NumericFields,
           NEW default \in Int \cup {NotANumber}
    PROVE  Get(raw, k, field, default) \in Int \cup {NotANumber}
<1>1. ValuesOf(field) = Int \cup {NotANumber}
  BY DEF ValuesOf, NumericFields
<1> QED
  BY <1>1 DEF Get, Has, WellFormedLabels

\* parseOne returns a well-formed specification whenever it does not fail.
LEMMA ParseOneType ==
    ASSUME NEW raw, WellFormedLabels(raw), NEW k, ~ParseFails(raw, k)
    PROVE  ParseOne(raw, k) \in ParsedType
<1>1. /\ Get(raw, k, "domain", NoText) \in Text
      /\ Get(raw, k, "proxy_cluster", NoText) \in Text
      /\ Get(raw, k, "target_mode", NoText) \in Text
      /\ Get(raw, k, "target.id", NoText) \in Text
      /\ Get(raw, k, "target.name", NoText) \in Text
      /\ Get(raw, k, "host", NoText) \in Text
      /\ Get(raw, k, "payload", NoText) \in Text
  <2>1. \A field \in TextFields \ {"access"} : Get(raw, k, field, NoText) \in Text
    BY TextLabel, TextAssumption
  <2> QED
    BY <2>1 DEF TextFields
<1>2. Get(raw, k, "target.host", Get(raw, k, "host", NoText)) \in Text
  BY <1>1, TextLabel DEF TextFields
<1>3. Get(raw, k, "listen_port", 0) \in Int
  BY NumericLabel DEF NumericFields, ParseFails
<1>4. LabelledPort(raw, k) \in Int
  <2>1. Get(raw, k, "port", 0) \in Int \cup {NotANumber}
    BY NumericLabel DEF NumericFields
  <2> QED
    BY <2>1, NumericLabel DEF NumericFields, LabelledPort, ParseFails
<1>5. Get(raw, k, "name", 0) \in Nat
  <2>1. ValuesOf("name") = Nat
    BY DEF ValuesOf, NumericFields
  <2> QED
    BY <2>1 DEF Get, Has, WellFormedLabels
<1>6. Get(raw, k, "access", "nil") \in {"nil", "empty", "set"}
  <2>1. ValuesOf("access") = {"empty", "set"}
    BY DEF ValuesOf, NumericFields
  <2> QED
    BY <2>1 DEF Get, Has, WellFormedLabels
<1>7. ParseAuth(raw, k) \in [state : {"nil", "off", "on"}, secret : Text]
  <2>1. Get(raw, k, "auth.secret", NoText) \in Text
    BY TextLabel, TextAssumption DEF TextFields
  <2>2. Has(raw, k, "auth.secret") => raw[<<k, "auth.secret">>] \in Text
    BY <2>1 DEF Get
  <2> QED
    BY <2>2, TextAssumption DEF ParseAuth, NilAuth
<1>8. /\ Truthy(Get(raw, k, "ephemeral", NoText)) \in BOOLEAN
      /\ (Has(raw, k, "enable") /\ ~Truthy(raw[<<k, "enable">>])) \in BOOLEAN
      /\ (\/ Get(raw, k, "access_groups", NoText) # NoText
          \/ /\ Has(raw, k, "auth.sso")
             /\ Get(raw, k, "auth.sso_groups", NoText) # NoText) \in BOOLEAN
  BY DEF Truthy
<1> QED
  BY <1>1, <1>2, <1>3, <1>4, <1>5, <1>6, <1>7, <1>8 DEF ParseOne, ParsedType

\* Parse files what parseOne returns under the keys of the container, and
\* returns nothing of a container with a service that does not parse.
LEMMA ParseType ==
    ASSUME NEW raw, WellFormedLabels(raw), NEW k \in DOMAIN Parse(raw)
    PROVE  /\ k \in Keys \cup {Shorthand}
           /\ Parse(raw)[k] = ParseOne(raw, k)
           /\ Parse(raw)[k] \in ParsedType
<1>1. k \in ServiceKeys(raw) /\ ~ParseFails(raw, k)
  BY DEF Parse
<1>2. Parse(raw)[k] = ParseOne(raw, k)
  BY DEF Parse
<1> QED
  BY <1>1, <1>2, ParseOneType DEF ServiceKeys

-----------------------------------------------------------------------------
(* Services                                                                *)

\* A sequence changed element by element is a sequence.
LEMMA Mapped ==
    ASSUME NEW T, NEW ts \in Seq(T), NEW f,
           f = [i \in DOMAIN ts |-> f[i]],
           \A i \in DOMAIN ts : f[i] \in T
    PROVE  f \in Seq(T)
<1>1. DOMAIN ts = 1 .. Len(ts) /\ Len(ts) \in Nat
  OBVIOUS
<1>2. f \in [1 .. Len(ts) -> T]
  BY <1>1
<1> QED
  BY <1>1, <1>2, SeqDef

\* Disabling in place keeps the identity of a service.
LEMMA DisableInPlaceType ==
    ASSUME NEW s \in ServiceType
    PROVE  /\ DisableInPlace(s) \in ServiceType
           /\ DisableInPlace(s).id = s.id
           /\ DisableInPlace(s).name = s.name
<1> DEFINE off == [i \in DOMAIN s.targets |-> [s.targets[i] EXCEPT !.enabled = FALSE]]
<1>1. s.targets \in Seq(TargetType)
  BY DEF ServiceType
<1>2. \A i \in DOMAIN s.targets : off[i] \in TargetType
  <2>1. \A i \in DOMAIN s.targets : s.targets[i] \in TargetType
    BY <1>1
  <2> QED
    BY <2>1 DEF TargetType
<1>3. off \in Seq(TargetType)
  BY <1>1, <1>2, Mapped
<1>4. DisableInPlace(s) = [s EXCEPT !.enabled = FALSE, !.targets = off]
  BY DEF DisableInPlace
<1> HIDE DEF off
<1> QED
  BY <1>3, <1>4 DEF ServiceType

\* The overlay has the id of the existing service and the desired name.
LEMMA MergeType ==
    ASSUME NEW cur \in ServiceType, NEW d \in ServiceType
    PROVE  /\ Merge(cur, d) \in ServiceType
           /\ Merge(cur, d).id = cur.id
           /\ Merge(cur, d).name = d.name
BY DEF Merge, ServiceType

\* Comparing never makes another service of one: it loses options and
\* secrets, and nothing that says which service it is.
LEMMA AfterCompareType ==
    ASSUME NEW s \in ServiceType
    PROVE  /\ AfterCompare(s) \in ServiceType
           /\ AfterCompare(s).id = s.id
           /\ AfterCompare(s).name = s.name
<1>1. s.targets \in Seq(TargetType)
  BY DEF ServiceType
<1>2. \A i \in DOMAIN s.targets : NormalTargets(s.targets)[i] \in TargetType
  <2>1. \A i \in DOMAIN s.targets : s.targets[i] \in TargetType
    BY <1>1
  <2> QED
    BY <2>1 DEF NormalTargets, TargetType
<1>3. NormalTargets(s.targets) \in Seq(TargetType)
  BY <1>1, <1>2, Mapped DEF NormalTargets
<1>4. [s.auth EXCEPT !.secret = NoText] \in AuthType
  BY TextAssumption DEF ServiceType, AuthType
<1>5. AfterCompare(s) = [s EXCEPT !.targets = NormalTargets(s.targets),
                                  !.auth = [s.auth EXCEPT !.secret = NoText]]
  BY DEF AfterCompare
<1> QED
  BY <1>3, <1>4, <1>5 DEF ServiceType

\* What the server answers with is a service, of the same id and name.
LEMMA ViewType ==
    ASSUME NEW s \in ServiceType
    PROVE  /\ View(s) \in ServiceType
           /\ View(s).id = s.id
           /\ View(s).name = s.name
<1> DEFINE seen == [i \in DOMAIN s.targets |->
                      [s.targets[i] EXCEPT !.options = IF s.targets[i].options = "nil"
                                                       THEN "empty" ELSE s.targets[i].options]]
<1>1. s.targets \in Seq(TargetType)
  BY DEF ServiceType
<1>2. \A i \in DOMAIN s.targets : seen[i] \in TargetType
  <2>1. \A i \in DOMAIN s.targets : s.targets[i] \in TargetType
    BY <1>1
  <2> QED
    BY <2>1 DEF TargetType
<1>3. seen \in Seq(TargetType)
  BY <1>1, <1>2, Mapped
<1>4. [s.auth EXCEPT !.secret = NoText] \in AuthType
  BY TextAssumption DEF ServiceType, AuthType
<1>5. View(s) = [s EXCEPT !.auth = [s.auth EXCEPT !.secret = NoText], !.targets = seen]
  BY DEF View
<1> HIDE DEF seen
<1> QED
  BY <1>3, <1>4, <1>5 DEF ServiceType

\* What the server makes of a posted service is a service with its name.
LEMMA StoredType ==
    ASSUME NEW s \in ServiceType, NEW id \in Ids
    PROVE  /\ Stored(id, s) \in ServiceType
           /\ Stored(id, s).id = id
           /\ Stored(id, s).name = s.name
<1> DEFINE auto == s.listenPort = 0
           port == IF s.listenPort = 0 THEN 9000 ELSE s.listenPort
<1>1. auto \in BOOLEAN /\ port \in Int
  BY DEF ServiceType
<1>2. Stored(id, s) = [s EXCEPT !.id = id, !.meta = "server", !.portAuto = auto,
                                !.listenPort = port]
  BY DEF Stored
<1> HIDE DEF auto, port
<1> QED
  BY <1>1, <1>2, TextAssumption DEF ServiceType

-----------------------------------------------------------------------------
(* What the comparison looks at                                            *)

NormalAccess(access) == IF access = "empty" THEN "nil" ELSE access

\* Two services agree on everything that servicesEqual compares.
Alike(a, b) ==
    /\ a.name = b.name
    /\ a.listenPort = b.listenPort
    /\ a.proxyCluster = b.proxyCluster
    /\ a.enabled = b.enabled
    /\ NormalTargets(a.targets) = NormalTargets(b.targets)
    /\ NormalAuth(a.auth) = NormalAuth(b.auth)
    /\ NormalAccess(a.access) = NormalAccess(b.access)
    /\ a.payload = b.payload

\* What normalisation makes of a service, field by field.
LEMMA NormalizeFields ==
    ASSUME NEW s \in ServiceType
    PROVE  Normalize(s) =
             [id |-> NoId, name |-> s.name, listenPort |-> s.listenPort, portAuto |-> FALSE,
              proxyCluster |-> s.proxyCluster, targets |-> NormalTargets(s.targets),
              enabled |-> s.enabled, terminated |-> FALSE, auth |-> NormalAuth(s.auth),
              access |-> NormalAccess(s.access), payload |-> s.payload, meta |-> NoText]
<1> DEFINE ts == NormalTargets(s.targets)
           auth == NormalAuth(s.auth)
           access == NormalAccess(s.access)
<1>1. Normalize(s) = [s EXCEPT !.id = NoId, !.meta = NoText, !.portAuto = FALSE,
                               !.terminated = FALSE, !.targets = ts, !.auth = auth,
                               !.access = access]
  BY DEF Normalize, NormalAccess
<1> HIDE DEF ts, auth, access
<1>2. Normalize(s) =
        [id |-> NoId, name |-> s.name, listenPort |-> s.listenPort, portAuto |-> FALSE,
         proxyCluster |-> s.proxyCluster, targets |-> ts, enabled |-> s.enabled,
         terminated |-> FALSE, auth |-> auth, access |-> access, payload |-> s.payload,
         meta |-> NoText]
  BY <1>1 DEF ServiceType
<1> QED
  BY <1>2 DEF ts, auth, access

\* servicesEqual compares these fields and no others.
LEMMA EqualIsAlike ==
    ASSUME NEW a \in ServiceType, NEW b \in ServiceType
    PROVE  ServicesEqual(a, b) <=> Alike(a, b)
<1> DEFINE N(s) ==
             [id |-> NoId, name |-> s.name, listenPort |-> s.listenPort, portAuto |-> FALSE,
              proxyCluster |-> s.proxyCluster, targets |-> NormalTargets(s.targets),
              enabled |-> s.enabled, terminated |-> FALSE, auth |-> NormalAuth(s.auth),
              access |-> NormalAccess(s.access), payload |-> s.payload, meta |-> NoText]
<1>1. ServicesEqual(a, b) <=> N(a) = N(b)
  BY NormalizeFields DEF ServicesEqual
<1>2. N(a) = N(b) => Alike(a, b)
  <2> SUFFICES ASSUME N(a) = N(b) PROVE Alike(a, b)
    OBVIOUS
  <2>1. /\ N(a).name = N(b).name
        /\ N(a).listenPort = N(b).listenPort
        /\ N(a).proxyCluster = N(b).proxyCluster
        /\ N(a).targets = N(b).targets
        /\ N(a).enabled = N(b).enabled
        /\ N(a).auth = N(b).auth
        /\ N(a).access = N(b).access
        /\ N(a).payload = N(b).payload
    OBVIOUS
  <2> QED
    BY <2>1 DEF Alike
<1>3. Alike(a, b) => N(a) = N(b)
  BY DEF Alike
<1> QED
  BY <1>1, <1>2, <1>3

\* A change of every target that keeps the number of targets and what
\* normalisation leaves of each keeps what it leaves of all.
LEMMA SameNormal ==
    ASSUME NEW ts, NEW us, DOMAIN ts = DOMAIN us,
           \A i \in DOMAIN ts :
              [ts[i] EXCEPT !.options = IF ts[i].options = "empty" THEN "nil" ELSE ts[i].options]
            = [us[i] EXCEPT !.options = IF us[i].options = "empty" THEN "nil" ELSE us[i].options]
    PROVE  NormalTargets(ts) = NormalTargets(us)
BY DEF NormalTargets

\* The server's answer, field by field: redaction and completion concern
\* nothing that is compared.
LEMMA ViewIsAlike ==
    ASSUME NEW s \in ServiceType
    PROVE  /\ Alike(View(s), s)
           /\ View(s).meta = s.meta
           /\ View(s).portAuto = s.portAuto
           /\ View(s).terminated = s.terminated
           /\ View(s).access = s.access
           /\ View(s).auth = [s.auth EXCEPT !.secret = NoText]
           /\ View(s).targets = [i \in DOMAIN s.targets |->
                 [s.targets[i] EXCEPT !.options = IF s.targets[i].options = "nil"
                                                  THEN "empty" ELSE s.targets[i].options]]
<1> DEFINE seen == [i \in DOMAIN s.targets |->
                      [s.targets[i] EXCEPT !.options = IF s.targets[i].options = "nil"
                                                       THEN "empty" ELSE s.targets[i].options]]
           auth == [s.auth EXCEPT !.secret = NoText]
<1>1. View(s) = [s EXCEPT !.auth = auth, !.targets = seen]
  BY DEF View
<1>2. s.targets \in Seq(TargetType) /\ s.auth \in AuthType
  BY DEF ServiceType
<1>3. NormalAuth(auth) = NormalAuth(s.auth)
  BY <1>2 DEF NormalAuth, AuthType
<1>4. NormalTargets(seen) = NormalTargets(s.targets)
  <2>1. ASSUME NEW i \in DOMAIN s.targets
        PROVE  [seen[i] EXCEPT !.options = IF seen[i].options = "empty"
                                           THEN "nil" ELSE seen[i].options]
             = [s.targets[i] EXCEPT !.options = IF s.targets[i].options = "empty"
                                                THEN "nil" ELSE s.targets[i].options]
    <3>1. s.targets[i] \in TargetType
      BY <1>2
    <3> QED
      BY <3>1 DEF TargetType
  <2> QED
    BY <2>1, SameNormal
<1> HIDE DEF seen, auth
<1>5. /\ View(s).name = s.name /\ View(s).listenPort = s.listenPort
      /\ View(s).proxyCluster = s.proxyCluster /\ View(s).enabled = s.enabled
      /\ View(s).targets = seen /\ View(s).auth = auth /\ View(s).access = s.access
      /\ View(s).payload = s.payload /\ View(s).meta = s.meta
      /\ View(s).portAuto = s.portAuto /\ View(s).terminated = s.terminated
  BY <1>1 DEF ServiceType
<1> QED
  BY <1>3, <1>4, <1>5 DEF Alike, seen, auth

\* A comparison leaves a service that compares like it.
LEMMA AfterCompareIsAlike ==
    ASSUME NEW s \in ServiceType
    PROVE  /\ Alike(AfterCompare(s), s)
           /\ AfterCompare(s).meta = s.meta
           /\ AfterCompare(s).portAuto = s.portAuto
           /\ AfterCompare(s).terminated = s.terminated
           /\ AfterCompare(s).access = s.access
           /\ AfterCompare(s).auth = [s.auth EXCEPT !.secret = NoText]
           /\ AfterCompare(s).targets = NormalTargets(s.targets)
<1> DEFINE auth == [s.auth EXCEPT !.secret = NoText]
           ts == NormalTargets(s.targets)
<1>1. AfterCompare(s) = [s EXCEPT !.targets = ts, !.auth = auth]
  BY DEF AfterCompare
<1>2. s.targets \in Seq(TargetType) /\ s.auth \in AuthType
  BY DEF ServiceType
<1>3. NormalAuth(auth) = NormalAuth(s.auth)
  BY <1>2 DEF NormalAuth, AuthType
<1>4. NormalTargets(ts) = NormalTargets(s.targets)
  <2>1. ASSUME NEW i \in DOMAIN s.targets
        PROVE  [ts[i] EXCEPT !.options = IF ts[i].options = "empty"
                                         THEN "nil" ELSE ts[i].options]
             = [s.targets[i] EXCEPT !.options = IF s.targets[i].options = "empty"
                                                THEN "nil" ELSE s.targets[i].options]
    <3>1. s.targets[i] \in TargetType
      BY <1>2
    <3> QED
      BY <3>1 DEF TargetType, NormalTargets
  <2>2. DOMAIN ts = DOMAIN s.targets
    BY DEF NormalTargets
  <2> HIDE DEF ts
  <2> QED
    BY <2>1, <2>2, SameNormal
<1> HIDE DEF ts, auth
<1>5. /\ AfterCompare(s).name = s.name /\ AfterCompare(s).listenPort = s.listenPort
      /\ AfterCompare(s).proxyCluster = s.proxyCluster /\ AfterCompare(s).enabled = s.enabled
      /\ AfterCompare(s).targets = ts /\ AfterCompare(s).auth = auth
      /\ AfterCompare(s).access = s.access
      /\ AfterCompare(s).payload = s.payload /\ AfterCompare(s).meta = s.meta
      /\ AfterCompare(s).portAuto = s.portAuto /\ AfterCompare(s).terminated = s.terminated
  BY <1>1 DEF ServiceType
<1> QED
  BY <1>3, <1>4, <1>5 DEF Alike, ts, auth

\* A service that is off, with every target, compares like itself disabled.
LEMMA DisabledStays ==
    ASSUME NEW s \in ServiceType, ~s.enabled,
           \A i \in DOMAIN s.targets : ~s.targets[i].enabled
    PROVE  Alike(s, DisableInPlace(s))
<1> DEFINE off == [i \in DOMAIN s.targets |-> [s.targets[i] EXCEPT !.enabled = FALSE]]
<1>1. s.targets \in Seq(TargetType) /\ s.enabled = FALSE
  BY DEF ServiceType
<1>2. \A i \in DOMAIN s.targets : off[i] = s.targets[i]
  <2> SUFFICES ASSUME NEW i \in DOMAIN s.targets
               PROVE  [s.targets[i] EXCEPT !.enabled = FALSE] = s.targets[i]
    OBVIOUS
  <2>1. s.targets[i] \in TargetType
    BY <1>1
  <2>2. s.targets[i].enabled = FALSE
    BY <2>1 DEF TargetType
  <2> QED
    BY <2>1, <2>2 DEF TargetType
<1>3. NormalTargets(off) = NormalTargets(s.targets)
  BY <1>2, SameNormal
<1>4. DisableInPlace(s) = [s EXCEPT !.enabled = FALSE, !.targets = off]
  BY DEF DisableInPlace
<1> HIDE DEF off
<1> QED
  BY <1>1, <1>3, <1>4 DEF Alike, ServiceType

\* What the server stores of a posted service is as it was posted but for the
\* listen port that it assigns.
LEMMA StoredFields ==
    ASSUME NEW s \in ServiceType, NEW id \in Ids
    PROVE  /\ Stored(id, s).name = s.name
           /\ Stored(id, s).proxyCluster = s.proxyCluster
           /\ Stored(id, s).targets = s.targets
           /\ Stored(id, s).enabled = s.enabled
           /\ Stored(id, s).auth = s.auth
           /\ Stored(id, s).access = s.access
           /\ Stored(id, s).payload = s.payload
           /\ s.listenPort # 0 => Stored(id, s).listenPort = s.listenPort
<1> DEFINE auto == s.listenPort = 0
           port == IF s.listenPort = 0 THEN 9000 ELSE s.listenPort
<1>1. Stored(id, s) = [s EXCEPT !.id = id, !.meta = "server", !.portAuto = auto,
                                !.listenPort = port]
  BY DEF Stored
<1>2. s.listenPort # 0 => port = s.listenPort
  OBVIOUS
<1> HIDE DEF auto, port
<1> QED
  BY <1>1, <1>2 DEF ServiceType

\* What the server makes of a service when it is replaced.
Put(id, s, old) == [s EXCEPT !.id = id, !.meta = old.meta]

\* A PUT changes what the body says, and keeps the server's own fields.
LEMMA PutFields ==
    ASSUME NEW s \in ServiceType, NEW old \in ServiceType, NEW id \in Ids
    PROVE  /\ Put(id, s, old) \in ServiceType
           /\ Put(id, s, old).id = id
           /\ Put(id, s, old).meta = old.meta
           /\ Alike(Put(id, s, old), s)
           /\ Put(id, s, old).targets = s.targets
           /\ Put(id, s, old).auth = s.auth
           /\ Put(id, s, old).access = s.access
           /\ Put(id, s, old).portAuto = s.portAuto
           /\ Put(id, s, old).terminated = s.terminated
<1> DEFINE new == [s EXCEPT !.id = id, !.meta = old.meta]
<1>1. /\ new \in ServiceType
      /\ new.id = id /\ new.meta = old.meta
      /\ new.name = s.name /\ new.listenPort = s.listenPort
      /\ new.proxyCluster = s.proxyCluster /\ new.enabled = s.enabled
      /\ new.targets = s.targets /\ new.auth = s.auth /\ new.access = s.access
      /\ new.payload = s.payload /\ new.portAuto = s.portAuto
      /\ new.terminated = s.terminated
  BY DEF ServiceType
<1> HIDE DEF new
<1> QED
  BY <1>1 DEF Alike, Put, new

\* Agreeing is an equivalence.
LEMMA AlikeTrans ==
    ASSUME NEW a, NEW b, NEW c, Alike(a, b), Alike(b, c)
    PROVE  Alike(a, c) /\ Alike(b, a)
BY DEF Alike

\* Services that agree have the same number of targets, and these the same
\* ports and switches.
LEMMA AlikeTargets ==
    ASSUME NEW a \in ServiceType, NEW b \in ServiceType, Alike(a, b)
    PROVE  /\ DOMAIN a.targets = DOMAIN b.targets
           /\ \A i \in DOMAIN a.targets : /\ a.targets[i].port = b.targets[i].port
                                          /\ a.targets[i].enabled = b.targets[i].enabled
<1>1. a.targets \in Seq(TargetType) /\ b.targets \in Seq(TargetType)
  BY DEF ServiceType
<1>2. NormalTargets(a.targets) = NormalTargets(b.targets)
  BY DEF Alike
<1>3. DOMAIN a.targets = DOMAIN b.targets
  BY <1>2 DEF NormalTargets
<1>4. ASSUME NEW i \in DOMAIN a.targets
      PROVE  /\ a.targets[i].port = b.targets[i].port
             /\ a.targets[i].enabled = b.targets[i].enabled
  <2>1. a.targets[i] \in TargetType /\ b.targets[i] \in TargetType
    BY <1>1, <1>3
  <2>2. /\ NormalTargets(a.targets)[i].port = a.targets[i].port
        /\ NormalTargets(a.targets)[i].enabled = a.targets[i].enabled
    BY <2>1 DEF NormalTargets, TargetType
  <2>3. /\ NormalTargets(b.targets)[i].port = b.targets[i].port
        /\ NormalTargets(b.targets)[i].enabled = b.targets[i].enabled
    BY <1>3, <2>1 DEF NormalTargets, TargetType
  <2> QED
    BY <1>2, <2>2, <2>3
<1> QED
  BY <1>3, <1>4

=============================================================================
