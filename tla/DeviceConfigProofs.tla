------------------------- MODULE DeviceConfigProofs -------------------------
(***************************************************************************)
(* The properties of DeviceConfig for any configurations, requests, users  *)
(* and spellings, and any number of switches and reloads.                  *)
(*                                                                         *)
(* What is live has been validated, whoever wrote it; the rest about the   *)
(* settings is what validation implies.  For the list of devices the two   *)
(* reads it makes have to be followed: the uid it has read is one of those *)
(* at the seat since it was asked for.                                     *)
(***************************************************************************)
EXTENDS DeviceConfig, TLAPS, FiniteSetTheorems

\* What a request for the list of devices knows at each of its stages.
Follows(r) ==
  /\ At(r, "listed") => req[r] = [pc |-> "listed", uids |-> req[r].uids] /\ seat \in req[r].uids
  /\ At(r, "foruid") =>
       /\ req[r] = [pc |-> "foruid", uids |-> req[r].uids, uid |-> req[r].uid]
       /\ seat \in req[r].uids /\ req[r].uid \in req[r].uids
  /\ At(r, "shown") =>
       \A i \in DOMAIN req[r].devices :
         Parse(req[r].devices[i].target_mac) \in req[r].shown => req[r].devices[i].uid \in req[r].uids

IInv ==
  /\ Valid(live)
  /\ req = [r \in Requests |-> req[r]]
  /\ \A r \in Requests : Follows(r)

------------------------------------------------------------------------------
\* A request that changes hands with nobody else: the others keep what they
\* know, for the seat is where it was.
LEMMA OthersFollow ==
  ASSUME IInv, NEW r \in Requests, NEW record, Becomes(r, record), UNCHANGED seat, Follows(r)'
  PROVE  req' = [q \in Requests |-> req'[q]] /\ \A q \in Requests : Follows(q)'
<1>1. req' = [q \in Requests |-> req'[q]]
  BY DEF IInv, Becomes
<1>2. ASSUME NEW q \in Requests, q # r PROVE Follows(q)'
  <2>1. req'[q] = req[q] /\ Follows(q)
    BY <1>2 DEF IInv, Becomes
  <2> QED BY <2>1 DEF Follows, At
<1> QED BY <1>1, <1>2

\* A request that is none of the list's stages has nothing to follow.
LEMMA WriterStep ==
  ASSUME IInv, NEW r \in Requests, NEW record, Becomes(r, record),
         record.pc \in {"adding", "save", "refused", "done"}, UNCHANGED seat, Valid(live')
  PROVE  IInv'
<1>1. req'[r] = record
  BY DEF IInv, Becomes
<1>2. Follows(r)'
  BY <1>1 DEF Follows, At
<1> QED BY <1>2, OthersFollow DEF IInv, Valid, EntryValid, NoDuplicate

LEMMA ValidStays ==
  ASSUME IInv, live' = live
  PROVE  Valid(live') /\ Valid(live)'
BY DEF IInv, Valid, EntryValid, NoDuplicate

LEMMA HandlerStep ==
  ASSUME IInv, NEW r \in Requests, Add(r) \/ AddTo(r) \/ Remove(r) \/ Update(r) \/ Put(r)
  PROVE  IInv'
<1>1. UNCHANGED <<live, seat>>
  BY DEF Add, AddTo, Remove, Update, Put
<1>2. PICK record : Becomes(r, record) /\ record.pc \in {"adding", "save", "refused"}
  <2>1. \A devices : Saves(r, devices) => \E record : Becomes(r, record) /\ record.pc \in {"adding", "save", "refused"}
    BY DEF Saves
  <2>2. Refused(r) => \E record : Becomes(r, record) /\ record.pc \in {"adding", "save", "refused"}
    BY DEF Refused
  <2>3. CASE Add(r)
    BY <2>2, <2>3 DEF Add
  <2>4. CASE AddTo(r)
    BY <2>1, <2>2, <2>4 DEF AddTo
  <2>5. CASE Remove(r)
    BY <2>1, <2>2, <2>5 DEF Remove
  <2>6. CASE Update(r)
    BY <2>1, <2>2, <2>6 DEF Update
  <2>7. CASE Put(r)
    BY <2>2, <2>7 DEF Put
  <2> QED BY <2>3, <2>4, <2>5, <2>6, <2>7
<1> QED BY <1>1, <1>2, ValidStays, WriterStep

\* The copy in memory is replaced by a valid one only.
LEMMA SaveStep ==
  ASSUME IInv, NEW r \in Requests, Save(r)
  PROVE  IInv'
<1>1. UNCHANGED seat
  BY DEF Save
<1>2. CASE Valid(req[r].new)
  <2>1. live' = req[r].new /\ Becomes(r, [pc |-> "done"])
    BY <1>2 DEF Save
  <2> QED BY <1>1, <1>2, <2>1, WriterStep
<1>3. CASE ~Valid(req[r].new)
  <2>1. live' = live /\ Becomes(r, [pc |-> "refused"])
    BY <1>3 DEF Save, Refused
  <2> QED BY <1>1, <2>1, ValidStays, WriterStep
<1> QED BY <1>2, <1>3

\* The list: the user read is at the seat now, and what is shown is not
\* configured for anybody else.
LEMMA ListStep ==
  ASSUME IInv, NEW r \in Requests, AskBluez(r) \/ ReadUid(r) \/ AnswerList(r)
  PROVE  IInv'
<1>1. UNCHANGED <<live, seat>> /\ req = [q \in Requests |-> req[q]]
  BY DEF AskBluez, ReadUid, AnswerList, IInv
<1>2. CASE AskBluez(r)
  <2>1. Becomes(r, [pc |-> "listed", uids |-> {seat}])
    BY <1>2 DEF AskBluez
  <2>2. req'[r] = [pc |-> "listed", uids |-> {seat}]
    BY <1>1, <2>1 DEF Becomes
  <2>3. Follows(r)'
    BY <1>1, <2>2 DEF Follows, At
  <2> QED BY <1>1, <2>1, <2>3, OthersFollow, ValidStays DEF IInv
<1>3. CASE ReadUid(r)
  <2>1. Becomes(r, [pc |-> "foruid", uids |-> req[r].uids, uid |-> seat]) /\ seat \in req[r].uids
    BY <1>3 DEF ReadUid, IInv, Follows
  <2>2. req'[r] = [pc |-> "foruid", uids |-> req[r].uids, uid |-> seat]
    BY <1>1, <2>1 DEF Becomes
  <2>3. Follows(r)'
    BY <1>1, <2>1, <2>2 DEF Follows, At
  <2> QED BY <1>1, <2>1, <2>3, OthersFollow, ValidStays DEF IInv
<1>4. CASE AnswerList(r)
  <2> DEFINE record == [pc |-> "shown", uids |-> req[r].uids, devices |-> live.devices,
                        shown |-> {m \in Macs : ~Foreign(req[r].uid, m)}]
  <2>1. Becomes(r, record) /\ req[r].uid \in req[r].uids
    BY <1>4 DEF AnswerList, IInv, Follows
  <2>2. req'[r] = record
    BY <1>1, <2>1 DEF Becomes
  <2>3. ASSUME NEW i \in DOMAIN live.devices, Parse(live.devices[i].target_mac) \in record.shown
        PROVE  live.devices[i].uid \in req[r].uids
    BY <2>1, <2>3 DEF Foreign, Parse, Show
  <2>4. Follows(r)'
    BY <2>2, <2>3 DEF Follows, At
  <2> QED BY <1>1, <2>1, <2>4, OthersFollow, ValidStays DEF IInv
<1> QED BY <1>2, <1>3, <1>4

\* A switch adds the new user to those of every list under way.
LEMMA SwitchStep ==
  ASSUME IInv, Switch
  PROVE  IInv'
<1>1. ASSUME NEW r \in Requests PROVE Follows(r)'
  <2>1. Follows(r) /\ live' = live
    BY DEF IInv, Switch
  <2>2. CASE At(r, "listed")
    <3>1. req'[r] = [pc |-> "listed", uids |-> req[r].uids \union {seat'}]
      BY <2>1, <2>2 DEF Switch, Follows, At
    <3> QED BY <3>1 DEF Follows, At
  <2>3. CASE At(r, "foruid")
    <3>1. req'[r] = [pc |-> "foruid", uids |-> req[r].uids \union {seat'}, uid |-> req[r].uid]
      BY <2>1, <2>3 DEF Switch, Follows, At
    <3> QED BY <2>1, <2>3, <3>1 DEF Follows, At
  <2>4. CASE ~At(r, "listed") /\ ~At(r, "foruid")
    <3>1. req'[r] = req[r]
      BY <2>4 DEF Switch, At
    <3> QED BY <2>1, <2>4, <3>1 DEF Follows, At
  <2> QED BY <2>2, <2>3, <2>4
<1>2. req' = [r \in Requests |-> req'[r]]
  BY DEF Switch
<1>3. Valid(live)'
  BY ValidStays DEF Switch
<1> QED BY <1>1, <1>2, <1>3 DEF IInv

\* A reload brings a valid configuration; lists under way keep their own.
LEMMA RestStep ==
  ASSUME IInv, Reload \/ UNCHANGED vars
  PROVE  IInv'
<1>1. Valid(live') /\ UNCHANGED <<seat, req>>
  BY ValidStays DEF Reload, vars
<1>2. Valid(live)'
  BY <1>1 DEF Valid, EntryValid, NoDuplicate
<1>3. \A r \in Requests : Follows(r)'
  BY <1>1 DEF IInv, Follows, At
<1> QED BY <1>1, <1>2, <1>3 DEF IInv

LEMMA InitIInv == Init => IInv
BY DEF Init, IInv, Follows, At, Idle

LEMMA NextIInv == IInv /\ [Next]_vars => IInv'
BY HandlerStep, SaveStep, ListStep, SwitchStep, RestStep DEF Next

LEMMA Invariance == Spec => []IInv
BY InitIInv, NextIInv, PTL DEF Spec

------------------------------------------------------------------------------
\* No device is configured twice, however requests and files write its MAC.
THEOREM DevicesDiffer == Spec => []NoTwins
<1>1. IInv => NoTwins
  BY DEF IInv, Valid, NoDuplicate, NoTwins
<1> QED BY <1>1, Invariance, PTL

\* Every setting a monitor is given is in range, whether it comes from the
\* device, from the defaults of its kind or from the top of the file.
THEOREM MonitorsCanRun == Spec => []SaneSettings
<1>1. ASSUME IInv, NEW i \in DOMAIN live.devices,
             NEW name \in Resolved \intersect (Counted \union Positive)
      PROVE  SettingsFor(live, live.devices[i])[name] > 0
  <2> DEFINE e == live.devices[i]
  <2>1. CASE name \in DOMAIN e.over
    <3>1. InRange(name, e.over[name])
      BY <1>1, <2>1 DEF IInv, Valid, EntryValid
    <3> QED BY <2>1, <3>1 DEF InRange, SettingsFor
  <2>2. CASE name \notin DOMAIN e.over
    <3>1. name \notin {"adapter_index", "fallback_tx_power"}
      BY DEF Counted, Positive
    <3>2. /\ name \in Names["br_edr"] /\ name \in Names["le"]
          /\ "br_edr" \in DOMAIN Names /\ "le" \in DOMAIN Names
      BY <3>1 DEF Names, Resolved
    <3>3. live.settings["br_edr"][name] > 0 /\ live.settings["le"][name] > 0
      BY <1>1, <3>2 DEF IInv, Valid, InRange
    <3>4. DefaultOf(live, e.kind, name) = live.settings[IF e.kind = "br_edr" THEN "br_edr" ELSE "le"][name]
      BY <3>1 DEF DefaultOf
    <3>5. SettingsFor(live, e)[name] = DefaultOf(live, e.kind, name)
      BY <2>2 DEF SettingsFor
    <3> QED BY <3>3, <3>4, <3>5
  <2> QED BY <2>1, <2>2
<1>2. IInv => SaneSettings
  BY <1>1 DEF SaneSettings
<1> QED BY <1>2, Invariance, PTL

\* The list of devices is about nobody who has not had the seat meanwhile.
THEOREM ListsAreOwn == Spec => []ListedIsOwn
<1>1. IInv => ListedIsOwn
  BY DEF IInv, Follows, ListedIsOwn
<1> QED BY <1>1, Invariance, PTL

------------------------------------------------------------------------------
(* Types: what a handler makes of a configuration is one.                  *)

Typed == TypeOK /\ IInv

LEMMA ListedConfig ==
  ASSUME IsConfig(live), NEW devices \in Seq(Entry)
  PROVE  IsConfig([live EXCEPT !.devices = devices])
BY DEF IsConfig

LEMMA PatchedConfig ==
  ASSUME IsConfig(live), NEW x \in Patches
  PROVE  IsConfig(PatchedWith(x))
<1>1. x[1] \in DOMAIN Names /\ x[2] \in Names[x[1]] /\ x[3] \in Values
  BY InputsAssumption
<1> DEFINE g == live.settings[x[1]]
           h == [live.settings EXCEPT ![x[1]] = [g EXCEPT ![x[2]] = x[3]]]
<1>2. [g EXCEPT ![x[2]] = x[3]] \in [Names[x[1]] -> Values]
  BY <1>1 DEF IsConfig
<1>3. h = [s \in DOMAIN Names |-> h[s]]
  BY DEF IsConfig
<1>4. ASSUME NEW s \in DOMAIN Names
      PROVE  h[s] \in [Names[s] -> Values]
  <2>1. h[s] = IF s = x[1] THEN [g EXCEPT ![x[2]] = x[3]] ELSE live.settings[s]
    BY DEF IsConfig
  <2>2. live.settings[s] \in [Names[s] -> Values]
    BY DEF IsConfig
  <2> QED BY <1>2, <2>1, <2>2
<1>5. PatchedWith(x) = [live EXCEPT !.settings = h]
  BY DEF PatchedWith, IsConfig
<1> HIDE DEF h
<1> QED BY <1>3, <1>4, <1>5 DEF IsConfig

LEMMA RetainedList ==
  ASSUME NEW l \in Seq(Entry), NEW kept \in SUBSET DOMAIN l, NEW p \in InOrder(kept)
  PROVE  [i \in DOMAIN p |-> l[p[i]]] \in Seq(Entry)
<1>1. DOMAIN l = 1..Len(l) /\ Len(l) \in Nat
  OBVIOUS
<1>2. Cardinality(kept) \in Nat
  <2>1. IsFiniteSet(1..Len(l)) /\ kept \in SUBSET (1..Len(l))
    BY <1>1, FS_Interval
  <2>2. IsFiniteSet(kept)
    BY <2>1, FS_Subset
  <2> QED BY <2>2, FS_CardinalityType
<1>3. p \in [1..Cardinality(kept) -> kept]
  BY DEF InOrder
<1>4. \A i \in 1..Cardinality(kept) : l[p[i]] \in Entry
  BY <1>1, <1>3
<1> QED BY <1>2, <1>3, <1>4

LEMMA UpdatedList ==
  ASSUME NEW l \in Seq(Entry), NEW i, NEW over \in Overrides
  PROVE  [l EXCEPT ![i].over = over] \in Seq(Entry)
<1>1. CASE i \in DOMAIN l
  <2>1. PICK x \in Entry : x = l[i]
    BY <1>1
  <2>2. PICK y \in Entry : y = [x EXCEPT !.over = over]
    BY DEF Entry
  <2>3. [l EXCEPT ![i].over = over] = [l EXCEPT ![i] = y]
    BY <2>1, <2>2
  <2>4. [l EXCEPT ![i] = y] \in Seq(Entry)
    BY <1>1
  <2> QED BY <2>3, <2>4
<1>2. CASE i \notin DOMAIN l
  <2>1. l \in [1..Len(l) -> Entry] /\ Len(l) \in Nat
    OBVIOUS
  <2>2. [l EXCEPT ![i].over = over] = l
    BY <1>2, <2>1
  <2> QED BY <2>2
<1> QED BY <1>1, <1>2

\* A request that takes the form of another stage.
LEMMA TypedRequest ==
  ASSUME Typed, NEW r \in Requests, NEW record, Becomes(r, record),
         UNCHANGED <<live, seat, budget>>,
         record.pc = "adding" => record.entry \in Entry,
         record.pc = "save" => IsConfig(record.new),
         record.pc = "shown" => record.shown \subseteq Macs
  PROVE  TypeOK'
<1>1. req'[r] = record /\ \A q \in Requests \ {r} : req'[q] = req[q]
  BY DEF Typed, IInv, Becomes
<1>2. IsConfig(live)'
  BY DEF Typed, TypeOK, IsConfig
<1>3. ASSUME NEW q \in Requests
      PROVE  /\ req'[q].pc = "adding" => req'[q].entry \in Entry
             /\ req'[q].pc = "save" => IsConfig(req'[q].new)
             /\ req'[q].pc = "shown" => req'[q].shown \subseteq Macs
  BY <1>1 DEF Typed, TypeOK, At
<1> QED BY <1>2, <1>3 DEF Typed, TypeOK, At, IsConfig

LEMMA TypedSaves ==
  ASSUME Typed, NEW r \in Requests, NEW devices \in Seq(Entry), Saves(r, devices),
         UNCHANGED <<live, seat, budget>>
  PROVE  TypeOK'
BY ListedConfig, TypedRequest DEF Saves, Typed, TypeOK

LEMMA TypedRefused ==
  ASSUME Typed, NEW r \in Requests, Refused(r), UNCHANGED <<live, seat, budget>>
  PROVE  TypeOK'
BY TypedRequest DEF Refused

LEMMA HandlerTyped ==
  ASSUME Typed, NEW r \in Requests, Add(r) \/ AddTo(r) \/ Remove(r) \/ Update(r) \/ Put(r)
  PROVE  TypeOK'
<1>1. live.devices \in Seq(Entry) /\ IsConfig(live) /\ seat \in Users \union {NoUid}
  BY DEF Typed, TypeOK, IsConfig
<1>2. UNCHANGED <<live, seat, budget>>
  BY DEF Add, AddTo, Remove, Update, Put
<1>3. CASE Add(r)
  <2>1. PICK text \in Spelling, kind \in Kind, over \in Overrides :
          \/ /\ seat # NoUid
             /\ Becomes(r, [pc |-> "adding", entry |->
                      [uid |-> seat, target_mac |-> text, kind |-> kind, over |-> over]])
          \/ Refused(r)
    BY <1>3 DEF Add
  <2>2. PICK e : e = [uid |-> seat, target_mac |-> text, kind |-> kind, over |-> over]
    OBVIOUS
  <2>3. seat # NoUid => e \in Entry
    BY <1>1, <2>2 DEF Entry
  <2>4. CASE seat # NoUid /\ Becomes(r, [pc |-> "adding", entry |-> e])
    BY <1>2, <2>3, <2>4, TypedRequest
  <2> QED BY <1>2, <2>1, <2>2, <2>4, TypedRefused
<1>4. CASE AddTo(r)
  <2>1. req[r].entry \in Entry
    BY <1>4 DEF AddTo, Typed, TypeOK
  <2>2. Append(live.devices, req[r].entry) \in Seq(Entry)
    BY <1>1, <2>1
  <2>3. Saves(r, Append(live.devices, req[r].entry)) \/ Refused(r)
    BY <1>4 DEF AddTo
  <2> QED BY <1>2, <2>2, <2>3, TypedSaves, TypedRefused
<1>5. CASE Remove(r)
  <2>1. \/ \E text \in Spelling : \E p \in InOrder(DOMAIN live.devices \ Places(text)) :
             Saves(r, [i \in DOMAIN p |-> live.devices[p[i]]])
        \/ Refused(r)
    BY <1>5 DEF Remove
  <2>2. ASSUME NEW text \in Spelling, NEW p \in InOrder(DOMAIN live.devices \ Places(text)),
               Saves(r, [i \in DOMAIN p |-> live.devices[p[i]]])
        PROVE  TypeOK'
    <3>1. [i \in DOMAIN p |-> live.devices[p[i]]] \in Seq(Entry)
      BY <1>1, RetainedList
    <3> QED BY <1>2, <2>2, <3>1, TypedSaves
  <2> QED BY <1>2, <2>1, <2>2, TypedRefused
<1>6. CASE Update(r)
  <2>1. PICK text \in Spelling, over \in Overrides :
          \/ Saves(r, [live.devices EXCEPT ![First(Places(text))].over = over])
          \/ Refused(r)
    BY <1>6 DEF Update
  <2>2. PICK i : i = First(Places(text))
    OBVIOUS
  <2>3. [live.devices EXCEPT ![i].over = over] \in Seq(Entry)
    BY <1>1, UpdatedList
  <2> QED BY <1>2, <2>1, <2>2, <2>3, TypedSaves, TypedRefused
<1>7. CASE Put(r)
  <2>1. PICK new \in {PatchedWith(x) : x \in Patches} \union {ListedAs(l) : l \in Lists} :
          Becomes(r, [pc |-> "save", new |-> new]) \/ Refused(r)
    BY <1>7 DEF Put
  <2>2. IsConfig(new)
    BY <1>1, <2>1, PatchedConfig, ListedConfig, InputsAssumption DEF ListedAs
  <2> QED BY <1>2, <2>1, <2>2, TypedRequest, TypedRefused
<1> QED BY <1>3, <1>4, <1>5, <1>6, <1>7

LEMMA SaveTyped ==
  ASSUME Typed, NEW r \in Requests, Save(r)
  PROVE  TypeOK'
<1>1. UNCHANGED <<seat, budget>> /\ IsConfig(req[r].new) /\ IsConfig(live)
  BY DEF Save, Typed, TypeOK
<1>2. IsConfig(live') /\ \E step \in {"done", "refused"} : Becomes(r, [pc |-> step])
  BY <1>1 DEF Save, Refused
<1>3. IsConfig(live)'
  BY <1>2 DEF IsConfig
<1>4. /\ \A q \in Requests \ {r} : req'[q] = req[q]
      /\ req'[r].pc \in {"done", "refused"}
  BY <1>2 DEF Typed, IInv, Becomes
<1>5. ASSUME NEW q \in Requests
      PROVE  /\ req'[q].pc = "adding" => req'[q].entry \in Entry
             /\ req'[q].pc = "save" => IsConfig(req'[q].new)
             /\ req'[q].pc = "shown" => req'[q].shown \subseteq Macs
  BY <1>4 DEF Typed, TypeOK, At
<1> QED BY <1>1, <1>3, <1>5 DEF Typed, TypeOK, At, IsConfig

LEMMA SwitchTyped ==
  ASSUME Typed, Switch
  PROVE  TypeOK'
<1>1. ASSUME NEW q \in Requests, req'[q].pc \in {"adding", "save", "shown"} PROVE req'[q] = req[q]
  BY <1>1 DEF Switch, Typed, IInv, Follows, At
<1>2. budget' \in 0..Budget /\ seat' \in Users \union {NoUid} /\ live' = live
  BY FormsAssumption DEF Switch, Typed, TypeOK
<1>3. IsConfig(live)'
  BY <1>2 DEF Typed, TypeOK, IsConfig
<1>4. ASSUME NEW q \in Requests
      PROVE  /\ req'[q].pc = "adding" => req'[q].entry \in Entry
             /\ req'[q].pc = "save" => IsConfig(req'[q].new)
             /\ req'[q].pc = "shown" => req'[q].shown \subseteq Macs
  BY <1>1 DEF Typed, TypeOK, At
<1> QED BY <1>2, <1>3, <1>4 DEF TypeOK, At, IsConfig

LEMMA RestTyped ==
  ASSUME Typed, Reload \/ UNCHANGED vars
  PROVE  TypeOK'
<1>1. budget' \in 0..Budget /\ UNCHANGED <<seat, req>>
  BY FormsAssumption DEF Reload, vars, Typed, TypeOK
<1>2. IsConfig(live')
  BY InputsAssumption DEF Reload, vars, Typed, TypeOK
<1>3. IsConfig(live)'
  BY <1>2 DEF IsConfig
<1> QED BY <1>1, <1>3 DEF Typed, TypeOK, At, IsConfig

LEMMA NextTyped == Typed /\ [Next]_vars => TypeOK'
<1> SUFFICES ASSUME Typed, [Next]_vars PROVE TypeOK'
  OBVIOUS
<1>1. ASSUME NEW r \in Requests, AskBluez(r) \/ ReadUid(r) \/ AnswerList(r) PROVE TypeOK'
  <2>1. PICK record : /\ Becomes(r, record) /\ record.pc \notin {"adding", "save"}
                      /\ record.pc = "shown" => record.shown \subseteq Macs
    BY <1>1 DEF AskBluez, ReadUid, AnswerList
  <2>2. UNCHANGED <<live, seat, budget>>
    BY <1>1 DEF AskBluez, ReadUid, AnswerList
  <2> QED BY <2>1, <2>2, TypedRequest
<1> QED BY <1>1, HandlerTyped, SaveTyped, SwitchTyped, RestTyped DEF Next

\* What is in memory and what is about to be saved is a configuration, with
\* every device in it given to a user: whatever requests make of it, and
\* whoever gets the seat meanwhile.
THEOREM TypeCorrect == Spec => []TypeOK
<1>1. Init => TypeOK
  BY FormsAssumption, InputsAssumption DEF Init, TypeOK, At, Idle
<1>2. IInv /\ TypeOK /\ [Next]_vars => TypeOK'
  BY NextTyped DEF Typed
<1> QED BY <1>1, <1>2, Invariance, PTL DEF Spec
==============================================================================
