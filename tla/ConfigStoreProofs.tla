-------------------------- MODULE ConfigStoreProofs --------------------------
(***************************************************************************)
(* The safety properties of ConfigStore for any devices, settings and      *)
(* number of requests, any choice of what happens beside them, and any     *)
(* number of files that leaves one to spare.                               *)
(*                                                                         *)
(* Two facts carry them.  While no two saves have overlapped, the one      *)
(* under way has the temporary name to itself, so what it renames is what  *)
(* it wrote (OneSave).  While no two read-modify-writes have overlapped,   *)
(* the one under way started from a configuration on which memory and file *)
(* still agree, until it has renamed; then the file holds what memory is   *)
(* about to (OneChange).                                                   *)
(***************************************************************************)
EXTENDS ConfigStore, TLAPS, FiniteSetTheorems

USE StoreAssumption
USE DEF Due

------------------------------------------------------------------------------
(* The inductive invariant.                                                *)

\* p has the temporary file open, or has just closed it.
Writing(p) == proc[p].pc \in {"write", "rename"}

\* passwd ends with its rename; it has no copy in memory to replace.
PasswdSteps == proc[Passwd].pc \notin {"commit", "notify"}

\* The two names never stand for one file.
TwoNames == tmp # file

\* Alone, the save under way owns the temporary name.
OneSave ==
  clean =>
    /\ data[file].is = "whole"
    /\ \A p, q \in Procs : Writing(p) /\ Writing(q) => p = q
    /\ \A p \in Procs : Writing(p) => tmp \in Files /\ proc[p].fd = tmp
    /\ \A p \in Procs : At(p, "write") => data[tmp].is = "empty"
    /\ \A p \in Procs : At(p, "rename") => data[tmp] = Whole(proc[p].new)

\* Memory and file agree, but for the password that passwd has stored.
Agree ==
  /\ data[file].cfg.devs = live.devs /\ data[file].cfg.set = live.set
  /\ data[file].cfg.hash = live.hash \/ At(Passwd, "done")

\* What a request is about to store, against what is in memory.
Derived(p) ==
  IF p = Passwd
    THEN proc[p].new.devs = live.devs /\ proc[p].new.set = live.set
    ELSE /\ proc[p].new.hash = live.hash
         /\ proc[p].tells \/ proc[p].new.devs = live.devs

\* Alone, a read-modify-write finds memory and file as it read them.
OneChange ==
  serial =>
    /\ clean
    /\ \A p, q \in Procs : Busy(p) /\ Busy(q) => p = q
    /\ hup.pc = "store" => hup.new = data[file].cfg /\ \A p \in Procs : ~Busy(p)
    /\ \A p \in Procs : Busy(p) => Derived(p)
    /\ \/ Agree
       \/ \E p \in Requests : At(p, "commit")
    /\ \A p \in Requests : At(p, "commit") => data[file].cfg = proc[p].new

IInv == TypeOK /\ PasswdSteps /\ TwoNames /\ OneSave /\ OneChange /\ LoopIsTold

------------------------------------------------------------------------------
(* Operators.                                                              *)

Request == [pc: Steps, new: Config, tells: BOOLEAN, fd: Files \union {NoFile}]

\* There is always a file that neither has the name config.toml nor is open.
LEMMA UnusedFile ==
  ASSUME TypeOK
  PROVE  Unused \in Files /\ Unused \notin Opened /\ Unused # file
<1> DEFINE W == {p \in Procs : proc[p].pc \in {"write", "rename"}}
           g == [q \in W |-> proc[q].fd]
<1>1. IsFiniteSet(Procs) /\ Cardinality(Procs) = Cardinality(Requests) + 1
  BY FS_AddElement DEF Procs
<1>2. IsFiniteSet(W) /\ Cardinality(W) <= Cardinality(Requests) + 1
  <2>1. W \in SUBSET Procs
    OBVIOUS
  <2> HIDE DEF W
  <2> QED BY <1>1, <2>1, FS_Subset
<1>3. g \in Surjection(W, Opened)
  BY DEF Surjection, Opened
<1>4. IsFiniteSet(Opened) /\ Cardinality(Opened) <= Cardinality(Requests) + 1
  <2> HIDE DEF W, g
  <2>1. IsFiniteSet(Opened) /\ Cardinality(Opened) <= Cardinality(W)
    BY <1>2, <1>3, FS_Surjection
  <2> QED BY <1>2, <2>1, FS_CardinalityType
<1>5. /\ IsFiniteSet(Opened \union {file})
      /\ Cardinality(Opened \union {file}) <= Cardinality(Requests) + 2
  <2>1. Cardinality(Opened) \in Nat /\ Cardinality(Requests) \in Nat
    BY <1>4, FS_CardinalityType
  <2>2. /\ IsFiniteSet(Opened \union {file})
        /\ \/ Cardinality(Opened \union {file}) = Cardinality(Opened)
           \/ Cardinality(Opened \union {file}) = Cardinality(Opened) + 1
    BY <1>4, FS_AddElement
  <2> QED BY <1>4, <2>1, <2>2
<1>6. ~(Files \subseteq Opened \union {file})
  <2> SUFFICES ASSUME Files \in SUBSET (Opened \union {file}) PROVE FALSE
    OBVIOUS
  <2>1. Cardinality(Files) <= Cardinality(Opened \union {file})
    BY <1>5, FS_Subset
  <2> QED BY <1>5, <2>1, FS_CardinalityType
<1>7. PICK f \in Files : f \notin Opened \union {file}
  BY <1>6
<1> QED BY <1>7 DEF Unused

LEMMA DefaultIsConfig == Default \in Config /\ Fresh \in Request
<1>1. (CHOOSE s \in Settings : TRUE) \in Settings
  OBVIOUS
<1>2. Default \in Config
  BY <1>1 DEF Default, Config
<1> QED BY <1>2 DEF Fresh, Request, Steps

LEMMA Contents ==
  /\ Emptied \in Content /\ Mixed \in Content
  /\ \A c \in Config : Whole(c) \in Content
BY DefaultIsConfig DEF Emptied, Mixed, Whole, Content

LEMMA EndedType ==
  ASSUME TypeOK, NEW p \in Procs, NEW how \in Steps
  PROVE  /\ Ended(p, how) \in [Procs -> Request]
         /\ Ended(p, how)[p].pc = how
         /\ \A q \in Procs \ {p} : Ended(p, how)[q] = proc[q]
<1> DEFINE x == [Fresh EXCEPT !.pc = how]
<1>1. x \in Request /\ x.pc = how
  BY DefaultIsConfig DEF Request, Fresh
<1>2. proc \in [Procs -> Request]
  BY DEF TypeOK, Request
<1> HIDE DEF x
<1>3. Ended(p, how) = [proc EXCEPT ![p] = x]
  BY DEF Ended, x
<1> QED BY <1>1, <1>2, <1>3

\* p goes on to its next step.
Onto(p, step) == [proc EXCEPT ![p].pc = step]

LEMMA PcType ==
  ASSUME TypeOK, NEW p \in Procs, NEW step \in Steps
  PROVE  /\ Onto(p, step) \in [Procs -> Request]
         /\ Onto(p, step)[p].pc = step /\ Onto(p, step)[p].new = proc[p].new
         /\ Onto(p, step)[p].tells = proc[p].tells /\ Onto(p, step)[p].fd = proc[p].fd
         /\ \A q \in Procs \ {p} : Onto(p, step)[q] = proc[q]
<1> DEFINE x == [proc[p] EXCEPT !.pc = step]
<1>1. proc \in [Procs -> Request]
  BY DEF TypeOK, Request
<1>2. /\ x \in Request
      /\ x.pc = step /\ x.new = proc[p].new /\ x.tells = proc[p].tells /\ x.fd = proc[p].fd
  BY <1>1 DEF Request
<1> HIDE DEF x
<1>3. Onto(p, step) = [proc EXCEPT ![p] = x]
  BY DEF Onto, x
<1> QED BY <1>1, <1>2, <1>3

------------------------------------------------------------------------------
(* Taking a copy.                                                          *)

LEMMA StartType ==
  ASSUME TypeOK, NEW p \in Procs, NEW new \in Config, NEW tells \in BOOLEAN,
         Start(p, new, tells)
  PROVE  /\ proc' \in [Procs -> Request]
         /\ proc[p].pc = "idle" /\ proc'[p].pc = "open"
         /\ proc'[p].new = new /\ proc'[p].tells = tells
         /\ \A q \in Procs \ {p} : proc'[q] = proc[q]
         /\ serial' \in BOOLEAN /\ (serial' => serial /\ Quiet)
<1> DEFINE x == [pc |-> "open", new |-> new, tells |-> tells, fd |-> NoFile]
<1>1. x \in Request /\ x.pc = "open" /\ x.new = new /\ x.tells = tells
  BY DEF Request, Steps
<1>2. proc \in [Procs -> Request] /\ proc' = [proc EXCEPT ![p] = x]
  BY DEF TypeOK, Request, Start
<1>3. serial' \in BOOLEAN /\ (serial' => serial /\ Quiet)
  BY DEF Start
<1>4. proc[p].pc = "idle"
  BY DEF Start, At
<1> HIDE DEF x
<1> QED BY <1>1, <1>2, <1>3, <1>4

LEMMA StartStep ==
  ASSUME IInv, NEW p \in Procs, NEW new \in Config, NEW tells \in BOOLEAN,
         Start(p, new, tells),
         readers' = readers \/ (p # Passwd /\ readers' = readers \union {p}),
         UNCHANGED <<live, permit, file, tmp, data, hup, seen, crashed, clean>>,
         serial /\ Quiet =>
           IF p = Passwd THEN new.devs = live.devs /\ new.set = live.set
           ELSE new.hash = live.hash /\ (tells \/ new.devs = live.devs)
  PROVE  IInv'
<1>1. TypeOK
  BY DEF IInv
<1>2. /\ proc' \in [Procs -> Request]
      /\ proc[p].pc = "idle" /\ proc'[p].pc = "open"
      /\ proc'[p].new = new /\ proc'[p].tells = tells
      /\ \A q \in Procs \ {p} : proc'[q] = proc[q]
  BY <1>1, StartType
<1>3. serial' \in BOOLEAN /\ (serial' => serial /\ Quiet)
  BY <1>1, StartType
<1>4. TypeOK'
  <2>1. readers' \subseteq {r \in Requests : proc'[r].pc \in {"open", "write", "rename"}}
    BY <1>1, <1>2 DEF TypeOK, Procs
  <2>2. \A q \in Procs : proc'[q].pc \in {"write", "rename"} => proc'[q].fd \in Files
    BY <1>1, <1>2 DEF TypeOK
  <2> QED BY <1>1, <1>2, <1>3, <2>1, <2>2 DEF TypeOK, Request
<1>5. PasswdSteps' /\ TwoNames'
  BY <1>2 DEF IInv, PasswdSteps, TwoNames, Procs
<1>6. OneSave'
  <2>1. \A q \in Procs : proc'[q].pc \in {"write", "rename"} => proc'[q] = proc[q]
    BY <1>2
  <2> QED BY <2>1 DEF IInv, OneSave, Writing, At
<1>7. OneChange'
  <2> SUFFICES ASSUME serial' PROVE OneChange'
    BY DEF OneChange
  <2>1. serial /\ Quiet
    BY <1>3
  <2>2. \A q \in Procs : Busy(q)' => q = p
    BY <1>2, <2>1 DEF Quiet, Busy
  <2>3. Derived(p)'
    BY <1>2, <2>1 DEF Derived
  <2>4. Agree
    BY <2>1 DEF IInv, OneChange, Quiet, Busy, At, Procs
  <2>5. Agree'
    <3>1. At(Passwd, "done") => At(Passwd, "done")'
      BY <1>2 DEF At, Procs
    <3> QED BY <2>4, <3>1 DEF Agree
  <2>6. \A r \in Requests : ~At(r, "commit")'
    BY <1>2, <2>1 DEF Quiet, Busy, At, Procs
  <2>7. hup'.pc # "store"
    BY <2>1 DEF Quiet
  <2> QED BY <2>1, <2>2, <2>3, <2>5, <2>6, <2>7 DEF IInv, OneChange
<1>8. LoopIsTold'
  <2>1. \A r \in Requests : At(r, "notify") => At(r, "notify")'
    BY <1>2 DEF At, Procs
  <2> QED BY <1>3, <2>1 DEF IInv, LoopIsTold
<1> QED BY <1>4, <1>5, <1>6, <1>7, <1>8 DEF IInv

LEMMA HandlerStep ==
  ASSUME IInv, NEW r \in Requests, Handler(r)
  PROVE  IInv'
<1>1. r \in Procs /\ r # Passwd /\ live \in Config
  BY DEF Procs, IInv, TypeOK
<1>2. CASE AddDevice(r)
  <2>1. PICK m \in Macs : Start(r, [live EXCEPT !.devs = live.devs \union {m}], TRUE)
    BY <1>2 DEF AddDevice
  <2>2. [live EXCEPT !.devs = live.devs \union {m}] \in Config
    BY <1>1 DEF Config
  <2>3. [live EXCEPT !.devs = live.devs \union {m}].hash = live.hash
    BY <1>1 DEF Config
  <2> QED BY <1>1, <1>2, <2>1, <2>2, <2>3, StartStep DEF AddDevice
<1>3. CASE RemoveDevice(r)
  <2>1. PICK m \in live.devs : Start(r, [live EXCEPT !.devs = live.devs \ {m}], TRUE)
    BY <1>3 DEF RemoveDevice
  <2>2. [live EXCEPT !.devs = live.devs \ {m}] \in Config
    BY <1>1 DEF Config
  <2>3. [live EXCEPT !.devs = live.devs \ {m}].hash = live.hash
    BY <1>1 DEF Config
  <2> QED BY <1>1, <1>3, <2>1, <2>2, <2>3, StartStep DEF RemoveDevice
<1>4. CASE UpdateDevice(r)
  <2>1. PICK s \in Settings : Start(r, [live EXCEPT !.set = s], TRUE)
    BY <1>4 DEF UpdateDevice
  <2>2. [live EXCEPT !.set = s] \in Config
    BY <1>1 DEF Config
  <2>3. [live EXCEPT !.set = s].hash = live.hash
    BY <1>1 DEF Config
  <2> QED BY <1>1, <1>4, <2>1, <2>2, <2>3, StartStep DEF UpdateDevice
<1>5. CASE PutConfig(r)
  <2>1. PICK D \in SUBSET Macs, s \in Settings, tells \in BOOLEAN :
          /\ tells \in Differ(live.devs, D)
          /\ Start(r, [live EXCEPT !.devs = D, !.set = s], tells)
    BY <1>5 DEF PutConfig, Differ
  <2>2. [live EXCEPT !.devs = D, !.set = s] \in Config
    BY <1>1 DEF Config
  <2>3. /\ [live EXCEPT !.devs = D, !.set = s].hash = live.hash
        /\ [live EXCEPT !.devs = D, !.set = s].devs = D
    BY <1>1 DEF Config
  <2>4. PICK new \in Config : new = [live EXCEPT !.devs = D, !.set = s]
    BY <2>2
  <2>5. tells \/ D = live.devs
    BY <2>1 DEF Differ
  <2>6. Start(r, new, tells)
    BY <2>1, <2>4
  <2>7. new.hash = live.hash /\ (tells \/ new.devs = live.devs)
    BY <2>3, <2>4, <2>5
  <2> QED BY <1>1, <1>5, <2>6, <2>7, StartStep DEF PutConfig
<1> QED BY <1>2, <1>3, <1>4, <1>5 DEF Handler

LEMMA SetPasswordStep ==
  ASSUME IInv, SetPassword
  PROVE  IInv'
<1>1. Passwd \in Procs /\ data[file].cfg \in Config
  BY DEF Procs, IInv, TypeOK, Content
<1>2. PICK new \in Config : new = [data[file].cfg EXCEPT !.hash = "new"]
  <2>1. [data[file].cfg EXCEPT !.hash = "new"] \in Config
    BY <1>1 DEF Config
  <2> QED BY <2>1
<1>3. new.devs = data[file].cfg.devs /\ new.set = data[file].cfg.set
  BY <1>1, <1>2 DEF Config
<1>4. Start(Passwd, new, FALSE)
  BY <1>2 DEF SetPassword
<1>5. serial /\ Quiet => Agree
  BY DEF IInv, OneChange, Quiet, Busy, At, Procs
<1>6. serial /\ Quiet => new.devs = live.devs /\ new.set = live.set
  BY <1>3, <1>5 DEF Agree
<1> QED BY <1>1, <1>4, <1>6, StartStep DEF SetPassword

------------------------------------------------------------------------------
(* Saving.                                                                 *)

LEMMA DataType ==
  ASSUME TypeOK, NEW f \in Files, NEW c \in Content
  PROVE  LET d == [data EXCEPT ![f] = c] IN
           d \in [Files -> Content] /\ d[f] = c /\ \A h \in Files \ {f} : d[h] = data[h]
BY DEF TypeOK

LEMMA OpenStep ==
  ASSUME IInv, NEW p \in Procs, Open(p)
  PROVE  IInv'
<1>1. TypeOK
  BY DEF IInv
<1>2. PICK f \in Files : /\ f = IF tmp = NoFile THEN Unused ELSE tmp
                         /\ f # file
  BY <1>1, UnusedFile DEF IInv, TypeOK, TwoNames
<1>3. /\ data' = [data EXCEPT ![f] = Emptied] /\ tmp' = f
      /\ proc' = [proc EXCEPT ![p].pc = "write", ![p].fd = f]
      /\ proc[p].pc = "open"
      /\ UNCHANGED <<live, readers, permit, file, hup, seen, crashed, serial>>
  BY <1>2 DEF Open, At
<1>4. clean' \in BOOLEAN /\ (clean' => clean /\ Opened = {})
  BY DEF Open
<1>5. data' \in [Files -> Content] /\ data'[f] = Emptied /\ data'[file] = data[file]
  BY <1>1, <1>2, <1>3, DataType, Contents DEF TypeOK
<1>6. /\ proc' \in [Procs -> Request]
      /\ proc'[p].pc = "write" /\ proc'[p].fd = f
      /\ proc'[p].new = proc[p].new /\ proc'[p].tells = proc[p].tells
      /\ \A q \in Procs \ {p} : proc'[q] = proc[q]
  <2> DEFINE x == [proc[p] EXCEPT !.pc = "write", !.fd = f]
  <2>1. proc \in [Procs -> Request]
    BY <1>1 DEF TypeOK, Request
  <2>2. /\ x \in Request
        /\ x.pc = "write" /\ x.fd = f /\ x.new = proc[p].new /\ x.tells = proc[p].tells
    BY <2>1 DEF Request, Steps
  <2>3. proc' = [proc EXCEPT ![p] = x]
    BY <1>3, <2>1 DEF Request
  <2> HIDE DEF x
  <2> QED BY <2>1, <2>2, <2>3
<1>7. TypeOK'
  <2>1. readers' \subseteq {r \in Requests : proc'[r].pc \in {"open", "write", "rename"}}
    BY <1>1, <1>3, <1>6 DEF TypeOK, Procs
  <2>2. \A q \in Procs : proc'[q].pc \in {"write", "rename"} => proc'[q].fd \in Files
    BY <1>1, <1>6 DEF TypeOK
  <2> QED BY <1>1, <1>3, <1>4, <1>5, <1>6, <2>1, <2>2 DEF TypeOK, Request
<1>8. PasswdSteps' /\ TwoNames'
  BY <1>2, <1>3, <1>6 DEF IInv, PasswdSteps, TwoNames, Procs
<1>9. OneSave'
  <2> SUFFICES ASSUME clean' PROVE OneSave'
    BY DEF OneSave
  <2>1. \A q \in Procs : proc[q].pc \notin {"write", "rename"}
    BY <1>4 DEF Opened
  <2>2. \A q \in Procs : proc'[q].pc \in {"write", "rename"} => q = p
    BY <1>6, <2>1
  <2>3. data'[file'].is = "whole" /\ data'[tmp'].is = "empty"
    BY <1>3, <1>4, <1>5 DEF IInv, OneSave, Emptied
  <2> QED BY <1>3, <1>6, <2>2, <2>3 DEF OneSave, Writing, At
<1>10. OneChange'
  <2> SUFFICES ASSUME serial' PROVE OneChange'
    BY DEF OneChange
  <2>1. serial /\ Busy(p)
    BY <1>3 DEF Busy
  <2>2. \A q \in Procs : Busy(q) => q = p
    BY <2>1 DEF IInv, OneChange
  <2>3. Opened = {}
    BY <1>3, <2>2 DEF Opened, Busy
  <2>4. clean'
    BY <2>1, <2>3 DEF IInv, OneChange, Open
  <2>5. hup.pc # "store" /\ Derived(p) /\ \A r \in Requests : proc[r].pc # "commit"
    BY <1>3, <2>1, <2>2 DEF IInv, OneChange, Busy, Procs
  <2>6. Agree
    BY <2>1, <2>5 DEF IInv, OneChange, At
  <2>7. \A q \in Procs : Busy(q)' => q = p
    BY <1>6, <2>2 DEF Busy
  <2>8. Derived(p)'
    BY <1>3, <1>6, <2>5 DEF Derived
  <2>9. Agree'
    <3>1. At(Passwd, "done") => At(Passwd, "done")'
      BY <1>3, <1>6 DEF At, Procs
    <3> QED BY <1>3, <1>5, <2>6, <3>1 DEF Agree
  <2>10. \A r \in Requests : ~At(r, "commit")'
    BY <1>6, <2>5 DEF At, Procs
  <2> QED BY <1>3, <2>4, <2>5, <2>7, <2>8, <2>9, <2>10 DEF OneChange
<1>11. LoopIsTold'
  <2>1. \A r \in Requests : At(r, "notify") => At(r, "notify")'
    BY <1>3, <1>6 DEF At, Procs
  <2> QED BY <1>3, <2>1 DEF IInv, LoopIsTold
<1> QED BY <1>7, <1>8, <1>9, <1>10, <1>11 DEF IInv

LEMMA WriteStep ==
  ASSUME IInv, NEW p \in Procs, Write(p)
  PROVE  IInv'
<1>1. TypeOK /\ proc[p].pc = "write" /\ proc[p].new \in Config
  BY DEF IInv, TypeOK, Write, At
<1>2. PICK f \in Files : f = proc[p].fd
  BY <1>1 DEF TypeOK
<1>3. /\ proc' = [proc EXCEPT ![p].pc = "rename"]
      /\ UNCHANGED <<live, readers, permit, file, tmp, hup, seen, crashed, clean, serial>>
  BY DEF Write
<1>4. PICK c \in Content : /\ data' = [data EXCEPT ![f] = c]
                           /\ c = Whole(proc[p].new) \/ data[f].is # "empty"
  BY <1>1, <1>2, Contents DEF Write
<1>5. data' \in [Files -> Content] /\ data'[f] = c /\ \A h \in Files \ {f} : data'[h] = data[h]
  <2>1. data \in [Files -> Content]
    BY <1>1 DEF TypeOK
  <2> QED BY <1>4, <2>1
<1>6. /\ proc' \in [Procs -> Request]
      /\ proc'[p].pc = "rename" /\ proc'[p].fd = f
      /\ proc'[p].new = proc[p].new /\ proc'[p].tells = proc[p].tells
      /\ \A q \in Procs \ {p} : proc'[q] = proc[q]
  <2>1. proc' = Onto(p, "rename") /\ "rename" \in Steps
    BY <1>3 DEF Onto, Steps
  <2> QED BY <1>1, <1>2, <2>1, PcType
<1>7. TypeOK'
  <2>1. readers' \subseteq {r \in Requests : proc'[r].pc \in {"open", "write", "rename"}}
    BY <1>1, <1>3, <1>6 DEF TypeOK, Procs
  <2>2. \A q \in Procs : proc'[q].pc \in {"write", "rename"} => proc'[q].fd \in Files
    BY <1>1, <1>6 DEF TypeOK
  <2> QED BY <1>1, <1>3, <1>5, <1>6, <2>1, <2>2 DEF TypeOK, Request
<1>8. PasswdSteps' /\ TwoNames'
  BY <1>3, <1>6 DEF IInv, PasswdSteps, TwoNames, Procs
<1>9. ASSUME clean
      PROVE  /\ tmp = f /\ f # file /\ c = Whole(proc[p].new)
             /\ \A q \in Procs \ {p} : proc[q].pc \notin {"write", "rename"}
  BY <1>1, <1>2, <1>4, <1>9 DEF IInv, OneSave, Writing, At, TwoNames
<1>10. OneSave'
  <2> SUFFICES ASSUME clean PROVE OneSave'
    BY <1>3 DEF OneSave
  <2>1. data'[file'].is = "whole" /\ data'[tmp'] = Whole(proc'[p].new)
    BY <1>1, <1>3, <1>5, <1>6, <1>9 DEF IInv, OneSave, TypeOK
  <2>2. \A q \in Procs : proc'[q].pc \in {"write", "rename"} => q = p
    BY <1>6, <1>9
  <2> QED BY <1>3, <1>6, <1>9, <2>1, <2>2 DEF OneSave, Writing, At
<1>11. OneChange'
  <2> SUFFICES ASSUME serial PROVE OneChange'
    BY <1>3 DEF OneChange
  <2>1. Busy(p) /\ clean
    BY <1>1 DEF Busy, IInv, OneChange
  <2>2. \A q \in Procs : Busy(q) => q = p
    BY <2>1 DEF IInv, OneChange
  <2>3. hup.pc # "store" /\ Derived(p) /\ \A r \in Requests : proc[r].pc # "commit"
    BY <1>1, <2>1, <2>2 DEF IInv, OneChange, Busy, Procs
  <2>4. Agree
    BY <2>3 DEF IInv, OneChange, At
  <2>5. \A q \in Procs : Busy(q)' => q = p
    BY <1>6, <2>2 DEF Busy
  <2>6. Derived(p)'
    BY <1>3, <1>6, <2>3 DEF Derived
  <2>7. Agree'
    <3>1. At(Passwd, "done") => At(Passwd, "done")'
      BY <1>1, <1>6 DEF At, Procs
    <3>2. data'[file'] = data[file]
      BY <1>1, <1>3, <1>5, <1>9, <2>1 DEF TypeOK
    <3> QED BY <1>3, <2>4, <3>1, <3>2 DEF Agree
  <2>8. \A r \in Requests : ~At(r, "commit")'
    BY <1>6, <2>3 DEF At, Procs
  <2> QED BY <1>3, <2>1, <2>3, <2>5, <2>6, <2>7, <2>8 DEF OneChange
<1>12. LoopIsTold'
  <2>1. \A r \in Requests : At(r, "notify") => At(r, "notify")'
    BY <1>1, <1>6 DEF At, Procs
  <2> QED BY <1>3, <2>1 DEF IInv, LoopIsTold
<1> QED BY <1>7, <1>8, <1>10, <1>11, <1>12 DEF IInv

\* A save that fails leaves config.toml as it was.
LEMMA FailStep ==
  ASSUME IInv, NEW p \in Procs, WriteFails(p) \/ RenameFails(p)
  PROVE  IInv'
<1>1. TypeOK /\ proc[p].pc \in {"write", "rename"}
  BY DEF IInv, WriteFails, RenameFails, At
<1>2. PICK f \in Files : f = proc[p].fd
  BY <1>1 DEF TypeOK
<1>3. /\ proc' = Ended(p, "failed") /\ readers' = readers \ {p}
      /\ UNCHANGED <<live, permit, file, tmp, hup, seen, crashed, clean, serial>>
  BY DEF WriteFails, RenameFails, Release
<1>4. data' \in [Files -> Content] /\ \A h \in Files \ {f} : data'[h] = data[h]
  <2>1. data' = data \/ data' = [data EXCEPT ![f] = Mixed]
    BY <1>2 DEF WriteFails, RenameFails
  <2>2. data \in [Files -> Content] /\ Mixed \in Content
    BY <1>1, Contents DEF TypeOK
  <2> QED BY <2>1, <2>2
<1>5. /\ proc' \in [Procs -> Request] /\ proc'[p].pc = "failed"
      /\ \A q \in Procs \ {p} : proc'[q] = proc[q]
  BY <1>1, <1>3, EndedType DEF Steps
<1>6. TypeOK'
  <2>1. readers' \subseteq {r \in Requests : proc'[r].pc \in {"open", "write", "rename"}}
    BY <1>1, <1>3, <1>5 DEF TypeOK, Procs
  <2>2. \A q \in Procs : proc'[q].pc \in {"write", "rename"} => proc'[q].fd \in Files
    BY <1>1, <1>5 DEF TypeOK
  <2> QED BY <1>1, <1>3, <1>4, <1>5, <2>1, <2>2 DEF TypeOK, Request
<1>7. PasswdSteps' /\ TwoNames'
  BY <1>3, <1>5 DEF IInv, PasswdSteps, TwoNames, Procs
<1>8. ASSUME clean
      PROVE  /\ data'[file] = data[file]
             /\ \A q \in Procs \ {p} : proc[q].pc \notin {"write", "rename"}
  BY <1>1, <1>2, <1>4, <1>8 DEF IInv, OneSave, Writing, TwoNames, TypeOK
<1>9. OneSave'
  <2> SUFFICES ASSUME clean PROVE OneSave'
    BY <1>3 DEF OneSave
  <2>1. data'[file'].is = "whole"
    BY <1>3, <1>8 DEF IInv, OneSave
  <2>2. \A q \in Procs : proc'[q].pc \notin {"write", "rename"}
    BY <1>5, <1>8
  <2> QED BY <2>1, <2>2 DEF OneSave, Writing, At
<1>10. OneChange'
  <2> SUFFICES ASSUME serial PROVE OneChange'
    BY <1>3 DEF OneChange
  <2>1. Busy(p) /\ clean
    BY <1>1 DEF Busy, IInv, OneChange
  <2>2. \A q \in Procs : Busy(q) => q = p
    BY <2>1 DEF IInv, OneChange
  <2>3. hup.pc # "store" /\ \A r \in Requests : proc[r].pc # "commit"
    BY <1>1, <2>1, <2>2 DEF IInv, OneChange, Busy, Procs
  <2>4. Agree
    BY <2>3 DEF IInv, OneChange, At
  <2>5. \A q \in Procs : ~Busy(q)'
    BY <1>5, <2>2 DEF Busy
  <2>6. Agree'
    <3>1. At(Passwd, "done") => At(Passwd, "done")'
      BY <1>1, <1>5 DEF At, Procs
    <3> QED BY <1>3, <1>8, <2>1, <2>4, <3>1 DEF Agree
  <2>7. \A r \in Requests : ~At(r, "commit")'
    BY <1>5, <2>3 DEF At, Procs
  <2> QED BY <1>3, <2>1, <2>3, <2>5, <2>6, <2>7 DEF OneChange
<1>11. LoopIsTold'
  <2>1. \A r \in Requests : At(r, "notify") => At(r, "notify")'
    BY <1>1, <1>5 DEF At, Procs
  <2> QED BY <1>3, <2>1 DEF IInv, LoopIsTold
<1> QED BY <1>6, <1>7, <1>9, <1>10, <1>11 DEF IInv

\* A rename gives config.toml what the one save under way has written.
LEMMA RenameStep ==
  ASSUME IInv, NEW p \in Procs, Rename(p) \/ ChmodFails(p)
  PROVE  IInv'
<1>1. TypeOK /\ proc[p].pc = "rename"
  BY DEF IInv, Rename, ChmodFails, At
<1>2. PICK f \in Files : f = tmp
  BY <1>1 DEF TypeOK, Rename, ChmodFails, Moved
<1>3. /\ file' = f /\ tmp' = NoFile /\ readers' = readers \ {p}
      /\ data' = [data EXCEPT ![file] = Emptied]
      /\ UNCHANGED <<live, permit, hup, seen, crashed, clean>>
  BY <1>2 DEF Rename, ChmodFails, Moved, Release
<1>4. serial' \in BOOLEAN /\ (serial' => serial /\ Rename(p))
  <2>1. CASE Rename(p)
    <3>1. serial' = serial
      BY <2>1 DEF Rename
    <3> QED BY <1>1, <2>1, <3>1 DEF TypeOK
  <2>2. CASE ChmodFails(p)
    <3>1. ~serial' /\ serial' \in BOOLEAN
      BY <2>2 DEF ChmodFails
    <3> QED BY <3>1
  <2> QED BY <2>1, <2>2
<1>5. /\ data' \in [Files -> Content]
      /\ file # f /\ \A h \in Files \ {file} : data'[h] = data[h]
  <2>1. data \in [Files -> Content] /\ Emptied \in Content
    BY <1>1, Contents DEF TypeOK
  <2> QED BY <1>2, <1>3, <2>1 DEF IInv, TwoNames
<1>6. \/ /\ p # Passwd /\ proc' = [proc EXCEPT ![p].pc = "commit"]
      \/ proc' = Ended(p, "done") \/ proc' = Ended(p, "failed")
  BY DEF Rename, ChmodFails
<1>7. /\ proc' \in [Procs -> Request]
      /\ proc'[p].pc = "commit" => p # Passwd
      /\ proc'[p].pc \in {"commit", "done", "failed"}
      /\ \A q \in Procs \ {p} : proc'[q] = proc[q]
  <2>1. CASE p # Passwd /\ proc' = [proc EXCEPT ![p].pc = "commit"]
    <3>1. proc' = Onto(p, "commit") /\ "commit" \in Steps
      BY <2>1 DEF Onto, Steps
    <3>2. proc' \in [Procs -> Request] /\ proc'[p].pc = "commit"
      BY <1>1, <3>1, PcType
    <3>3. \A q \in Procs \ {p} : proc'[q] = proc[q]
      BY <1>1, <3>1, PcType
    <3> QED BY <2>1, <3>2, <3>3
  <2>2. CASE proc' = Ended(p, "done")
    BY <1>1, <2>2, EndedType DEF Steps
  <2>3. CASE proc' = Ended(p, "failed")
    BY <1>1, <2>3, EndedType DEF Steps
  <2> QED BY <1>6, <2>1, <2>2, <2>3
<1>8. TypeOK'
  <2>1. readers' \subseteq {r \in Requests : proc'[r].pc \in {"open", "write", "rename"}}
    BY <1>1, <1>3, <1>7 DEF TypeOK, Procs
  <2>2. \A q \in Procs : proc'[q].pc \in {"write", "rename"} => proc'[q].fd \in Files
    BY <1>1, <1>7 DEF TypeOK
  <2> QED BY <1>1, <1>3, <1>4, <1>5, <1>7, <2>1, <2>2 DEF TypeOK, Request
<1>9. PasswdSteps' /\ TwoNames'
  BY <1>3, <1>7 DEF IInv, PasswdSteps, TwoNames, Procs
<1>10. ASSUME clean
       PROVE  /\ data'[f] = Whole(proc[p].new)
              /\ \A q \in Procs \ {p} : proc[q].pc \notin {"write", "rename"}
  BY <1>1, <1>2, <1>5, <1>10 DEF IInv, OneSave, Writing, At
<1>11. OneSave'
  <2> SUFFICES ASSUME clean PROVE OneSave'
    BY <1>3 DEF OneSave
  <2>1. data'[file'].is = "whole"
    BY <1>3, <1>10 DEF Whole
  <2>2. \A q \in Procs : proc'[q].pc \notin {"write", "rename"}
    BY <1>7, <1>10
  <2> QED BY <2>1, <2>2 DEF OneSave, Writing, At
<1>12. OneChange'
  <2> SUFFICES ASSUME serial' PROVE OneChange'
    BY DEF OneChange
  <2>1. serial /\ Busy(p) /\ clean /\ Rename(p)
    BY <1>1, <1>4 DEF Busy, IInv, OneChange
  <2>2. \A q \in Procs : Busy(q) => q = p
    BY <2>1 DEF IInv, OneChange
  <2>3. hup.pc # "store" /\ Derived(p)
    BY <2>1 DEF IInv, OneChange
  <2>4. data'[file'].cfg = proc[p].new
    BY <1>3, <1>10, <2>1 DEF Whole
  <2>5. CASE p = Passwd
    <3>1. proc' = Ended(Passwd, "done")
      BY <2>1, <2>5 DEF Rename
    <3>2. proc'[Passwd].pc = "done"
      BY <1>1, <2>5, <3>1, EndedType DEF Steps
    <3>3. Agree'
      BY <1>3, <2>3, <2>4, <2>5, <3>2 DEF Derived, Agree, At
    <3>4. \A q \in Procs : ~Busy(q)'
      BY <1>7, <2>2, <2>5, <3>2 DEF Busy
    <3>5. \A r \in Requests : ~At(r, "commit")'
      BY <3>4 DEF Busy, At, Procs
    <3> QED BY <1>3, <2>1, <2>3, <3>3, <3>4, <3>5 DEF OneChange
  <2>6. CASE p # Passwd
    <3>1. proc' = [proc EXCEPT ![p].pc = "commit"]
      BY <2>1, <2>6 DEF Rename
    <3>2. /\ proc'[p].pc = "commit" /\ proc'[p].new = proc[p].new
          /\ proc'[p].tells = proc[p].tells
      <4>1. proc' = Onto(p, "commit") /\ "commit" \in Steps
        BY <3>1 DEF Onto, Steps
      <4> QED BY <1>1, <4>1, PcType
    <3>3. \A q \in Procs : Busy(q)' => q = p
      BY <1>7, <2>2 DEF Busy
    <3>4. Derived(p)'
      BY <1>3, <2>3, <2>6, <3>2 DEF Derived
    <3>5. \A r \in Requests : At(r, "commit")' => data'[file'].cfg = proc'[r].new
      BY <2>4, <3>2, <3>3 DEF At, Busy, Procs
    <3>6. \E r \in Requests : At(r, "commit")'
      BY <2>6, <3>2 DEF At, Procs
    <3> QED BY <1>3, <2>1, <2>3, <3>3, <3>4, <3>5, <3>6 DEF OneChange
  <2> QED BY <2>5, <2>6
<1>13. LoopIsTold'
  <2>1. \A r \in Requests : At(r, "notify") => At(r, "notify")'
    BY <1>1, <1>7 DEF At, Procs
  <2> QED BY <1>3, <1>4, <2>1 DEF IInv, LoopIsTold
<1> QED BY <1>8, <1>9, <1>11, <1>12, <1>13 DEF IInv

------------------------------------------------------------------------------
(* Replacing the copy in memory.                                           *)

LEMMA CommitStep ==
  ASSUME IInv, NEW p \in Procs, Commit(p)
  PROVE  IInv'
<1>1. TypeOK /\ proc[p].pc = "commit" /\ p # Passwd /\ p \in Requests
  BY DEF IInv, Commit, At, PasswdSteps, Procs
<1>2. /\ live' = proc[p].new
      /\ UNCHANGED <<readers, permit, file, tmp, data, hup, seen, crashed, clean, serial>>
  BY DEF Commit
<1>3. /\ proc' \in [Procs -> Request]
      /\ proc'[p].pc \in {"notify", "done"}
      /\ proc[p].tells => proc'[p].pc = "notify"
      /\ \A q \in Procs \ {p} : proc'[q] = proc[q]
  <2>1. CASE proc[p].tells
    <3>1. proc' = [proc EXCEPT ![p].pc = "notify"]
      BY <2>1 DEF Commit
    <3>2. proc' = Onto(p, "notify") /\ "notify" \in Steps
      BY <3>1 DEF Onto, Steps
    <3>3. proc' \in [Procs -> Request] /\ proc'[p].pc = "notify"
      BY <1>1, <3>2, PcType
    <3>4. \A q \in Procs \ {p} : proc'[q] = proc[q]
      BY <1>1, <3>2, PcType
    <3> QED BY <3>3, <3>4
  <2>2. CASE ~proc[p].tells
    <3>1. proc' = Ended(p, "done")
      BY <2>2 DEF Commit
    <3> QED BY <1>1, <2>2, <3>1, EndedType DEF Steps
  <2> QED BY <2>1, <2>2
<1>4. TypeOK'
  <2>1. readers' \subseteq {r \in Requests : proc'[r].pc \in {"open", "write", "rename"}}
    BY <1>1, <1>2, <1>3 DEF TypeOK, Procs
  <2>2. \A q \in Procs : proc'[q].pc \in {"write", "rename"} => proc'[q].fd \in Files
    BY <1>1, <1>3 DEF TypeOK
  <2>3. live' \in Config
    BY <1>1, <1>2 DEF TypeOK
  <2> QED BY <1>1, <1>2, <1>3, <2>1, <2>2, <2>3 DEF TypeOK, Request
<1>5. PasswdSteps' /\ TwoNames'
  BY <1>1, <1>2, <1>3 DEF IInv, PasswdSteps, TwoNames, Procs
<1>6. OneSave'
  <2>1. \A q \in Procs : proc'[q].pc \in {"write", "rename"} => proc'[q] = proc[q]
    BY <1>3
  <2> QED BY <1>2, <2>1 DEF IInv, OneSave, Writing, At
<1>7. OneChange'
  <2> SUFFICES ASSUME serial PROVE OneChange'
    BY <1>2 DEF OneChange
  <2>1. Busy(p) /\ clean
    BY <1>1 DEF Busy, IInv, OneChange
  <2>2. \A q \in Procs : Busy(q) => q = p
    BY <2>1 DEF IInv, OneChange
  <2>3. hup.pc # "store" /\ data[file].cfg = proc[p].new
    BY <1>1, <2>1 DEF IInv, OneChange, At
  <2>4. \A q \in Procs : ~Busy(q)'
    BY <1>3, <2>2 DEF Busy
  <2>5. Agree'
    BY <1>2, <2>3 DEF Agree
  <2>6. \A r \in Requests : ~At(r, "commit")'
    BY <2>4 DEF Busy, At, Procs
  <2> QED BY <1>2, <2>1, <2>3, <2>4, <2>5, <2>6 DEF OneChange
<1>8. LoopIsTold'
  <2> SUFFICES ASSUME serial, seen # live'.devs
               PROVE  permit \/ \E r \in Requests : At(r, "notify")'
    BY <1>2 DEF LoopIsTold
  <2>1. CASE proc[p].tells
    BY <1>1, <1>3, <2>1 DEF At
  <2>2. CASE ~proc[p].tells
    <3>1. Busy(p)
      BY <1>1 DEF Busy
    <3>2. Derived(p)
      BY <3>1 DEF IInv, OneChange
    <3>3. live'.devs = live.devs
      BY <1>1, <1>2, <2>2, <3>2 DEF Derived
    <3>4. permit \/ \E r \in Requests : At(r, "notify")
      BY <3>3 DEF IInv, LoopIsTold
    <3>5. \A r \in Requests : At(r, "notify") => At(r, "notify")'
      BY <1>1, <1>3 DEF At, Procs
    <3> QED BY <3>4, <3>5
  <2> QED BY <2>1, <2>2
<1> QED BY <1>4, <1>5, <1>6, <1>7, <1>8 DEF IInv

LEMMA NotifyStep ==
  ASSUME IInv, NEW p \in Procs, Notify(p)
  PROVE  IInv'
<1>1. TypeOK /\ proc[p].pc = "notify" /\ p # Passwd
  BY DEF IInv, Notify, At, PasswdSteps
<1>2. UNCHANGED <<live, readers, file, tmp, data, hup, seen, crashed, clean, serial>>
  BY DEF Notify
<1>3. permit' \in BOOLEAN /\ permit'
  BY DEF Notify
<1>4. /\ proc' \in [Procs -> Request]
      /\ proc'[p].pc = "done"
      /\ \A q \in Procs \ {p} : proc'[q] = proc[q]
  BY <1>1, EndedType DEF Notify, Steps
<1>5. TypeOK'
  <2>1. readers' \subseteq {r \in Requests : proc'[r].pc \in {"open", "write", "rename"}}
    BY <1>1, <1>2, <1>4 DEF TypeOK, Procs
  <2>2. \A q \in Procs : proc'[q].pc \in {"write", "rename"} => proc'[q].fd \in Files
    BY <1>1, <1>4 DEF TypeOK
  <2> QED BY <1>1, <1>2, <1>3, <1>4, <2>1, <2>2 DEF TypeOK, Request
<1>6. PasswdSteps' /\ TwoNames'
  BY <1>1, <1>2, <1>4 DEF IInv, PasswdSteps, TwoNames, Procs
<1>7. OneSave'
  <2>1. \A q \in Procs : proc'[q].pc \in {"write", "rename"} => proc'[q] = proc[q]
    BY <1>4
  <2> QED BY <1>2, <2>1 DEF IInv, OneSave, Writing, At
<1>8. OneChange'
  <2>1. \A q \in Procs : /\ Busy(q)' => Busy(q) /\ proc'[q] = proc[q]
                        /\ At(q, "commit")' <=> At(q, "commit")
    BY <1>1, <1>4 DEF Busy, At
  <2>2. proc'[Passwd] = proc[Passwd]
    BY <1>1, <1>4 DEF Procs
  <2> QED BY <1>2, <1>4, <2>1, <2>2 DEF IInv, OneChange, Busy, Agree, Derived, At, Procs
<1>9. LoopIsTold'
  BY <1>3 DEF LoopIsTold
<1> QED BY <1>5, <1>6, <1>7, <1>8, <1>9 DEF IInv

------------------------------------------------------------------------------
(* The main loop, and a crash.                                             *)

LEMMA LoopStep ==
  ASSUME IInv, TakePermit \/ HupLoad \/ HupStore
  PROVE  IInv'
<1>1. TypeOK
  BY DEF IInv
<1>2. CASE TakePermit
  <2>1. permit' \in BOOLEAN
    BY <1>2 DEF TakePermit
  <2>2. /\ UNCHANGED <<live, readers, file, tmp, data, proc, hup, crashed, clean, serial>>
        /\ seen' = live.devs
    BY <1>2 DEF TakePermit
  <2>3. TypeOK'
    BY <1>1, <2>1, <2>2 DEF TypeOK, Config
  <2>4. LoopIsTold'
    BY <2>2 DEF LoopIsTold
  <2> QED BY <2>2, <2>3, <2>4
      DEF IInv, PasswdSteps, TwoNames, OneSave, OneChange, Writing, At, Busy, Agree, Derived
<1>3. CASE HupLoad
  <2>1. UNCHANGED <<live, readers, permit, file, tmp, data, proc, seen, crashed, clean>>
    BY <1>3 DEF HupLoad
  <2>2. serial' \in BOOLEAN /\ (serial' => serial /\ Quiet)
    BY <1>3 DEF HupLoad
  <2>3. /\ hup' \in [pc: {"idle", "store", "done"}, new: Config]
        /\ hup'.pc = "store" => hup'.new = data[file].cfg
    <3>1. data[file].cfg \in Config
      BY <1>1 DEF TypeOK, Content
    <3> QED BY <1>3, <3>1, DefaultIsConfig DEF HupLoad
  <2>4. TypeOK'
    BY <1>1, <2>1, <2>2, <2>3 DEF TypeOK
  <2>5. PasswdSteps' /\ TwoNames' /\ OneSave'
    BY <2>1 DEF IInv, PasswdSteps, TwoNames, OneSave, Writing, At
  <2>6. OneChange'
    <3> SUFFICES ASSUME serial' PROVE OneChange'
      BY DEF OneChange
    <3>1. serial /\ \A q \in Procs : ~Busy(q)
      BY <2>2 DEF Quiet
    <3>2. Agree /\ clean
      BY <3>1 DEF IInv, OneChange, Busy, At, Procs
    <3>3. Agree' /\ clean' /\ \A q \in Procs : ~Busy(q)'
      BY <2>1, <3>1, <3>2 DEF Agree, At, Busy
    <3>4. \A r \in Requests : ~At(r, "commit")'
      BY <2>1, <3>1 DEF Busy, At, Procs
    <3> QED BY <2>1, <2>3, <3>3, <3>4 DEF OneChange
  <2>7. LoopIsTold'
    BY <2>1, <2>2 DEF IInv, LoopIsTold, At
  <2> QED BY <2>4, <2>5, <2>6, <2>7 DEF IInv
<1>4. CASE HupStore
  <2>1. /\ hup.pc = "store" /\ live' = hup.new /\ seen' = hup.new.devs
        /\ hup' = [pc |-> "done", new |-> Default]
        /\ UNCHANGED <<readers, permit, file, tmp, data, proc, crashed, clean, serial>>
    BY <1>4 DEF HupStore
  <2>2. TypeOK'
    <3>1. hup' \in [pc: {"idle", "store", "done"}, new: Config]
      BY <2>1, DefaultIsConfig
    <3>2. live' \in Config /\ seen' \subseteq Macs
      BY <1>1, <2>1 DEF TypeOK, Config
    <3> QED BY <1>1, <2>1, <3>1, <3>2 DEF TypeOK
  <2>3. PasswdSteps' /\ TwoNames' /\ OneSave'
    BY <2>1 DEF IInv, PasswdSteps, TwoNames, OneSave, Writing, At
  <2>4. OneChange'
    <3> SUFFICES ASSUME serial PROVE OneChange'
      BY <2>1 DEF OneChange
    <3>1. hup.new = data[file].cfg /\ clean /\ \A q \in Procs : ~Busy(q)
      BY <2>1 DEF IInv, OneChange
    <3>2. \A q \in Procs : ~Busy(q)'
      BY <2>1, <3>1 DEF Busy
    <3>3. \A r \in Requests : ~At(r, "commit")'
      BY <3>2 DEF Busy, At, Procs
    <3>4. Agree'
      BY <2>1, <3>1 DEF Agree
    <3> QED BY <2>1, <3>1, <3>2, <3>3, <3>4 DEF OneChange
  <2>5. LoopIsTold'
    BY <2>1 DEF LoopIsTold
  <2> QED BY <2>2, <2>3, <2>4, <2>5 DEF IInv
<1> QED BY <1>2, <1>3, <1>4

LEMMA CrashStep ==
  ASSUME IInv, Crash
  PROVE  IInv'
<1>1. TypeOK
  BY DEF IInv
<1>2. /\ live' = data[file].cfg /\ seen' = live'.devs /\ readers' = {}
      /\ hup' = [pc |-> "done", new |-> Default]
      /\ UNCHANGED <<file, tmp, data, clean, serial>>
  BY DEF Crash
<1>3. permit' \in BOOLEAN /\ crashed' \in BOOLEAN
  BY DEF Crash
<1>4. /\ proc' \in [Procs -> Request]
      /\ \A q \in Procs : \/ proc'[q] = proc[q] /\ (q = Passwd \/ ~Busy(q))
                         \/ proc'[q].pc = "failed"
      /\ proc'[Passwd] = proc[Passwd]
  <2> DEFINE x == [Fresh EXCEPT !.pc = "failed"]
  <2>1. x \in Request /\ x.pc = "failed"
    BY DefaultIsConfig DEF Request, Fresh, Steps
  <2>2. proc \in [Procs -> Request]
    BY <1>1 DEF TypeOK, Request
  <2>3. proc' = [q \in Procs |-> IF q # Passwd /\ (Busy(q) \/ At(q, "notify"))
                                 THEN x ELSE proc[q]]
    BY DEF Crash
  <2> HIDE DEF x
  <2>4. Passwd \in Procs
    BY DEF Procs
  <2> QED BY <2>1, <2>2, <2>3, <2>4
<1>5. TypeOK'
  <2>1. hup' \in [pc: {"idle", "store", "done"}, new: Config]
    BY <1>2, DefaultIsConfig
  <2>2. live' \in Config /\ seen' \subseteq Macs
    BY <1>1, <1>2 DEF TypeOK, Content, Config
  <2>3. \A q \in Procs : proc'[q].pc \in {"write", "rename"} => proc'[q].fd \in Files
    BY <1>1, <1>4 DEF TypeOK
  <2> QED BY <1>1, <1>2, <1>3, <1>4, <2>1, <2>2, <2>3 DEF TypeOK, Request
<1>6. PasswdSteps' /\ TwoNames'
  BY <1>2, <1>4 DEF IInv, PasswdSteps, TwoNames
<1>7. OneSave'
  <2>1. \A q \in Procs : proc'[q].pc \in {"write", "rename"} => proc'[q] = proc[q]
    BY <1>4
  <2> QED BY <1>2, <2>1 DEF IInv, OneSave, Writing, At
<1>8. OneChange'
  <2> SUFFICES ASSUME serial PROVE OneChange'
    BY <1>2 DEF OneChange
  <2>1. \A q \in Procs : Busy(q)' => q = Passwd
    BY <1>4 DEF Busy
  <2>2. Busy(Passwd)' => Derived(Passwd)'
    <3> SUFFICES ASSUME Busy(Passwd)' PROVE Derived(Passwd)'
      OBVIOUS
    <3>1. Busy(Passwd) /\ Passwd \in Procs
      BY <1>4 DEF Busy, Procs
    <3>2. Derived(Passwd) /\ \A r \in Requests : ~At(r, "commit")
      BY <3>1 DEF IInv, OneChange, Busy, At, Procs
    <3>3. Agree
      BY <3>2 DEF IInv, OneChange
    <3> QED BY <1>2, <1>4, <3>2, <3>3 DEF Derived, Agree
  <2>3. Agree'
    BY <1>2 DEF Agree
  <2>4. \A r \in Requests : ~At(r, "commit")'
    BY <2>1 DEF Busy, At, Procs
  <2> QED BY <1>2, <2>1, <2>2, <2>3, <2>4 DEF IInv, OneChange
<1>9. LoopIsTold'
  BY <1>2 DEF LoopIsTold
<1> QED BY <1>5, <1>6, <1>7, <1>8, <1>9 DEF IInv

------------------------------------------------------------------------------
(* The theorems.                                                           *)

LEMMA InitHolds == Init => IInv
<1> SUFFICES ASSUME Init PROVE IInv
  OBVIOUS
<1>1. file \in Files
  <2>1. Files # {}
    BY FS_EmptySet, FS_CardinalityType
  <2> QED BY <2>1 DEF Init
<1>2. live \in Config
  <2>1. PICK D \in SUBSET Macs : live = [Default EXCEPT !.devs = D, !.hash = "old"]
    BY DEF Init
  <2> QED BY <2>1, DefaultIsConfig DEF Config
<1>3. data \in [Files -> Content] /\ data[file] = Whole(live)
  BY <1>1, <1>2, Contents DEF Init
<1>4. proc \in [Procs -> Request] /\ \A p \in Procs : proc[p].pc = "idle"
  BY DefaultIsConfig DEF Init, Fresh
<1>5. hup \in [pc: {"idle", "store", "done"}, new: Config] /\ hup.pc = "idle"
  BY DefaultIsConfig DEF Init
<1>6. /\ readers = {} /\ tmp = NoFile /\ seen = live.devs
      /\ permit \in BOOLEAN /\ crashed \in BOOLEAN /\ clean \in BOOLEAN /\ serial \in BOOLEAN
      /\ clean
  BY DEF Init
<1>7. TypeOK
  BY <1>1, <1>2, <1>3, <1>4, <1>5, <1>6 DEF TypeOK, Request, Config
<1>8. PasswdSteps /\ TwoNames /\ LoopIsTold
  BY <1>1, <1>4, <1>6 DEF PasswdSteps, TwoNames, LoopIsTold, Procs
<1>9. OneSave
  BY <1>3, <1>4, <1>6 DEF OneSave, Writing, At, Whole
<1>10. OneChange
  <2>1. Agree
    BY <1>3 DEF Agree, Whole
  <2> QED BY <1>4, <1>5, <1>6, <2>1 DEF OneChange, Busy, At, Procs
<1> QED BY <1>7, <1>8, <1>9, <1>10 DEF IInv

LEMMA StepHolds == IInv /\ [Next]_vars => IInv'
<1> SUFFICES ASSUME IInv, [Next]_vars PROVE IInv'
  OBVIOUS
<1>1. CASE \E r \in Requests : Handler(r)
  BY <1>1, HandlerStep
<1>2. CASE SetPassword
  BY <1>2, SetPasswordStep
<1>3. CASE \E p \in Procs : Saving(p)
  BY <1>3, OpenStep, WriteStep, FailStep, RenameStep, CommitStep, NotifyStep DEF Saving
<1>4. CASE TakePermit \/ HupLoad \/ HupStore
  BY <1>4, LoopStep
<1>5. CASE Crash
  BY <1>5, CrashStep
<1>6. CASE UNCHANGED vars
  BY <1>6 DEF vars, IInv, TypeOK, PasswdSteps, TwoNames, OneSave, OneChange, LoopIsTold,
              Writing, At, Busy, Agree, Derived
<1> QED BY <1>1, <1>2, <1>3, <1>4, <1>5, <1>6 DEF Next

LEMMA Invariance == Spec => []IInv
BY InitHolds, StepHolds, PTL DEF Spec

\* Every variable stays in its type, through any interleaving of the
\* requests, passwd, SIGHUP and a crash: in particular there is always an
\* unused file to open, and only requests that are saving hold the read lock.
THEOREM TypeCorrect == Spec => []TypeOK
<1>1. IInv => TypeOK
  BY DEF IInv
<1> QED BY <1>1, Invariance, PTL

\* config.toml is a whole configuration at every moment, as long as no two
\* saves have overlapped: save_to_file, with its failures and a crash.
THEOREM WholeFileAlways == Spec => []WholeFile
<1>1. IInv => WholeFile
  BY DEF IInv, OneSave, WholeFile
<1> QED BY <1>1, Invariance, PTL

\* Memory and file agree whenever no read-modify-write is under way, as long
\* as none have overlapped and none has failed after its rename.
THEOREM StoredIsLiveAlways == Spec => []StoredIsLive
<1>1. IInv => StoredIsLive
  <2> SUFFICES ASSUME IInv, serial, Quiet
               PROVE  data[file].is = "whole" /\ Agree
    BY DEF StoredIsLive, Agree
  <2>1. \A r \in Requests : ~At(r, "commit")
    BY DEF Quiet, Busy, At, Procs
  <2> QED BY <2>1 DEF IInv, OneChange, OneSave
<1> QED BY <1>1, Invariance, PTL

\* Under the same condition the main loop has read the device list, has the
\* permit to read it again, or is about to be given it.
THEOREM LoopIsToldAlways == Spec => []LoopIsTold
<1>1. IInv => LoopIsTold
  BY DEF IInv
<1> QED BY <1>1, Invariance, PTL

\* Under the same condition no request changes the hash in the daemon's
\* memory: a reload of the file or a restart does.  The file is another
\* matter: passwd writes it, and PUT puts the hash in memory back.
THEOREM PasswordKeptAlways == Spec => PasswordKept
<1>1. IInv /\ [Next]_vars => [serial /\ live'.hash # live.hash => HupStore \/ Crash]_vars
  <2> SUFFICES ASSUME IInv, Next, serial, live'.hash # live.hash, ~HupStore, ~Crash
               PROVE  FALSE
    OBVIOUS
  <2>1. live' # live
    OBVIOUS
  <2>2. PICK p \in Procs : Commit(p)
    BY <2>1 DEF Next, Handler, AddDevice, RemoveDevice, UpdateDevice, PutConfig, SetPassword,
                Saving, Open, Write, WriteFails, Rename, RenameFails, ChmodFails, Notify,
                TakePermit, HupLoad
  <2>3. live' = proc[p].new /\ p # Passwd /\ Busy(p)
    BY <2>2 DEF Commit, At, Busy, IInv, PasswdSteps
  <2>4. Derived(p)
    BY <2>3 DEF IInv, OneChange
  <2> QED BY <2>3, <2>4 DEF Derived
<1> QED BY <1>1, Invariance, PTL DEF Spec, PasswordKept

\* A save that is alone finds the file it wrote under the temporary name:
\* "not found" is an answer only other savers can cause.
THEOREM RenameFindsIt == Spec => [][clean => \A p \in Procs : ~RenameFails(p)]_vars
<1>1. IInv /\ [Next]_vars => [clean => \A p \in Procs : ~RenameFails(p)]_vars
  BY DEF IInv, OneSave, Writing, RenameFails, At
<1> QED BY <1>1, Invariance, PTL DEF Spec

\* Memory and file cannot part without two changes having overlapped, since
\* no two saves overlap while no two read-modify-writes have.
THEOREM SerialIsClean == Spec => [](serial => clean)
<1>1. IInv => (serial => clean)
  BY DEF IInv, OneChange
<1> QED BY <1>1, Invariance, PTL

------------------------------------------------------------------------------
(* The configuration as StoredConfig has it.  While `serial' holds, the    *)
(* rename of a save is the change itself, and what follows in memory is    *)
(* CatchUp; everything before the rename is invisible from outside.        *)

HIDE DEF Due

LEMMA NoOverlapBefore == [Next]_vars /\ serial' => serial
<1> SUFFICES ASSUME [Next]_vars, serial' PROVE serial
  OBVIOUS
<1>1. CASE UNCHANGED serial
  BY <1>1
<1>2. CASE \E r \in Requests : Handler(r)
  BY <1>2 DEF Handler, AddDevice, RemoveDevice, UpdateDevice, PutConfig, Start
<1>3. CASE SetPassword
  BY <1>3 DEF SetPassword, Start
<1>4. CASE HupLoad
  BY <1>4 DEF HupLoad
<1>5. CASE \E p \in Procs : ChmodFails(p)
  BY <1>5 DEF ChmodFails
<1> QED BY <1>1, <1>2, <1>3, <1>4, <1>5
    DEF Next, Saving, Open, Write, WriteFails, Rename, RenameFails, Commit, Notify,
        TakePermit, HupStore, Crash, vars

LEMMA DueType == Due \in BOOLEAN /\ Due' \in BOOLEAN
BY DEF Due

\* Whom the loop is to be told by, when no request comes to its notification
\* or leaves it.
LEMMA DueSame ==
  ASSUME permit' = permit, \A r \in Requests : (proc'[r].pc = "notify" <=> proc[r].pc = "notify")
  PROVE  Due' = Due
BY DEF Due, At

LEMMA StoredStutter ==
  ASSUME serial, serial', TypeOK, TypeOK', live' = live, seen' = seen, Due' = Due,
         data'[file'].cfg = data[file].cfg
  PROVE  UNCHANGED Stored!vars
<1>1. (~serial)' = ~serial
  OBVIOUS
<1> QED BY <1>1 DEF Stored!vars

LEMMA StoredOverlaps ==
  ASSUME TypeOK', ~serial'
  PROVE  Stored!Overlap
<1>1. live' \in Config /\ data'[file'].cfg \in Config /\ seen' \subseteq Macs
  BY DEF TypeOK, Content
<1>2. (~serial)' = TRUE
  OBVIOUS
<1> QED BY <1>1, <1>2, DueType DEF Stored!Overlap

\* Taking a copy.
LEMMA StartStored ==
  ASSUME TypeOK, TypeOK', serial, serial',
         NEW p \in Procs, proc[p].pc = "idle", proc'[p].pc = "open",
         \A q \in Procs \ {p} : proc'[q] = proc[q],
         UNCHANGED <<live, permit, file, data, seen>>
  PROVE  UNCHANGED Stored!vars
<1>1. Due' = Due
  <2>1. \A r \in Requests : proc'[r].pc = "notify" <=> proc[r].pc = "notify"
    BY DEF Procs
  <2> QED BY <2>1, DueSame
<1> QED BY <1>1, StoredStutter

LEMMA HandlerStored ==
  ASSUME IInv, IInv', serial, serial', \/ SetPassword
                                       \/ \E r \in Requests : Handler(r)
  PROVE  UNCHANGED Stored!vars
<1>1. TypeOK /\ TypeOK' /\ UNCHANGED <<live, permit, file, data, seen>>
  BY DEF IInv, Handler, AddDevice, RemoveDevice, UpdateDevice, PutConfig, SetPassword
<1>2. PICK p \in Procs : \E new, tells : Start(p, new, tells)
  BY DEF Handler, AddDevice, RemoveDevice, UpdateDevice, PutConfig, SetPassword, Procs
<1>3. PICK x : proc[p].pc = "idle" /\ x.pc = "open" /\ proc' = [proc EXCEPT ![p] = x]
  BY <1>2 DEF Start, At
<1>4. proc'[p].pc = "open" /\ \A q \in Procs \ {p} : proc'[q] = proc[q]
  BY <1>1, <1>3 DEF TypeOK
<1> QED BY <1>1, <1>3, <1>4, StartStored

\* Until it renames, a save touches no file but its own.
LEMMA SavingStored ==
  ASSUME IInv, IInv', serial, serial', NEW p \in Procs,
         Open(p) \/ Write(p) \/ WriteFails(p) \/ RenameFails(p)
  PROVE  UNCHANGED Stored!vars
<1>1. TypeOK /\ TypeOK' /\ UNCHANGED <<live, permit, file, seen>>
  BY DEF IInv, Open, Write, WriteFails, RenameFails
<1>2. \A q \in Procs \ {p} : proc'[q] = proc[q]
  <2>1. CASE Open(p)
    BY <1>1, <2>1 DEF Open, TypeOK
  <2>2. CASE Write(p)
    BY <1>1, <2>2 DEF Write, TypeOK
  <2>3. CASE WriteFails(p) \/ RenameFails(p)
    BY <1>1, <2>3, EndedType DEF WriteFails, RenameFails, Steps
  <2> QED BY <2>1, <2>2, <2>3
<1>3. proc[p].pc # "notify" /\ proc'[p].pc # "notify"
  <2>1. CASE Open(p)
    BY <1>1, <2>1 DEF Open, TypeOK, At
  <2>2. CASE Write(p)
    BY <1>1, <2>2 DEF Write, TypeOK, At
  <2>3. CASE WriteFails(p) \/ RenameFails(p)
    BY <1>1, <2>3, EndedType DEF WriteFails, RenameFails, Steps, At
  <2> QED BY <2>1, <2>2, <2>3
<1>4. Due' = Due
  <2>1. \A r \in Requests : proc'[r].pc = "notify" <=> proc[r].pc = "notify"
    BY <1>2, <1>3 DEF Procs
  <2> QED BY <1>1, <2>1, DueSame
<1>5. data'[file'] = data[file]
  <2>1. CASE Open(p)
    <3>1. PICK f : f # file /\ data' = [data EXCEPT ![f] = Emptied]
      BY <1>1, <2>1, UnusedFile DEF Open, IInv, TwoNames
    <3> QED BY <1>1, <3>1 DEF TypeOK
  <2>2. CASE Write(p) \/ WriteFails(p)
    <3>1. proc[p].fd # file
      <4>1. clean /\ proc[p].pc = "write"
        BY <2>2 DEF IInv, OneChange, Write, WriteFails, At
      <4>2. proc[p].fd = tmp
        BY <4>1 DEF IInv, OneSave, Writing
      <4> QED BY <4>2 DEF IInv, TwoNames
    <3>2. data' = data \/ \E c : data' = [data EXCEPT ![proc[p].fd] = c]
      BY <2>2 DEF Write, WriteFails
    <3> QED BY <1>1, <3>1, <3>2 DEF TypeOK
  <2>3. CASE RenameFails(p)
    BY <2>3 DEF RenameFails
  <2> QED BY <2>1, <2>2, <2>3
<1> QED BY <1>1, <1>4, <1>5, StoredStutter

\* The rename is the change.
LEMMA RenameStored ==
  ASSUME IInv, IInv', serial, serial', NEW p \in Procs, Rename(p)
  PROVE  Stored!Replace \/ Stored!ChangePassword
<1>1. TypeOK /\ UNCHANGED <<live, permit, seen, serial>> /\ proc[p].pc = "rename"
  BY DEF IInv, Rename, At
<1>2. clean /\ Busy(p) /\ Writing(p) /\ p \in Procs
  BY <1>1 DEF IInv, OneChange, Busy, Writing
<1>3. /\ tmp \in Files /\ tmp # file /\ data[tmp] = Whole(proc[p].new)
  BY <1>1, <1>2 DEF IInv, OneSave, TwoNames, At
<1>4. data'[file'] = data[tmp]
  BY <1>1, <1>3 DEF Rename, Moved, TypeOK
<1>5. PICK c \in Config : c = proc[p].new /\ data'[file'].cfg = c
  BY <1>1, <1>3, <1>4 DEF TypeOK, Whole
<1>6. \A r \in Requests : ~At(r, "commit")
  BY <1>1, <1>2 DEF IInv, OneChange, Busy, At, Procs
<1>7. Agree /\ Derived(p)
  BY <1>2, <1>6 DEF IInv, OneChange
<1>8. Stored!CaughtUp
  BY <1>7 DEF Stored!CaughtUp, Agree
<1>9. Due' = Due
  <2>1. \A q \in Procs \ {p} : proc'[q] = proc[q]
    BY <1>1, EndedType DEF Rename, Steps, TypeOK
  <2>2. p # Passwd => proc'[p].pc = "commit"
    BY <1>1 DEF Rename, TypeOK
  <2>3. \A r \in Requests : proc'[r].pc = "notify" <=> proc[r].pc = "notify"
    BY <1>1, <2>1, <2>2 DEF Procs
  <2> QED BY <1>1, <2>3, DueSame
<1>10. (~serial)' = ~serial /\ ~(~serial)
  OBVIOUS
<1>11. CASE p = Passwd
  <2>1. c.devs = data[file].cfg.devs /\ c.set = data[file].cfg.set
    BY <1>5, <1>7, <1>11 DEF Derived, Agree
  <2> QED BY <1>1, <1>5, <1>8, <1>9, <1>10, <2>1 DEF Stored!ChangePassword
<1>12. CASE p # Passwd
  <2>1. c.hash = live.hash
    BY <1>5, <1>7, <1>12 DEF Derived
  <2> QED BY <1>1, <1>5, <1>8, <1>9, <1>10, <2>1 DEF Stored!Replace
<1> QED BY <1>11, <1>12

\* Memory follows: a request commits what it has stored.
LEMMA CommitStored ==
  ASSUME IInv, IInv', serial, serial', NEW p \in Procs, Commit(p)
  PROVE  Stored!CatchUp
<1>1. /\ TypeOK /\ UNCHANGED <<permit, file, data, seen, serial>>
      /\ proc[p].pc = "commit" /\ p # Passwd /\ live' = proc[p].new
  BY DEF IInv, Commit, At, PasswdSteps
<1>2. live' = data[file].cfg /\ Derived(p)
  BY <1>1 DEF IInv, OneChange, At, Busy, Procs
<1>3. (~serial)' = ~serial /\ ~(~serial)
  OBVIOUS
<1>4. \/ Due' = TRUE
      \/ live'.devs = live.devs /\ Due' = Due
  <2>1. CASE proc[p].tells
    <3>1. proc'[p].pc = "notify" /\ p \in Requests
      BY <1>1, <2>1 DEF Commit, TypeOK, Procs
    <3> QED BY <3>1 DEF Due, At
  <2>2. CASE ~proc[p].tells
    <3>1. proc' = Ended(p, "done")
      BY <2>2 DEF Commit
    <3>2. proc'[p].pc = "done" /\ \A q \in Procs \ {p} : proc'[q] = proc[q]
      BY <1>1, <3>1, EndedType DEF Steps
    <3>3. \A r \in Requests : proc'[r].pc = "notify" <=> proc[r].pc = "notify"
      BY <1>1, <3>2 DEF Procs
    <3>4. Due' = Due
      BY <1>1, <3>3, DueSame
    <3>5. live'.devs = live.devs
      BY <1>1, <1>2, <2>2 DEF Derived
    <3> QED BY <3>4, <3>5
  <2> QED BY <2>1, <2>2
<1> QED BY <1>1, <1>2, <1>3, <1>4 DEF Stored!CatchUp

LEMMA NotifyStored ==
  ASSUME IInv, IInv', serial, serial', NEW p \in Procs, Notify(p)
  PROVE  UNCHANGED Stored!vars
<1>1. /\ TypeOK /\ TypeOK' /\ UNCHANGED <<live, file, data, seen>>
      /\ p \in Requests
  BY DEF IInv, Notify, At, PasswdSteps, Procs
<1>2. Due /\ Due'
  BY <1>1 DEF Due, Notify
<1>3. Due' = Due
  BY <1>2, DueType
<1> QED BY <1>1, <1>3, StoredStutter

\* The main loop, and a crash.
LEMMA LoopStored ==
  ASSUME IInv, IInv', serial, serial', TakePermit \/ HupLoad \/ HupStore \/ Crash
  PROVE  Stored!Next \/ UNCHANGED Stored!vars
<1>1. TypeOK /\ TypeOK'
  BY DEF IInv
<1>2. (~serial)' = ~serial /\ ~(~serial)
  OBVIOUS
<1>3. CASE TakePermit
  <2>1. UNCHANGED <<live, file, data>> /\ seen' = live.devs
    BY <1>3 DEF TakePermit
  <2>2. Due
    BY <1>3 DEF TakePermit, Due
  <2>3. Stored!Hear
    BY <1>2, <2>1, <2>2, DueType DEF Stored!Hear
  <2> QED BY <2>3 DEF Stored!Next
<1>4. CASE HupLoad
  <2>1. UNCHANGED <<live, permit, file, data, proc, seen>>
    BY <1>4 DEF HupLoad
  <2>2. Due' = Due
    BY <2>1, DueSame
  <2> QED BY <1>1, <2>1, <2>2, StoredStutter
<1>5. CASE HupStore
  <2>1. live' = data[file].cfg /\ seen' = live'.devs /\ UNCHANGED <<file, data>>
    BY <1>5 DEF HupStore, IInv, OneChange
  <2>2. Stored!CatchUp
    BY <1>2, <2>1, DueType DEF Stored!CatchUp
  <2> QED BY <2>2 DEF Stored!Next
<1>6. CASE Crash
  <2>1. live' = data[file].cfg /\ seen' = live'.devs /\ UNCHANGED <<file, data>>
    BY <1>6 DEF Crash
  <2>2. Stored!CatchUp
    BY <1>2, <2>1, DueType DEF Stored!CatchUp
  <2> QED BY <2>2 DEF Stored!Next
<1> QED BY <1>3, <1>4, <1>5, <1>6

LEMMA InitStored == Init => Stored!Init
<1> SUFFICES ASSUME Init PROVE Stored!Init
  OBVIOUS
<1>1. live \in Config /\ data[file].cfg = live
  <2>1. IInv
    BY InitHolds
  <2>2. live \in Config /\ file \in Files
    BY <2>1 DEF IInv, TypeOK
  <2> QED BY <2>2 DEF Init, Whole
<1>2. Due = FALSE
  BY DEF Init, Due, At, Fresh, Procs
<1>3. (~serial) = FALSE
  BY DEF Init
<1>4. seen = live.devs
  BY DEF Init
<1> QED BY <1>1, <1>2, <1>3, <1>4 DEF Stored!Init

\* The configuration is what StoredConfig says, as long as no two changes
\* overlap and none stops between its halves: a save replaces config.toml at
\* once or not at all, memory only ever takes over what config.toml holds, and
\* no change is begun on a memory that has not.
THEOREM StoreImplementsStored == Spec => ImplementsStored
<1>1. IInv /\ IInv' /\ [Next]_vars => [Stored!Next]_(Stored!vars)
  <2> SUFFICES ASSUME IInv, IInv', [Next]_vars PROVE Stored!Next \/ UNCHANGED Stored!vars
    OBVIOUS
  <2>1. CASE ~serial'
    <3>1. Stored!Overlap
      BY <2>1, StoredOverlaps DEF IInv
    <3> QED BY <3>1 DEF Stored!Next
  <2>2. CASE serial'
    <3>1. serial
      BY <2>2, NoOverlapBefore
    <3>2. CASE SetPassword \/ \E r \in Requests : Handler(r)
      BY <2>2, <3>1, <3>2, HandlerStored
    <3>3. ASSUME NEW p \in Procs, Saving(p) PROVE Stored!Next \/ UNCHANGED Stored!vars
      <4>1. CASE Open(p) \/ Write(p) \/ WriteFails(p) \/ RenameFails(p)
        BY <2>2, <3>1, <4>1, SavingStored
      <4>2. CASE Rename(p)
        BY <2>2, <3>1, <4>2, RenameStored DEF Stored!Next
      <4>3. CASE ChmodFails(p)
        BY <2>2, <4>3 DEF ChmodFails
      <4>4. CASE Commit(p)
        BY <2>2, <3>1, <4>4, CommitStored DEF Stored!Next
      <4>5. CASE Notify(p)
        BY <2>2, <3>1, <4>5, NotifyStored
      <4> QED BY <3>3, <4>1, <4>2, <4>3, <4>4, <4>5 DEF Saving
    <3>4. CASE TakePermit \/ HupLoad \/ HupStore \/ Crash
      BY <2>2, <3>1, <3>4, LoopStored
    <3>5. CASE UNCHANGED vars
      <4>1. UNCHANGED <<live, permit, file, data, proc, seen>> /\ TypeOK /\ TypeOK'
        BY <3>5 DEF vars, IInv
      <4>2. Due' = Due
        BY <4>1, DueSame
      <4> QED BY <2>2, <3>1, <4>1, <4>2, StoredStutter
    <3> QED BY <3>2, <3>3, <3>4, <3>5 DEF Next
  <2> QED BY <2>1, <2>2
<1> QED BY <1>1, InitStored, Invariance, PTL DEF Spec, ImplementsStored, Stored!Spec

\* What that comes to for the main loop: it knows the devices in memory, or is
\* about to read them.  This is LoopIsTold again, from StoredConfig alone.
THEOREM StoredInforms == Spec => [](Stored!TypeOK /\ Stored!Informed)
<1> DEFINE I == Stored!TypeOK /\ Stored!Informed
<1>1. Stored!Init => I
  <2> SUFFICES ASSUME Stored!Init PROVE I
    OBVIOUS
  <2>1. live \in Config /\ data[file].cfg = live /\ seen = live.devs /\ Due = FALSE
    BY DEF Stored!Init
  <2>2. (~serial) = FALSE
    BY DEF Stored!Init
  <2>3. seen \subseteq Macs
    BY <2>1 DEF Config
  <2> QED BY <2>1, <2>2, <2>3 DEF Stored!TypeOK, Stored!Informed
<1>2. I /\ [Stored!Next]_(Stored!vars) => I'
  <2> SUFFICES ASSUME I, [Stored!Next]_(Stored!vars) PROVE I'
    OBVIOUS
  <2>1. live \in Config /\ data[file].cfg \in Config /\ seen \subseteq Macs
    BY DEF Stored!TypeOK
  <2>2. (~serial)' \in BOOLEAN
    OBVIOUS
  <2>3. CASE Stored!Replace \/ Stored!ChangePassword
    BY <2>1, <2>2, <2>3, DueType
    DEF Stored!Replace, Stored!ChangePassword, Stored!TypeOK, Stored!Informed
  <2>4. CASE Stored!CatchUp
    <3>1. live' \in Config /\ data'[file'].cfg \in Config /\ seen' \subseteq Macs
      BY <2>1, <2>4 DEF Stored!CatchUp, Config
    <3>2. Due' \/ seen' = live'.devs \/ ~(Due \/ seen = live.devs)
      BY <2>4, DueType DEF Stored!CatchUp
    <3>3. Due \/ seen = live.devs
      BY <2>4 DEF Stored!CatchUp, Stored!Informed
    <3> QED BY <2>2, <3>1, <3>2, <3>3, DueType DEF Stored!TypeOK, Stored!Informed
  <2>5. CASE Stored!Hear
    <3>1. live' = live /\ seen' = live.devs /\ data'[file'].cfg = data[file].cfg
      BY <2>5 DEF Stored!Hear
    <3>2. seen' \subseteq Macs
      BY <2>1, <3>1 DEF Config
    <3> QED BY <2>1, <2>2, <3>1, <3>2, DueType DEF Stored!TypeOK, Stored!Informed
  <2>6. CASE Stored!Overlap
    BY <2>2, <2>6, DueType DEF Stored!Overlap, Stored!TypeOK, Stored!Informed
  <2>7. CASE UNCHANGED Stored!vars
    BY <2>1, <2>2, <2>7, DueType DEF Stored!vars, Stored!TypeOK, Stored!Informed
  <2> QED BY <2>3, <2>4, <2>5, <2>6, <2>7 DEF Stored!Next
<1>3. ImplementsStored => []I
  <2> HIDE DEF I
  <2> QED BY <1>1, <1>2, PTL DEF ImplementsStored, Stored!Spec
<1> QED BY <1>3, StoreImplementsStored, PTL
==============================================================================
