---------------------------- MODULE ProcessProofs ---------------------------
(***************************************************************************)
(* Theorems about the three parts whose own threads run beside a call: the *)
(* C ABI's owners of memory, the loopback listener of a sign-in and the    *)
(* beacon's worker.  None uses anything of another.                        *)
(***************************************************************************)
EXTENDS Handles, Loopback, Worker, TLAPS

-----------------------------------------------------------------------------
(***************************************************************************)
(*                                The C ABI                                *)
(*                                                                         *)
(* For any number of threads, clients, results and calls and any set of    *)
(* addresses.                                                              *)
(***************************************************************************)

Places == Addresses \cup {Null}

FrameType ==
    [phase : {"outside", "sent", "open", "callback"},
     op : Operations \cup {"none"}, client : Places, string : Places]

ResultType ==
    [code : 0 .. 11, http_status : Nat, data : Places, error : Places]

HandlesTypeOK ==
    /\ heap \subseteq Addresses
    /\ clients \subseteq heap
    /\ results \subseteq ResultType
    /\ frame \in [Threads -> FrameType]
    /\ calls \in Nat

(* A frame holds a string exactly while its callback runs; without this a  *)
(* call that returns could forget one.                                     *)
StringsAreCallbacks ==
    \A t \in Threads : frame[t].string # Null <=> frame[t].phase = "callback"

HInv == HandlesTypeOK /\ StringsAreCallbacks /\ AllocationsHaveOneOwner

(* The strings of a fresh result.                                          *)
LEMMA FreshStrings ==
    ASSUME NEW a \in Addresses, NEW ending, NEW code, NEW status
    PROVE  /\ Strings(SuccessJson(a)) = {a}
           /\ Strings(FailureResult(code, status, a)) = {a}
           /\ Strings(Guarded(ending, a)) = {a}
  BY HandlesAssumption DEF HandlesAssumption, Strings, SuccessJson, FailureResult, Guarded, Null

(* The results that are handed out are well-formed.                        *)
LEMMA HandedOut ==
    ASSUME NEW a \in Addresses, NEW ending \in Endings
    PROVE  Guarded(ending, a) \in ResultType
  <1>1. ending.status \in {0, 200, 201, 429, 503}
    BY DEF Endings
  <1>2. LocalCode(ending.kind) \in 0 .. 11
    BY DEF LocalCode, InvalidConfiguration
  <1>3. ErrorCode(ending.status) \in 0 .. 11
    BY DEF ErrorCode
  <1> QED BY <1>1, <1>2, <1>3 DEF ResultType, Guarded, SuccessJson, FailureResult, Places, Null

(* Adding a result whose one string is fresh, while the frames' strings    *)
(* stay or one is given back, leaves every allocation with one owner.      *)
LEMMA HandsKeepsOwners ==
    ASSUME HInv, NEW r \in ResultType, NEW a \in Addresses, NEW t \in Threads,
           NEW f \in FrameType, f.string = Null, f.phase # "callback",
           a \notin heap, Strings(r) = {a},
           results' = results \cup {r}, clients' = clients, calls' \in Nat,
           frame' = [frame EXCEPT ![t] = f],
           heap' = (heap \ {frame[t].string}) \cup {a}
    PROVE  HInv'
  <1> USE HandlesAssumption DEF HandlesAssumption, HInv, HandlesTypeOK, AllocationsHaveOneOwner
  <1>1. \A u \in Threads : frame'[u] = IF u = t THEN f ELSE frame[u]
    OBVIOUS
  <1>2. StringsAreCallbacks'
    BY <1>1 DEF StringsAreCallbacks
  <1>3. EventStrings' = EventStrings \ {frame[t].string}
    BY <1>1 DEF EventStrings
  <1>4. ResultStrings' = ResultStrings \cup {a}
    BY DEF ResultStrings
  <1>5. frame[t].string \notin clients /\ frame[t].string \notin ResultStrings
    <2>1. Null \notin clients
      BY DEF Null
    <2>2. Null \notin ResultStrings
      BY DEF ResultStrings, Strings
    <2>3. frame[t].string # Null => frame[t].string \in EventStrings
      BY DEF EventStrings
    <2> QED BY <2>1, <2>2, <2>3
  <1>6. heap' = clients' \cup ResultStrings' \cup EventStrings'
    BY <1>3, <1>4, <1>5
  <1>7. /\ clients' \cap (ResultStrings' \cup EventStrings') = {}
        /\ ResultStrings' \cap EventStrings' = {}
    BY <1>3, <1>4
  <1>8. \A s \in results : a \notin Strings(s)
    BY DEF ResultStrings
  <1>9. \A q, s \in results' : Strings(q) \cap Strings(s) # {} => q = s
    BY <1>8
  <1>10. \A u, v \in Threads :
           frame'[u].string = frame'[v].string /\ frame'[u].string # Null => u = v
    BY <1>1
  <1>11. HandlesTypeOK'
    BY <1>1, <1>5
  <1> QED BY <1>2, <1>6, <1>7, <1>9, <1>10, <1>11

(* A step that only moves a frame on.                                      *)
LEMMA SameStrings ==
    ASSUME HInv, NEW t \in Threads, NEW f \in FrameType,
           f.string = frame[t].string,
           f.phase = "callback" <=> frame[t].phase = "callback",
           frame' = [frame EXCEPT ![t] = f],
           heap' = heap, clients' = clients, results' = results, calls' \in Nat
    PROVE  HInv'
  <1> USE DEF HInv, HandlesTypeOK
  <1>1. \A u \in Threads : frame'[u] = IF u = t THEN f ELSE frame[u]
    OBVIOUS
  <1>2. EventStrings' = EventStrings /\ ResultStrings' = ResultStrings
    BY <1>1 DEF EventStrings, ResultStrings
  <1>3. StringsAreCallbacks'
    BY <1>1 DEF StringsAreCallbacks
  <1>4. AllocationsHaveOneOwner'
    BY <1>1, <1>2 DEF AllocationsHaveOneOwner
  <1> QED BY <1>3, <1>4

(* Initially nothing is allocated.                                         *)
LEMMA InitHInv == HandlesInit => HInv
  <1> SUFFICES ASSUME HandlesInit PROVE HInv
    OBVIOUS
  <1>1. \A t \in Threads : frame[t] = Outside
    BY ZenonT(30) DEF HandlesInit
  <1>2. EventStrings = {} /\ ResultStrings = {}
    BY <1>1 DEF HandlesInit, EventStrings, ResultStrings, Outside
  <1>3. Outside \in FrameType
    BY DEF Outside, FrameType, Operations, Places
  <1>4. HandlesTypeOK
    BY <1>3 DEF HandlesInit, HandlesTypeOK
  <1>5. StringsAreCallbacks
    <2>1. Outside.string = Null /\ Outside.phase = "outside"
      BY DEF Outside
    <2> QED BY <1>1, <2>1, ZenonT(30) DEF StringsAreCallbacks
  <1>6. AllocationsHaveOneOwner
    BY <1>1, <1>2 DEF HandlesInit, AllocationsHaveOneOwner, Outside
  <1> QED BY <1>4, <1>5, <1>6 DEF HInv

(* Every step keeps every allocation with one owner.                       *)
LEMMA StepHInv == HInv /\ [HandlesNext]_handlesVars => HInv'
  <1> SUFFICES ASSUME HInv, [HandlesNext]_handlesVars PROVE HInv'
    OBVIOUS
  <1> USE HandlesAssumption DEF HandlesAssumption
  <1>1. ASSUME NEW t \in Threads, NEW valid \in BOOLEAN, ClientNew(t, valid)
        PROVE  HInv'
    <2>1. EventStrings' = EventStrings /\ ResultStrings' = ResultStrings
      BY <1>1 DEF ClientNew, EventStrings, ResultStrings
    <2>2. StringsAreCallbacks'
      BY <1>1 DEF ClientNew, HInv, StringsAreCallbacks
    <2>3. CASE valid
      <3>1. PICK a \in FreeAddresses : heap' = heap \cup {a} /\ clients' = clients \cup {a}
        BY <1>1, <2>3 DEF ClientNew
      <3>2. HandlesTypeOK'
        BY <1>1, <3>1 DEF ClientNew, HInv, HandlesTypeOK, FreeAddresses
      <3>3. AllocationsHaveOneOwner'
        BY <1>1, <2>1, <3>1 DEF ClientNew, HInv, AllocationsHaveOneOwner, FreeAddresses
      <3> QED BY <2>2, <3>2, <3>3 DEF HInv
    <2>4. CASE ~ valid
      <3>1. heap' = heap /\ clients' = clients
        BY <1>1, <2>4 DEF ClientNew
      <3>2. HandlesTypeOK' /\ AllocationsHaveOneOwner'
        BY <1>1, <2>1, <3>1 DEF ClientNew, HInv, HandlesTypeOK, AllocationsHaveOneOwner
      <3> QED BY <2>2, <3>2 DEF HInv
    <2> QED BY <2>3, <2>4
  <1>2. ASSUME NEW t \in Threads, NEW c \in clients, ClientFree(t, c)
        PROVE  HInv'
    <2>1. EventStrings' = EventStrings /\ ResultStrings' = ResultStrings
      BY <1>2 DEF ClientFree, EventStrings, ResultStrings
    <2>2. StringsAreCallbacks'
      BY <1>2 DEF ClientFree, HInv, StringsAreCallbacks
    <2>3. HandlesTypeOK'
      BY <1>2 DEF ClientFree, HInv, HandlesTypeOK
    <2>4. AllocationsHaveOneOwner'
      BY <1>2, <2>1 DEF ClientFree, HInv, AllocationsHaveOneOwner
    <2> QED BY <2>2, <2>3, <2>4 DEF HInv
  <1>3. ASSUME NEW t \in Threads, NEW r \in results, ResultFree(t, r)
        PROVE  HInv'
    <2>1. EventStrings' = EventStrings
      BY <1>3 DEF ResultFree, EventStrings
    <2>2. ResultStrings' = ResultStrings \ Strings(r)
      BY <1>3 DEF ResultFree, ResultStrings, HInv, AllocationsHaveOneOwner
    <2>3. Strings(r) \subseteq ResultStrings
      BY <1>3 DEF ResultStrings
    <2>4. StringsAreCallbacks'
      BY <1>3 DEF ResultFree, HInv, StringsAreCallbacks
    <2>5. HandlesTypeOK'
      BY <1>3, <2>3 DEF ResultFree, HInv, HandlesTypeOK, AllocationsHaveOneOwner
    <2>6. AllocationsHaveOneOwner'
      BY <1>3, <2>1, <2>2, <2>3 DEF ResultFree, HInv, AllocationsHaveOneOwner
    <2> QED BY <2>4, <2>5, <2>6 DEF HInv
  <1>4. ASSUME NEW t \in Threads, NEW c \in clients \cup {Null}, NEW sound \in BOOLEAN,
               FailsLocally(t, c, sound)
        PROVE  HInv'
    <2>1. PICK a \in FreeAddresses :
             /\ heap' = heap \cup {a}
             /\ results' = results \cup {FailureResult(InvalidConfiguration, 0, a)}
      BY <1>4 DEF FailsLocally
    <2> DEFINE r == FailureResult(InvalidConfiguration, 0, a)
    <2>0. a \in Addresses /\ a \notin heap
      BY DEF FreeAddresses
    <2>2. Strings(r) = {a} /\ a \in Addresses /\ a \notin heap
      BY <2>0 DEF Strings, FailureResult, Null
    <2>3. r \in ResultType
      BY <2>2 DEF ResultType, FailureResult, InvalidConfiguration, Places
    <2>4. results' = results \cup {r}
      BY <2>1
    <2> HIDE DEF r
    <2>5. EventStrings' = EventStrings
      BY <1>4 DEF FailsLocally, EventStrings
    <2>6. ResultStrings' = ResultStrings \cup {a}
      BY <2>2, <2>4 DEF ResultStrings
    <2>7. \A s \in results : a \notin Strings(s)
      BY <2>2 DEF ResultStrings, HInv, AllocationsHaveOneOwner
    <2>8. StringsAreCallbacks'
      BY <1>4 DEF FailsLocally, HInv, StringsAreCallbacks
    <2>9. HandlesTypeOK'
      BY <1>4, <2>1, <2>2, <2>3, <2>4 DEF FailsLocally, HInv, HandlesTypeOK
    <2>10. AllocationsHaveOneOwner'
      <3>1. \A q, s \in results' : Strings(q) \cap Strings(s) # {} => q = s
        BY <2>2, <2>4, <2>7 DEF HInv, AllocationsHaveOneOwner
      <3> QED BY <1>4, <2>1, <2>2, <2>5, <2>6, <3>1
                 DEF FailsLocally, HInv, AllocationsHaveOneOwner
    <2> QED BY <2>8, <2>9, <2>10 DEF HInv
  <1>5. ASSUME NEW t \in Threads, NEW op \in Operations, NEW c \in clients, Call(t, op, c)
        PROVE  HInv'
    <2> DEFINE f == [op |-> op, client |-> c, string |-> Null, phase |-> "sent"]
    <2>1. f \in FrameType
      BY DEF FrameType, Places, HInv, HandlesTypeOK
    <2>2. frame[t].phase = "outside" /\ frame[t].string = Null
      BY <1>5 DEF Call, InRuntime, HInv, StringsAreCallbacks
    <2>3. /\ frame' = [frame EXCEPT ![t] = f]
          /\ heap' = heap /\ clients' = clients /\ results' = results
          /\ calls' \in Nat
      BY <1>5 DEF Call, HInv, HandlesTypeOK
    <2> QED BY <2>1, <2>2, <2>3, SameStrings, ZenonT(30)
  <1>6. ASSUME NEW t \in Threads, NEW ending \in Endings, Returns(t, ending)
        PROVE  HInv'
    <2>1. PICK a \in FreeAddresses : heap' = heap \cup {a} /\ results' = results \cup {Guarded(ending, a)}
      BY <1>6 DEF Returns
    <2> DEFINE r == Guarded(ending, a)
    <2>2. a \in Addresses /\ a \notin heap
      BY DEF FreeAddresses
    <2>3. Strings(r) = {a} /\ r \in ResultType
      BY <2>2, FreshStrings, HandedOut
    <2>4. frame[t].string = Null
      BY <1>6 DEF Returns, HInv, StringsAreCallbacks
    <2>5. Null \notin heap
      BY DEF HInv, HandlesTypeOK, Null
    <2>6. heap' = (heap \ {frame[t].string}) \cup {a}
      BY <2>1, <2>4, <2>5
    <2>7. /\ results' = results \cup {r} /\ clients' = clients /\ calls' \in Nat
          /\ frame' = [frame EXCEPT ![t] = Outside]
      BY <1>6, <2>1 DEF Returns, HInv, HandlesTypeOK
    <2>8. Outside \in FrameType /\ Outside.string = Null /\ Outside.phase # "callback"
      BY DEF Outside, FrameType, Operations, Places
    <2> QED BY <2>2, <2>3, <2>6, <2>7, <2>8, HandsKeepsOwners, ZenonT(30)
  <1>7. ASSUME NEW t \in Threads, Opens(t)
        PROVE  HInv'
    <2> DEFINE f == [frame[t] EXCEPT !.phase = "open"]
    <2>1. /\ f \in FrameType /\ f.string = frame[t].string
          /\ f.phase = "callback" <=> frame[t].phase = "callback"
      BY <1>7 DEF Opens, FrameType, HInv, HandlesTypeOK
    <2>2. /\ frame' = [frame EXCEPT ![t] = f]
          /\ heap' = heap /\ clients' = clients /\ results' = results
          /\ calls' \in Nat
      BY <1>7 DEF Opens, HInv, HandlesTypeOK
    <2> QED BY <2>1, <2>2, SameStrings, ZenonT(30)
  <1>8. ASSUME NEW t \in Threads, Event(t)
        PROVE  HInv'
    <2>1. PICK a \in FreeAddresses :
             /\ heap' = heap \cup {a}
             /\ frame' = [frame EXCEPT ![t].phase = "callback", ![t].string = a]
      BY <1>8, ZenonT(30) DEF Event
    <2>2. a \in Addresses /\ a \notin heap /\ a # Null
      BY DEF FreeAddresses, Null
    <2>3. frame[t].string = Null
      BY <1>8 DEF Event, HInv, StringsAreCallbacks
    <2>4. \A u \in Threads : u # t => frame'[u] = frame[u]
      BY <2>1 DEF HInv, HandlesTypeOK
    <2> DEFINE g == [frame[t] EXCEPT !.phase = "callback", !.string = a]
    <2>a. frame[t] \in FrameType /\ frame \in [Threads -> FrameType]
      BY DEF HInv, HandlesTypeOK
    <2>b. g \in FrameType /\ g.phase = "callback" /\ g.string = a
      BY <2>2, <2>a, ZenonT(30) DEF FrameType, Places
    <2>c. frame' = [frame EXCEPT ![t] = g]
      BY <2>1, <2>a, ZenonT(30)
    <2> HIDE DEF g
    <2>5. /\ frame'[t].phase = "callback" /\ frame'[t].string = a
          /\ frame' \in [Threads -> FrameType]
      BY <2>a, <2>b, <2>c
    <2>6. EventStrings' = EventStrings \cup {a}
      BY <2>2, <2>3, <2>4, <2>5 DEF EventStrings
    <2>7. ResultStrings' = ResultStrings
      BY <1>8 DEF Event, ResultStrings
    <2>8. StringsAreCallbacks'
      BY <2>2, <2>4, <2>5 DEF HInv, StringsAreCallbacks
    <2>9. HandlesTypeOK'
      BY <1>8, <2>1, <2>2, <2>5 DEF Event, HInv, HandlesTypeOK
    <2>10. \A u \in Threads : frame[u].string # a
      BY <2>2 DEF HInv, AllocationsHaveOneOwner, EventStrings
    <2>11. AllocationsHaveOneOwner'
      BY <1>8, <2>1, <2>2, <2>4, <2>5, <2>6, <2>7, <2>10
         DEF Event, HInv, AllocationsHaveOneOwner
    <2> QED BY <2>8, <2>9, <2>11 DEF HInv
  <1>9. ASSUME NEW t \in Threads, NEW continue \in BOOLEAN, CallbackReturns(t, continue)
        PROVE  HInv'
    <2>1. CASE continue
      <3>1. /\ frame' = [frame EXCEPT ![t].phase = "open", ![t].string = Null]
            /\ heap' = heap \ {frame[t].string}
            /\ results' = results /\ clients' = clients /\ calls' = calls
        BY <1>9, <2>1 DEF CallbackReturns
      <3>2. frame[t].string # Null /\ frame[t].string \in EventStrings
        BY <1>9 DEF CallbackReturns, HInv, StringsAreCallbacks, EventStrings
      <3>3. \A u \in Threads : u # t => frame'[u] = frame[u]
        BY <3>1 DEF HInv, HandlesTypeOK
      <3> DEFINE g == [frame[t] EXCEPT !.phase = "open", !.string = Null]
      <3>a. frame[t] \in FrameType /\ frame \in [Threads -> FrameType]
        BY DEF HInv, HandlesTypeOK
      <3>b. g \in FrameType /\ g.phase = "open" /\ g.string = Null
        BY <3>a, ZenonT(30) DEF FrameType, Places
      <3>c. frame' = [frame EXCEPT ![t] = g]
        BY <3>1, <3>a, ZenonT(30)
      <3> HIDE DEF g
      <3>4. /\ frame'[t].phase = "open" /\ frame'[t].string = Null
            /\ frame' \in [Threads -> FrameType]
        BY <3>a, <3>b, <3>c
      <3>5. EventStrings' = EventStrings \ {frame[t].string}
        BY <3>2, <3>3, <3>4 DEF EventStrings, HInv, AllocationsHaveOneOwner
      <3>6. ResultStrings' = ResultStrings
        BY <3>1 DEF ResultStrings
      <3>7. StringsAreCallbacks'
        BY <3>3, <3>4 DEF HInv, StringsAreCallbacks
      <3>8. AllocationsHaveOneOwner'
        BY <3>1, <3>2, <3>3, <3>4, <3>5, <3>6 DEF HInv, AllocationsHaveOneOwner
      <3>9. HandlesTypeOK'
        BY <3>1, <3>2, <3>4 DEF HInv, HandlesTypeOK, AllocationsHaveOneOwner
      <3> QED BY <3>7, <3>8, <3>9 DEF HInv
    <2>2. CASE ~ continue
      <3>1. PICK a \in FreeAddresses :
               /\ frame' = [frame EXCEPT ![t] = Outside]
               /\ heap' = (heap \ {frame[t].string}) \cup {a}
               /\ results' = results \cup {SuccessJson(a)}
        BY <1>9, <2>2 DEF CallbackReturns
      <3> DEFINE r == SuccessJson(a)
      <3>2. Strings(r) = {a} /\ a \in Addresses /\ a \notin heap
        BY FreshStrings DEF FreeAddresses
      <3>3. r \in ResultType
        BY <3>2 DEF ResultType, SuccessJson, Places
      <3>4. /\ results' = results \cup {r} /\ clients' = clients /\ calls' \in Nat
        BY <1>9, <3>1 DEF CallbackReturns, HInv, HandlesTypeOK
      <3>5. Outside \in FrameType /\ Outside.string = Null /\ Outside.phase # "callback"
        BY DEF Outside, FrameType, Operations, Places
      <3> QED BY <3>1, <3>2, <3>3, <3>4, <3>5, HandsKeepsOwners, ZenonT(30)
    <2> QED BY <2>1, <2>2
  <1>10. CASE UNCHANGED handlesVars
    <2>1. EventStrings' = EventStrings /\ ResultStrings' = ResultStrings
      BY <1>10 DEF handlesVars, EventStrings, ResultStrings
    <2> QED BY <1>10, <2>1 DEF handlesVars, HInv, HandlesTypeOK, StringsAreCallbacks, AllocationsHaveOneOwner
  <1> QED BY <1>1, <1>2, <1>3, <1>4, <1>5, <1>6, <1>7, <1>8, <1>9, <1>10 DEF HandlesNext

(* Every allocation that C code or a running callback owns is live and has *)
(* no other owner, and nothing else is allocated, in every program that    *)
(* keeps the header's contract (owned_c_string, tr_result_free,            *)
(* tr_client_free, tr_stream_json).                                        *)
THEOREM OneOwner == HandlesSpec => []AllocationsHaveOneOwner
  <1>1. HInv => AllocationsHaveOneOwner
    BY DEF HInv
  <1> QED BY InitHInv, StepHInv, <1>1, PTL DEF HandlesSpec

-----------------------------------------------------------------------------
(***************************************************************************)
(*                          The loopback listener                          *)
(*                                                                         *)
(* That sign-ins never cross, for any number of sign-ins with any options, *)
(* any ports, and any number of redirects and stray connections.           *)
(***************************************************************************)

Icon == [name |-> "favicon.ico", slash |-> TRUE, normal |-> TRUE]

ConnType ==
    [by : Flows \cup {Nobody},
     path : {NoPath, Icon} \cup {CallbackUrl(f) : f \in Flows},
     error : BOOLEAN, code : Nat, state : Flows \cup {Absent},
     heard : Utterances \cup {"nothing"}]

FlowType ==
    [phase : {"new", "bound", "waiting", "reading", "captured", "signed_in", "failed",
              "dropped"},
     port : Ports \cup {Ephemeral}, conn : ConnType, code : Nat,
     key : SUBSET Flows]

CodeType == [of : Flows, challenge : Flows \cup {Nobody}, spent : BOOLEAN]

TypeOK ==
    /\ flow \in [Flows -> FlowType]
    /\ owner \in [Ports -> Flows \cup {Nobody}]
    /\ backlog \in [Flows -> Seq(ConnType)]
    /\ codes \in Seq(CodeType)
    /\ visits \in Nat /\ visits <= MaxVisits /\ Len(codes) <= visits

(* A connection carries the state of the sign-in it is of, if any, and     *)
(* only a code that was issued to that sign-in.                            *)
Honest(conn, issued) ==
    /\ conn.state \in {conn.by, Absent}
    /\ conn.code \in 0 .. Len(issued)
    /\ conn.code # 0 => issued[conn.code].of = conn.by

(* What makes SignInsNeverCross inductive: every connection on its way to  *)
(* a listener is honest, a code is bound to the challenge of its sign-in,  *)
(* and a code handed out is one that was issued, or none that ever is.     *)
ConnectionsAreHonest ==
    \A f \in Flows :
        /\ Honest(flow[f].conn, codes)
        /\ \A i \in 1 .. Len(backlog[f]) : Honest(backlog[f][i], codes)

CodesAreBound ==
    \A c \in 1 .. Len(codes) :
        /\ codes[c].challenge = CodeChallenge(codes[c].of)
        /\ flow[codes[c].of].port \in Ports

CapturedCodes ==
    \A f \in Flows :
        /\ flow[f].code \in 0 .. Len(codes) \cup {CutShort}
        /\ Options[f].expects_state /\ flow[f].code \in 1 .. Len(codes) =>
              codes[flow[f].code].of = f

KeysAreOwn ==
    \A f \in Flows : \A g \in flow[f].key :
        f = g \/ (~ Options[f].expects_state /\ CodeChallenge(g) = Nobody)

LInv ==
    /\ TypeOK /\ ConnectionsAreHonest /\ CodesAreBound
    /\ CapturedCodes /\ KeysAreOwn

(* The strengthening is strong enough.                                     *)
LEMMA LInvSuffices == LInv => SignInsNeverCross
  <1> SUFFICES ASSUME LInv PROVE SignInsNeverCross
    OBVIOUS
  <1>1. DOMAIN codes = 1 .. Len(codes)
    BY DEF LInv, TypeOK
  <1> QED BY <1>1, ZenonT(30) DEF LInv, CapturedCodes, KeysAreOwn, SignInsNeverCross

(* A flow that has no connection yet.                                      *)
LEMMA NoConnectionOK == NoConnection \in ConnType
  BY DEF NoConnection, ConnType, NoPath

(* No sign-in has begun.                                                   *)
LEMMA InitLInv == Init => LInv
  <1> SUFFICES ASSUME Init PROVE LInv
    OBVIOUS
  <1> USE LoopbackAssumption DEF LoopbackAssumption
  <1>1. NewFlow \in FlowType
    BY NoConnectionOK DEF NewFlow, FlowType
  <1>2. Len(codes) = 0 /\ codes \in Seq(CodeType)
    BY DEF Init
  <1>3. \A f \in Flows : flow[f] = NewFlow /\ backlog[f] = << >>
    BY ZenonT(30) DEF Init
  <1>4. TypeOK
    BY <1>1, <1>2 DEF Init, TypeOK
  <1>5. Honest(NoConnection, codes)
    BY <1>2 DEF Honest, NoConnection
  <1>6. /\ NewFlow.conn = NoConnection /\ NewFlow.code = 0 /\ NewFlow.key = {}
        /\ Len(<< >>) = 0
    BY DEF NewFlow
  <1>7. ConnectionsAreHonest
    <2>1. \A f \in Flows : flow[f].conn = NoConnection /\ Len(backlog[f]) = 0
      BY <1>3, <1>6, ZenonT(30)
    <2>2. \A f \in Flows : Honest(flow[f].conn, codes)
      BY <2>1, <1>5, Zenon
    <2>3. \A f \in Flows : \A i \in 1 .. Len(backlog[f]) : FALSE
      BY <2>1
    <2> QED BY <2>2, <2>3, Zenon DEF ConnectionsAreHonest
  <1>8. CodesAreBound /\ CapturedCodes /\ KeysAreOwn
    BY <1>2, <1>3, <1>6 DEF CodesAreBound, CapturedCodes, KeysAreOwn
  <1> QED BY <1>4, <1>7, <1>8 DEF LInv

(* What holds of a connection still holds once more codes are issued or    *)
(* spent.                                                                  *)
LEMMA StaysHonest ==
    ASSUME NEW conn \in ConnType, Honest(conn, codes), Len(codes') \in Nat,
           Len(codes) \in Nat, Len(codes) <= Len(codes'),
           \A c \in 1 .. Len(codes) : codes'[c].of = codes[c].of
    PROVE  Honest(conn, codes')
  BY DEF Honest, ConnType

(* A step in which one sign-in moves on, with an honest connection, a code *)
(* and a key that are its own; a code may be spent.                        *)
LEMMA FlowBecomes ==
    ASSUME LInv, NEW f \in Flows, NEW n \in FlowType,
           flow' = [flow EXCEPT ![f] = n], Honest(n.conn, codes),
           flow[f].port \in Ports => n.port \in Ports,
           n.code \in 0 .. Len(codes) \cup {CutShort},
           Options[f].expects_state /\ n.code \in 1 .. Len(codes) =>
              codes[n.code].of = f,
           \A g \in n.key :
              f = g \/ (~ Options[f].expects_state /\ CodeChallenge(g) = Nobody),
           codes' \in Seq(CodeType), Len(codes') = Len(codes),
           \A c \in 1 .. Len(codes) : /\ codes'[c].of = codes[c].of
                                      /\ codes'[c].challenge = codes[c].challenge,
           visits' = visits,
           owner' \in [Ports -> Flows \cup {Nobody}],
           backlog' \in [Flows -> Seq(ConnType)],
           \A g \in Flows : \A i \in 1 .. Len(backlog'[g]) : Honest(backlog'[g][i], codes)
    PROVE  LInv'
  <1>1. \A g \in Flows : flow'[g] = IF g = f THEN n ELSE flow[g]
    BY DEF LInv, TypeOK
  <1>2. TypeOK'
    BY ZenonT(30) DEF LInv, TypeOK
  <1>3. ASSUME NEW conn \in ConnType, Honest(conn, codes) PROVE Honest(conn, codes')
    BY <1>3 DEF Honest, ConnType
  <1>4. ConnectionsAreHonest'
    <2>1. ASSUME NEW g \in Flows PROVE Honest(flow'[g].conn, codes')
      BY <1>1, <1>2, <1>3 DEF LInv, ConnectionsAreHonest, TypeOK, FlowType
    <2>2. ASSUME NEW g \in Flows, NEW i \in 1 .. Len(backlog'[g])
          PROVE  Honest(backlog'[g][i], codes')
      <3>1. backlog'[g][i] \in ConnType
        OBVIOUS
      <3> QED BY <3>1, <1>3
    <2> QED BY <2>1, <2>2 DEF ConnectionsAreHonest
  <1>5. CodesAreBound'
    <2> SUFFICES ASSUME NEW c \in 1 .. Len(codes')
                 PROVE  /\ codes'[c].challenge = CodeChallenge(codes'[c].of)
                        /\ flow'[codes'[c].of].port \in Ports
      BY DEF CodesAreBound, CodeChallenge
    <2>0. codes \in Seq(CodeType) /\ c \in 1 .. Len(codes)
      <3>1. codes \in Seq(CodeType)
        BY ZenonT(30) DEF LInv, TypeOK
      <3>2. c \in 1 .. Len(codes)
        BY ZenonT(30)
      <3> QED BY <3>1, <3>2
    <2>1. codes[c] \in CodeType
      BY <2>0
    <2>2. codes[c].of \in Flows
      BY <2>1 DEF CodeType
    <2> QED BY <1>1, <2>0, <2>2 DEF LInv, CodesAreBound
  <1>6. CapturedCodes'
    BY <1>1 DEF LInv, CapturedCodes, CutShort
  <1>7. KeysAreOwn'
    BY <1>1 DEF LInv, KeysAreOwn, CodeChallenge
  <1> QED BY <1>2, <1>4, <1>5, <1>6, <1>7 DEF LInv

(* A step in which its code, its key and the codes are left alone.         *)
LEMMA FlowStep ==
    ASSUME LInv, NEW f \in Flows, NEW n \in FlowType,
           flow' = [flow EXCEPT ![f] = n], Honest(n.conn, codes),
           n.code = flow[f].code, n.key = flow[f].key,
           flow[f].port \in Ports => n.port \in Ports,
           codes' = codes, visits' = visits,
           owner' \in [Ports -> Flows \cup {Nobody}],
           backlog' \in [Flows -> Seq(ConnType)],
           \A g \in Flows : \A i \in 1 .. Len(backlog'[g]) : Honest(backlog'[g][i], codes)
    PROVE  LInv'
  <1>1. /\ n.code \in 0 .. Len(codes) \cup {CutShort}
        /\ Options[f].expects_state /\ n.code \in 1 .. Len(codes) =>
              codes[n.code].of = f
    BY DEF LInv, CapturedCodes
  <1>2. \A g \in n.key :
           f = g \/ (~ Options[f].expects_state /\ CodeChallenge(g) = Nobody)
    BY DEF LInv, KeysAreOwn
  <1>3. codes' \in Seq(CodeType) /\ Len(codes') = Len(codes)
    BY DEF LInv, TypeOK
  <1>4. \A c \in 1 .. Len(codes) : /\ codes'[c].of = codes[c].of
                                   /\ codes'[c].challenge = codes[c].challenge
    OBVIOUS
  <1> QED BY <1>1, <1>2, <1>3, <1>4, FlowBecomes, ZenonT(30)

(* A listener that closes leaves the other backlogs as they are.           *)
LEMMA ClosedOK ==
    ASSUME LInv, NEW f \in Flows, Closed(f)
    PROVE  /\ owner' \in [Ports -> Flows \cup {Nobody}]
           /\ backlog' \in [Flows -> Seq(ConnType)]
           /\ \A g \in Flows : \A i \in 1 .. Len(backlog'[g]) : Honest(backlog'[g][i], codes)
  <1>1. owner' \in [Ports -> Flows \cup {Nobody}]
    BY ZenonT(30) DEF LInv, TypeOK, Closed
  <1>2. \A g \in Flows : backlog'[g] = IF g = f THEN << >> ELSE backlog[g]
    BY DEF LInv, TypeOK, Closed
  <1>3. backlog' \in [Flows -> Seq(ConnType)]
    BY DEF LInv, TypeOK, Closed
  <1>4. Len(<< >>) = 0
    OBVIOUS
  <1>5. ASSUME NEW g \in Flows PROVE \A i \in 1 .. Len(backlog'[g]) : Honest(backlog'[g][i], codes)
    <2>1. CASE g = f
      BY <1>2, <1>4, <2>1
    <2>2. CASE g # f
      BY <1>2, <2>2 DEF LInv, ConnectionsAreHonest
    <2> QED BY <2>1, <2>2
  <1> QED BY <1>1, <1>3, <1>5

(* The connection of a browser that follows a callback.                    *)
LEMMA ConnTyped ==
    \A by \in Flows, error \in BOOLEAN, code \in Nat : \A sent \in {by, Absent} :
        [by |-> by, path |-> CallbackUrl(by), error |-> error, code |-> code,
         state |-> sent, heard |-> "nothing"] \in ConnType
  BY DEF ConnType

(* An honest connection that arrives, with the codes as they are then.     *)
LEMMA ArrivesOK ==
    ASSUME LInv, NEW port \in Ports, NEW conn \in ConnType, Honest(conn, codes'),
           Arrives(port, conn), Len(codes') \in Nat, Len(codes) <= Len(codes'),
           \A c \in 1 .. Len(codes) : codes'[c].of = codes[c].of
    PROVE  /\ backlog' \in [Flows -> Seq(ConnType)]
           /\ \A g \in Flows : \A i \in 1 .. Len(backlog'[g]) : Honest(backlog'[g][i], codes')
  <1>0. Len(codes) \in Nat
    BY DEF LInv, TypeOK
  <1>1. \A g \in Flows : \A i \in 1 .. Len(backlog[g]) :
            backlog[g][i] \in ConnType /\ Honest(backlog[g][i], codes)
    BY DEF LInv, TypeOK, ConnectionsAreHonest
  <1>2. \A g \in Flows : \A i \in 1 .. Len(backlog[g]) :
            Honest(backlog[g][i], codes')
    BY <1>0, <1>1, StaysHonest
  <1>3. CASE owner[port] = Nobody
    <2>1. backlog' = backlog
      BY <1>3 DEF Arrives
    <2> QED BY <1>2, <2>1 DEF LInv, TypeOK
  <1>4. CASE owner[port] # Nobody
    <2> DEFINE f == owner[port]
    <2>1. f \in Flows
      BY <1>4 DEF LInv, TypeOK
    <2>2. backlog' = [backlog EXCEPT ![f] = Append(backlog[f], conn)]
      BY <1>4 DEF Arrives
    <2> HIDE DEF f
    <2>3. backlog' \in [Flows -> Seq(ConnType)]
      BY <2>1, <2>2 DEF LInv, TypeOK
    <2>4. ASSUME NEW g \in Flows, NEW i \in 1 .. Len(backlog'[g])
          PROVE  Honest(backlog'[g][i], codes')
      <3>1. backlog[g] \in Seq(ConnType) /\ backlog[f] \in Seq(ConnType)
        BY <2>1 DEF LInv, TypeOK
      <3>2. backlog'[g] = IF g = f THEN Append(backlog[f], conn) ELSE backlog[g]
        BY <2>1, <2>2 DEF LInv, TypeOK
      <3>3. \/ i \in 1 .. Len(backlog[g]) /\ backlog'[g][i] = backlog[g][i]
            \/ backlog'[g][i] = conn
        BY <3>1, <3>2
      <3> QED BY <3>3, <1>2
    <2> QED BY <2>3, <2>4
  <1> QED BY <1>3, <1>4

(* A step in which the codes grow or one is spent, and the sign-ins stay   *)
(* as they are.                                                            *)
LEMMA VisitStep ==
    ASSUME LInv, flow' = flow, owner' = owner,
           codes' \in Seq(CodeType), visits' \in Nat, visits' <= MaxVisits,
           Len(codes') <= visits', Len(codes) <= Len(codes'),
           \A c \in 1 .. Len(codes) : codes'[c].of = codes[c].of,
           CodesAreBound', CapturedCodes', backlog' \in [Flows -> Seq(ConnType)],
           \A g \in Flows : \A i \in 1 .. Len(backlog'[g]) : Honest(backlog'[g][i], codes')
    PROVE  LInv'
  <1>1. TypeOK'
    BY ZenonT(30) DEF LInv, TypeOK
  <1>2. \A g \in Flows : Honest(flow[g].conn, codes')
    <2> SUFFICES ASSUME NEW g \in Flows PROVE Honest(flow[g].conn, codes')
      OBVIOUS
    <2>1. flow[g] \in FlowType /\ codes \in Seq(CodeType)
      BY ZenonT(30) DEF LInv, TypeOK
    <2>2. flow[g].conn \in ConnType
      BY <2>1 DEF FlowType
    <2>3. Len(codes) \in Nat /\ Len(codes') \in Nat
      BY <2>1
    <2>4. Honest(flow[g].conn, codes)
      BY DEF LInv, ConnectionsAreHonest
    <2> QED BY <2>2, <2>3, <2>4, StaysHonest, ZenonT(30)
  <1>3. ConnectionsAreHonest'
    BY <1>2 DEF ConnectionsAreHonest
  <1>4. KeysAreOwn'
    BY DEF LInv, KeysAreOwn
  <1> QED BY <1>1, <1>3, <1>4 DEF LInv

(* Records of a sign-in that moves on.                                     *)
LEMMA FlowTakesPort ==
    ASSUME NEW r \in FlowType, NEW port \in Ports \cup {Ephemeral},
           NEW phase \in {"new", "bound", "waiting", "reading", "captured",
                          "signed_in", "failed", "dropped"}
    PROVE  LET n == [r EXCEPT !.phase = phase, !.port = port]
           IN  /\ n \in FlowType /\ n.port = port /\ n.conn = r.conn
               /\ n.code = r.code /\ n.key = r.key
  <1> DEFINE A == {"new", "bound", "waiting", "reading", "captured", "signed_in",
                   "failed", "dropped"}
             B == Ports \cup {Ephemeral}
             C == ConnType
             D == Nat
             E == SUBSET Flows
  <1>1. FlowType = [phase : A, port : B, conn : C, code : D, key : E]
    BY Zenon DEF FlowType
  <1>2. r \in FlowType /\ phase \in A /\ port \in B
    BY Zenon
  <1> HIDE DEF A, B, C, D, E
  <1> QED BY <1>1, <1>2, ZenonT(30)

(* A flow that takes a connection stays a flow.                            *)
LEMMA FlowTakesConn ==
    ASSUME NEW r \in FlowType, NEW conn \in ConnType,
           NEW phase \in {"new", "bound", "waiting", "reading", "captured",
                          "signed_in", "failed", "dropped"}
    PROVE  LET n == [r EXCEPT !.phase = phase, !.conn = conn]
           IN  /\ n \in FlowType /\ n.port = r.port /\ n.conn = conn
               /\ n.code = r.code /\ n.key = r.key
  <1> DEFINE A == {"new", "bound", "waiting", "reading", "captured", "signed_in",
                   "failed", "dropped"}
             B == Ports \cup {Ephemeral}
             C == ConnType
             D == Nat
             E == SUBSET Flows
  <1>1. FlowType = [phase : A, port : B, conn : C, code : D, key : E]
    BY Zenon DEF FlowType
  <1>2. r \in FlowType /\ phase \in A /\ conn \in C
    BY Zenon
  <1> HIDE DEF A, B, C, D, E
  <1> QED BY <1>1, <1>2, ZenonT(30)

(* A flow that takes a code, and lets go of its connection, stays a flow.  *)
LEMMA FlowTakesCode ==
    ASSUME NEW r \in FlowType, NEW code \in Nat
    PROVE  LET n == [r EXCEPT !.phase = "captured", !.code = code, !.conn = NoConnection]
           IN  /\ n \in FlowType /\ n.port = r.port /\ n.conn = NoConnection
               /\ n.code = code /\ n.key = r.key
  <1> DEFINE A == {"new", "bound", "waiting", "reading", "captured", "signed_in",
                   "failed", "dropped"}
             B == Ports \cup {Ephemeral}
             C == ConnType
             D == Nat
             E == SUBSET Flows
             none == NoConnection
  <1>1. FlowType = [phase : A, port : B, conn : C, code : D, key : E]
    BY Zenon DEF FlowType
  <1>2. r \in FlowType /\ "captured" \in A /\ code \in D /\ none \in C
    BY NoConnectionOK, Zenon
  <1> HIDE DEF A, B, C, D, E, none
  <1>3. LET n == [r EXCEPT !.phase = "captured", !.code = code, !.conn = none]
        IN  /\ n \in FlowType /\ n.port = r.port /\ n.conn = none
            /\ n.code = code /\ n.key = r.key
    BY <1>1, <1>2, ZenonT(30)
  <1> QED BY <1>3 DEF none

(* A flow that takes a key stays a flow.                                   *)
LEMMA FlowTakesKey ==
    ASSUME NEW r \in FlowType, NEW key \in SUBSET Flows,
           NEW phase \in {"new", "bound", "waiting", "reading", "captured",
                          "signed_in", "failed", "dropped"}
    PROVE  LET n == [r EXCEPT !.phase = phase, !.key = key]
           IN  /\ n \in FlowType /\ n.port = r.port /\ n.conn = r.conn
               /\ n.code = r.code /\ n.key = key
  <1> DEFINE A == {"new", "bound", "waiting", "reading", "captured", "signed_in",
                   "failed", "dropped"}
             B == Ports \cup {Ephemeral}
             C == ConnType
             D == Nat
             E == SUBSET Flows
  <1>1. FlowType = [phase : A, port : B, conn : C, code : D, key : E]
    BY Zenon DEF FlowType
  <1>2. r \in FlowType /\ phase \in A /\ key \in E
    BY Zenon
  <1> HIDE DEF A, B, C, D, E
  <1> QED BY <1>1, <1>2, ZenonT(30)

(* Every step preserves the invariant.                                     *)
LEMMA StepLInv == LInv /\ [Next]_vars => LInv'
  <1> SUFFICES ASSUME LInv, [Next]_vars PROVE LInv'
    OBVIOUS
  <1>0. /\ \A f \in Flows : flow[f] \in FlowType /\ Honest(flow[f].conn, codes)
        /\ Honest(NoConnection, codes) /\ Len(codes) \in Nat
        /\ TypeOK /\ visits \in Nat
    <2>1. /\ \A f \in Flows : flow[f] \in FlowType
          /\ codes \in Seq(CodeType) /\ TypeOK /\ visits \in Nat
      BY DEF LInv, TypeOK
    <2>2. \A f \in Flows : Honest(flow[f].conn, codes)
      BY DEF LInv, ConnectionsAreHonest
    <2>3. Len(codes) \in Nat
      BY <2>1
    <2>4. Honest(NoConnection, codes)
      BY <2>3 DEF Honest, NoConnection
    <2> QED BY <2>1, <2>2, <2>3, <2>4
  <1>u. /\ owner \in [Ports -> Flows \cup {Nobody}]
        /\ backlog \in [Flows -> Seq(ConnType)]
        /\ \A g \in Flows : \A i \in 1 .. Len(backlog[g]) : Honest(backlog[g][i], codes)
    BY DEF LInv, TypeOK, ConnectionsAreHonest
  <1>1. ASSUME NEW f \in Flows, Bind(f) PROVE LInv'
    <2>1. PICK port \in Ports :
             \/ /\ owner' = [owner EXCEPT ![port] = f]
                /\ flow' = [flow EXCEPT ![f].phase = "bound", ![f].port = port]
             \/ /\ flow' = [flow EXCEPT ![f].phase = "failed"]
                /\ owner' = owner
      BY <1>1, LoopbackAssumption DEF Bind, LoopbackAssumption
    <2>2. UNCHANGED << backlog, codes, visits >>
      BY <1>1 DEF Bind
    <2>3. owner' \in [Ports -> Flows \cup {Nobody}]
      BY <1>u, <2>1
    <2>4. CASE flow' = [flow EXCEPT ![f].phase = "bound", ![f].port = port]
      <3> DEFINE n == [flow[f] EXCEPT !.phase = "bound", !.port = port]
      <3>1. n \in FlowType /\ n.conn = flow[f].conn /\ n.code = flow[f].code
            /\ n.key = flow[f].key /\ n.port = port
        <4>1. flow[f] \in FlowType /\ port \in Ports \cup {Ephemeral}
          BY <1>0
        <4> QED BY <4>1, FlowTakesPort, ZenonT(30)
      <3>2. flow' = [flow EXCEPT ![f] = n]
        BY <2>4, <1>0, ZenonT(30) DEF TypeOK
      <3> HIDE DEF n
      <3> QED BY <1>0, <1>u, <2>2, <2>3, <3>1, <3>2, FlowStep, ZenonT(30)
    <2>5. CASE flow' = [flow EXCEPT ![f].phase = "failed"]
      <3> DEFINE n == [flow[f] EXCEPT !.phase = "failed"]
      <3>1. n \in FlowType /\ n.conn = flow[f].conn /\ n.code = flow[f].code
            /\ n.key = flow[f].key /\ n.port = flow[f].port
        BY <1>0 DEF FlowType
      <3>2. flow' = [flow EXCEPT ![f] = n]
        BY <2>5, <1>0 DEF TypeOK
      <3> HIDE DEF n
      <3> QED BY <1>0, <1>u, <2>2, <2>3, <3>1, <3>2, FlowStep, ZenonT(30)
    <2> QED BY <2>1, <2>4, <2>5
  <1>2. ASSUME NEW f \in Flows, Authorize(f) PROVE LInv'
    <2> DEFINE n == [flow[f] EXCEPT !.phase = "waiting"]
    <2>1. n \in FlowType /\ n.conn = flow[f].conn /\ n.code = flow[f].code
          /\ n.key = flow[f].key /\ n.port = flow[f].port
      BY <1>0 DEF FlowType
    <2>2. flow' = [flow EXCEPT ![f] = n] /\ UNCHANGED << owner, backlog, codes, visits >>
      BY <1>2, <1>0 DEF TypeOK, Authorize
    <2> HIDE DEF n
    <2> QED BY <1>0, <1>u, <2>1, <2>2, FlowStep, ZenonT(30)
  <1>3. ASSUME NEW f \in Flows, Cancel(f) PROVE LInv'
    <2> DEFINE n == [flow[f] EXCEPT !.phase = "dropped", !.conn = NoConnection]
    <2>1. n \in FlowType /\ n.conn = NoConnection /\ n.code = flow[f].code
          /\ n.key = flow[f].key /\ n.port = flow[f].port
      <3>1. flow[f] \in FlowType
        BY <1>0
      <3> QED BY <3>1, NoConnectionOK, FlowTakesConn, ZenonT(30)
    <2>2. flow' = [flow EXCEPT ![f] = n] /\ UNCHANGED << codes, visits >> /\ Closed(f)
      BY <1>3, <1>0, ZenonT(30) DEF TypeOK, Cancel
    <2> HIDE DEF n
    <2> QED BY <1>0, <2>1, <2>2, FlowStep, ClosedOK, ZenonT(30)
  <1>4. ASSUME NEW f \in Flows, Accept(f) PROVE LInv'
    <2> DEFINE n == [flow[f] EXCEPT !.phase = "reading", !.conn = Head(backlog[f])]
    <2>0. /\ backlog[f] \in Seq(ConnType) /\ backlog[f] # << >>
      BY <1>4, <1>u DEF Accept
    <2>1. Head(backlog[f]) \in ConnType /\ Honest(Head(backlog[f]), codes)
      BY <2>0, <1>u
    <2>2. n \in FlowType /\ n.conn = Head(backlog[f]) /\ n.code = flow[f].code
          /\ n.key = flow[f].key /\ n.port = flow[f].port
      <3>1. flow[f] \in FlowType
        BY <1>0
      <3> QED BY <3>1, <2>1, FlowTakesConn, ZenonT(30)
    <2>3. flow' = [flow EXCEPT ![f] = n] /\ UNCHANGED << owner, codes, visits >>
      BY <1>4, <1>0, ZenonT(30) DEF TypeOK, Accept
    <2>4. backlog' = [backlog EXCEPT ![f] = Tail(backlog[f])]
      BY <1>4 DEF Accept
    <2>5. backlog' \in [Flows -> Seq(ConnType)]
      BY <2>0, <2>4, <1>u
    <2>6. ASSUME NEW g \in Flows, NEW i \in 1 .. Len(backlog'[g])
          PROVE  Honest(backlog'[g][i], codes)
      <3>1. CASE g = f
        <4>1. backlog'[g] = Tail(backlog[f])
          BY <2>4, <3>1, <1>u
        <4>2. i + 1 \in 1 .. Len(backlog[f]) /\ Tail(backlog[f])[i] = backlog[f][i + 1]
          BY <2>0, <4>1
        <4> QED BY <4>1, <4>2, <1>u
      <3>2. CASE g # f
        BY <2>4, <3>2, <1>u
      <3> QED BY <3>1, <3>2
    <2> HIDE DEF n
    <2> QED BY <1>u, <2>1, <2>2, <2>3, <2>5, <2>6, FlowStep, ZenonT(30)
  <1>5. ASSUME NEW f \in Flows, NEW approved \in BOOLEAN, Visit(f, approved)
        PROVE  LInv'
    <2> DEFINE code == [of |-> f, challenge |-> CodeChallenge(f), spent |-> FALSE]
               conn == [by |-> f, path |-> CallbackUrl(f), error |-> ~ approved,
                        code |-> IF approved THEN Len(codes) + 1 ELSE 0,
                        state |-> IF Options[f].sends_state THEN f ELSE Absent,
                        heard |-> "nothing"]
    <2>1. /\ flow[f].port \in Ports /\ visits < MaxVisits /\ visits' = visits + 1
          /\ codes' = IF approved THEN Append(codes, code) ELSE codes
          /\ Arrives(flow[f].port, conn) /\ flow' = flow /\ owner' = owner
      BY <1>5, <1>0 DEF Visit, FlowType
    <2>2. code \in CodeType
      BY DEF CodeType, CodeChallenge
    <2>3. conn \in ConnType /\ conn.state \in {conn.by, Absent} /\ conn.by = f
          /\ conn.code = IF approved THEN Len(codes) + 1 ELSE 0
      <3>1. (~ approved) \in BOOLEAN /\ (IF approved THEN Len(codes) + 1 ELSE 0) \in Nat
            /\ (IF Options[f].sends_state THEN f ELSE Absent) \in {f, Absent}
        BY <1>0
      <3>2. conn \in ConnType
        BY <3>1, ConnTyped, ZenonT(30)
      <3> QED BY <3>1, <3>2
    <2>4. code.of = f /\ code.challenge = CodeChallenge(f)
      OBVIOUS
    <2> HIDE DEF code, conn
    <2>5. codes \in Seq(CodeType) /\ Len(codes) <= visits
      BY <1>0 DEF TypeOK
    <2>6. /\ codes' \in Seq(CodeType) /\ Len(codes') \in Nat
          /\ Len(codes') = IF approved THEN Len(codes) + 1 ELSE Len(codes)
          /\ \A c \in 1 .. Len(codes) : codes'[c] = codes[c]
          /\ approved => codes'[Len(codes) + 1] = code
      BY <2>1, <2>2, <2>5
    <2>7. Honest(conn, codes')
      BY <2>3, <2>4, <2>6, <1>0 DEF Honest
    <2>8. /\ backlog' \in [Flows -> Seq(ConnType)]
          /\ \A g \in Flows : \A i \in 1 .. Len(backlog'[g]) : Honest(backlog'[g][i], codes')
      <3>1. Len(codes') \in Nat /\ Len(codes) <= Len(codes')
        BY <2>6, <1>0
      <3>2. \A c \in 1 .. Len(codes) : codes'[c].of = codes[c].of
        BY <2>6
      <3> QED BY <2>1, <2>3, <2>7, <3>1, <3>2, ArrivesOK, ZenonT(30)
    <2>9. CodesAreBound'
      <3> SUFFICES ASSUME NEW c \in 1 .. Len(codes')
                   PROVE  /\ codes'[c].challenge = CodeChallenge(codes'[c].of)
                          /\ flow[codes'[c].of].port \in Ports
        BY <2>1 DEF CodesAreBound, CodeChallenge
      <3>1. CASE c \in 1 .. Len(codes)
        BY <3>1, <2>6 DEF LInv, CodesAreBound
      <3>2. CASE c \notin 1 .. Len(codes)
        <4>1. approved /\ c = Len(codes) + 1
          BY <3>2, <2>6, <1>0
        <4> QED BY <4>1, <2>6, <2>4, <2>1
      <3> QED BY <3>1, <3>2
    <2>10. CapturedCodes'
      <3> SUFFICES ASSUME NEW g \in Flows
                   PROVE  /\ flow[g].code \in 0 .. Len(codes') \cup {CutShort}
                          /\ Options[g].expects_state /\ flow[g].code \in 1 .. Len(codes') =>
                                codes'[flow[g].code].of = g
        BY <2>1, ZenonT(30) DEF CapturedCodes
      <3>1. /\ flow[g].code \in 0 .. Len(codes) \cup {CutShort}
            /\ Options[g].expects_state /\ flow[g].code \in 1 .. Len(codes) =>
                  codes[flow[g].code].of = g
        BY DEF LInv, CapturedCodes
      <3>2. /\ Len(codes) \in Nat /\ Len(codes') \in Nat /\ Len(codes) <= Len(codes')
            /\ CutShort \notin 1 .. Len(codes')
        <4>1. MaxVisits \in Nat /\ visits \in Nat /\ Len(codes) \in Nat
          BY <1>0, LoopbackAssumption DEF LoopbackAssumption
        <4> QED BY <2>1, <2>5, <2>6, <4>1 DEF CutShort
      <3>3. \A c \in 1 .. Len(codes) : codes'[c] = codes[c]
        BY <2>6
      <3>4. flow[g].code \in 1 .. Len(codes') => flow[g].code \in 1 .. Len(codes)
        BY <3>1, <3>2
      <3>5. flow[g].code \in 0 .. Len(codes') \cup {CutShort}
        BY <3>1, <3>2
      <3> QED BY <3>1, <3>3, <3>4, <3>5, ZenonT(30)
    <2>11. /\ visits' \in Nat /\ visits' <= MaxVisits
           /\ Len(codes') <= visits' /\ Len(codes) <= Len(codes')
      <3>1. MaxVisits \in Nat /\ visits \in Nat /\ Len(codes) \in Nat
        BY <1>0, LoopbackAssumption DEF LoopbackAssumption
      <3> QED BY <2>1, <2>5, <2>6, <3>1
    <2>12. codes' \in Seq(CodeType) /\ \A c \in 1 .. Len(codes) : codes'[c].of = codes[c].of
      BY <2>6
    <2> QED BY <2>1, <2>8, <2>9, <2>10, <2>11, <2>12, VisitStep, ZenonT(30)
  <1>6. ASSUME NEW f \in Flows, NEW c \in DOMAIN codes, Reload(f, c)
        PROVE  LInv'
    <2> DEFINE conn == [by |-> f, path |-> CallbackUrl(f), error |-> FALSE, code |-> c,
                        state |-> IF Options[f].sends_state THEN f ELSE Absent,
                        heard |-> "nothing"]
    <2>0. codes \in Seq(CodeType) /\ Len(codes) <= visits
      BY <1>0 DEF TypeOK
    <2>1. /\ visits < MaxVisits /\ visits' = visits + 1 /\ codes[c].of = f
          /\ Arrives(flow[f].port, conn) /\ flow' = flow /\ owner' = owner
          /\ codes' = codes
      BY <1>6 DEF Reload
    <2>2. c \in 1 .. Len(codes) /\ flow[f].port \in Ports
      <3>1. c \in 1 .. Len(codes)
        BY <2>0
      <3>2. codes[c].of = f
        BY <2>1
      <3>3. flow[codes[c].of].port \in Ports
        BY <3>1, ZenonT(30) DEF LInv, CodesAreBound
      <3> QED BY <3>1, <3>2, <3>3, ZenonT(30)
    <2>3. conn \in ConnType /\ conn.state \in {conn.by, Absent} /\ conn.by = f
          /\ conn.code = c
      <3>1. FALSE \in BOOLEAN /\ c \in Nat
            /\ (IF Options[f].sends_state THEN f ELSE Absent) \in {f, Absent}
        BY <2>2
      <3>2. conn \in ConnType
        BY <3>1, ConnTyped, ZenonT(30)
      <3> QED BY <3>1, <3>2
    <2> HIDE DEF conn
    <2>4. Honest(conn, codes')
      <3>1. codes' = codes /\ codes[c].of = f
        BY <2>1
      <3>2. c \in 0 .. Len(codes)
        BY <2>0, <2>2
      <3> QED BY <2>3, <3>1, <3>2, ZenonT(30) DEF Honest
    <2>5. /\ backlog' \in [Flows -> Seq(ConnType)]
          /\ \A g \in Flows : \A i \in 1 .. Len(backlog'[g]) : Honest(backlog'[g][i], codes')
      <3>1. Len(codes') \in Nat /\ Len(codes) <= Len(codes')
        <4>1. codes' = codes /\ codes \in Seq(CodeType)
          BY <1>0, <2>1, ZenonT(30) DEF TypeOK
        <4> QED BY <4>1
      <3>2. \A d \in 1 .. Len(codes) : codes'[d].of = codes[d].of
        BY <2>1, ZenonT(30)
      <3> QED BY <2>1, <2>2, <2>3, <2>4, <3>1, <3>2, ArrivesOK, ZenonT(30)
    <2>6. CodesAreBound' /\ CapturedCodes'
      BY <2>1 DEF LInv, CodesAreBound, CapturedCodes
    <2>7. /\ visits' \in Nat /\ visits' <= MaxVisits
          /\ Len(codes') <= visits' /\ Len(codes) <= Len(codes')
      <3>1. MaxVisits \in Nat /\ visits \in Nat /\ Len(codes) \in Nat
        BY <1>0, LoopbackAssumption DEF LoopbackAssumption
      <3> QED BY <2>0, <2>1, <3>1
    <2>8. codes' \in Seq(CodeType) /\ \A d \in 1 .. Len(codes) : codes'[d].of = codes[d].of
      BY <2>0, <2>1, ZenonT(30)
    <2> QED BY <2>1, <2>5, <2>6, <2>7, <2>8, VisitStep, ZenonT(30)
  <1>7. ASSUME NEW port \in Ports, Stray(port) PROVE LInv'
    <2> DEFINE conn == [NoConnection EXCEPT !.path = Icon]
    <2>1. /\ Arrives(port, conn) /\ flow' = flow /\ owner' = owner
          /\ codes' = codes /\ visits' = visits
      BY <1>7 DEF Stray, Icon
    <2>2. conn \in ConnType /\ conn.state = Absent /\ conn.code = 0
      BY ZenonT(30) DEF NoConnection, ConnType
    <2> HIDE DEF conn
    <2>3. Honest(conn, codes')
      <3>1. codes' = codes /\ codes \in Seq(CodeType)
        BY <1>0, <2>1, ZenonT(30) DEF TypeOK
      <3>2. 0 \in 0 .. Len(codes)
        BY <3>1
      <3> QED BY <2>2, <3>1, <3>2, ZenonT(30) DEF Honest
    <2>4. /\ backlog' \in [Flows -> Seq(ConnType)]
          /\ \A g \in Flows : \A i \in 1 .. Len(backlog'[g]) : Honest(backlog'[g][i], codes')
      <3>1. Len(codes') \in Nat /\ Len(codes) <= Len(codes')
        <4>1. codes' = codes /\ codes \in Seq(CodeType)
          BY <1>0, <2>1, ZenonT(30) DEF TypeOK
        <4> QED BY <4>1
      <3>2. \A d \in 1 .. Len(codes) : codes'[d].of = codes[d].of
        BY <2>1, ZenonT(30)
      <3> QED BY <2>1, <2>2, <2>3, <3>1, <3>2, ArrivesOK, ZenonT(30)
    <2>5. CodesAreBound' /\ CapturedCodes'
      BY <2>1 DEF LInv, CodesAreBound, CapturedCodes
    <2>6. /\ visits' \in Nat /\ visits' <= MaxVisits
          /\ Len(codes') <= visits' /\ Len(codes) <= Len(codes')
      <3>1. visits <= MaxVisits /\ visits \in Nat /\ Len(codes) \in Nat /\ Len(codes) <= visits
        BY <1>0 DEF TypeOK
      <3> QED BY <2>1, <3>1
    <2>7. codes' \in Seq(CodeType) /\ \A d \in 1 .. Len(codes) : codes'[d].of = codes[d].of
      <3>1. codes \in Seq(CodeType)
        BY <1>0 DEF TypeOK
      <3> QED BY <2>1, <3>1, ZenonT(30)
    <2> QED BY <2>1, <2>4, <2>5, <2>6, <2>7, VisitStep, ZenonT(30)
  <1>8. ASSUME NEW f \in Flows, NEW utterance \in Utterances, Speak(f, utterance)
        PROVE  LInv'
    <2> DEFINE conn == [flow[f].conn EXCEPT !.heard = utterance]
               n == [flow[f] EXCEPT !.conn = conn]
    <2>0. flow[f] \in FlowType /\ flow[f].conn \in ConnType
      BY <1>0 DEF FlowType
    <2>1. conn \in ConnType /\ conn.state = flow[f].conn.state
          /\ conn.code = flow[f].conn.code /\ conn.by = flow[f].conn.by
      BY <2>0, ZenonT(30) DEF ConnType
    <2>2. flow' = [flow EXCEPT ![f] = n]
          /\ UNCHANGED << owner, backlog, codes, visits >>
      BY <1>8, <2>0, <1>0, ZenonT(30) DEF Speak, TypeOK
    <2> HIDE DEF conn
    <2>3. n \in FlowType /\ n.conn = conn /\ n.code = flow[f].code
          /\ n.key = flow[f].key /\ n.port = flow[f].port
      BY <2>0, <2>1 DEF FlowType
    <2>4. Honest(conn, codes)
      BY <2>1, <1>0 DEF Honest
    <2> HIDE DEF n
    <2> QED BY <2>2, <2>3, <2>4, <1>u, FlowStep, ZenonT(30)
  <1>9. ASSUME NEW f \in Flows, Read(f) PROVE LInv'
    <2>0. flow[f] \in FlowType /\ flow[f].conn \in ConnType
      BY <1>0 DEF FlowType
    <2>1. PICK got \in ReadReturns(flow[f].conn) :
             \/ /\ got # NoConnection
                /\ ValidCallback(got, BoundPath(f), ExpectedState(f))
                /\ flow' = [flow EXCEPT ![f].phase = "captured", ![f].code = got.code,
                                        ![f].conn = NoConnection]
             \/ flow' = [flow EXCEPT ![f].phase = "failed", ![f].conn = NoConnection]
      BY <1>9 DEF Read
    <2>2. UNCHANGED << codes, visits >> /\ Closed(f)
      BY <1>9 DEF Read
    <2>3. CASE flow' = [flow EXCEPT ![f].phase = "failed", ![f].conn = NoConnection]
      <3> DEFINE n == [flow[f] EXCEPT !.phase = "failed", !.conn = NoConnection]
      <3>1. n \in FlowType /\ n.conn = NoConnection /\ n.code = flow[f].code
            /\ n.key = flow[f].key /\ n.port = flow[f].port
        BY <2>0, NoConnectionOK, FlowTakesConn, ZenonT(30)
      <3>2. flow' = [flow EXCEPT ![f] = n]
        BY <2>3, <1>0, ZenonT(30) DEF TypeOK
      <3> HIDE DEF n
      <3> QED BY <1>0, <2>2, <3>1, <3>2, FlowStep, ClosedOK, ZenonT(30)
    <2>4. CASE /\ got # NoConnection
               /\ ValidCallback(got, BoundPath(f), ExpectedState(f))
               /\ flow' = [flow EXCEPT ![f].phase = "captured", ![f].code = got.code,
                                       ![f].conn = NoConnection]
      <3>1. /\ got.state = flow[f].conn.state
            /\ got.code = flow[f].conn.code \/ got.code = CutShort
        BY <2>0, <2>1, <2>4 DEF ReadReturns, ConnType
      <3>2. Options[f].expects_state => got.state = f
        BY <2>4 DEF ValidCallback, ExpectedState
      <3>3. got.code \in 0 .. Len(codes) \cup {CutShort} /\ got.code \in Nat
        BY <3>1, <1>0, LoopbackAssumption DEF Honest, CutShort, LoopbackAssumption
      <3>4. Options[f].expects_state /\ got.code \in 1 .. Len(codes) =>
               codes[got.code].of = f
        <4> SUFFICES ASSUME Options[f].expects_state, got.code \in 1 .. Len(codes)
                     PROVE  codes[got.code].of = f
          OBVIOUS
        <4>1. got.code # CutShort
          <5>1. codes \in Seq(CodeType) /\ Len(codes) <= visits /\ visits <= MaxVisits
                /\ visits \in Nat
            BY <1>0, ZenonT(30) DEF TypeOK
          <5>2. Len(codes) \in Nat
            BY <5>1
          <5>3. MaxVisits \in Nat
            BY LoopbackAssumption DEF LoopbackAssumption
          <5> QED BY <5>1, <5>2, <5>3 DEF CutShort
        <4>2. flow[f].conn.by = f
          BY <3>1, <3>2, <1>0, LoopbackAssumption DEF Honest, LoopbackAssumption
        <4>3. Honest(flow[f].conn, codes)
          BY <1>0
        <4>4. flow[f].conn.code = got.code
          BY <3>1, <4>1, ZenonT(30)
        <4>5. got.code # 0
          OBVIOUS
        <4> QED BY <4>2, <4>3, <4>4, <4>5, ZenonT(30) DEF Honest
      <3> DEFINE n == [flow[f] EXCEPT !.phase = "captured", !.code = got.code,
                                    !.conn = NoConnection]
      <3>5. n \in FlowType /\ n.conn = NoConnection /\ n.code = got.code
            /\ n.key = flow[f].key /\ n.port = flow[f].port
        BY <2>0, <3>3, FlowTakesCode, ZenonT(60)
      <3>6. flow' = [flow EXCEPT ![f] = n]
        BY <2>4, <1>0, ZenonT(30) DEF TypeOK
      <3> HIDE DEF n
      <3>7. \A g \in n.key :
               f = g \/ (~ Options[f].expects_state /\ CodeChallenge(g) = Nobody)
        BY <3>5 DEF LInv, KeysAreOwn
      <3>8. codes' \in Seq(CodeType) /\ Len(codes') = Len(codes)
        BY <2>2, <1>0 DEF TypeOK
      <3>9. Options[f].expects_state /\ n.code \in 1 .. Len(codes) => codes[n.code].of = f
        BY <3>4, <3>5
      <3> QED BY <1>0, <2>2, <3>3, <3>5, <3>6, <3>7, <3>8, <3>9, FlowBecomes, ClosedOK, ZenonT(30)
    <2> QED BY <2>1, <2>3, <2>4
  <1>10. ASSUME NEW f \in Flows, NEW lost \in BOOLEAN, Exchange(f, lost)
         PROVE  LInv'
    <2> DEFINE c == flow[f].code
    <2>0. flow[f] \in FlowType /\ codes \in Seq(CodeType)
      BY <1>0 DEF TypeOK
    <2>1. UNCHANGED << owner, backlog, visits >>
      BY <1>10 DEF Exchange
    <2>2. \/ codes' = codes
          \/ Honours(c, f) /\ codes' = [codes EXCEPT ![c].spent = TRUE]
      BY <1>10 DEF Exchange
    <2>3. \/ flow' = [flow EXCEPT ![f].phase = "failed"]
          \/ /\ Honours(c, f)
             /\ flow' = [flow EXCEPT ![f].phase = "signed_in", ![f].key = {codes[c].of}]
      BY <1>10 DEF Exchange
    <2>4. c \in 0 .. Len(codes) \cup {CutShort}
          /\ (Options[f].expects_state /\ c \in 1 .. Len(codes) => codes[c].of = f)
      BY DEF LInv, CapturedCodes
    <2>5. \A g \in flow[f].key :
             f = g \/ (~ Options[f].expects_state /\ CodeChallenge(g) = Nobody)
      BY DEF LInv, KeysAreOwn
    <2>6. Honours(c, f) => c \in 1 .. Len(codes) /\ codes[c] \in CodeType
      BY <2>0 DEF Honours
    <2>7. /\ codes' \in Seq(CodeType) /\ Len(codes') = Len(codes)
          /\ \A k \in 1 .. Len(codes) : /\ codes'[k].of = codes[k].of
                                        /\ codes'[k].challenge = codes[k].challenge
      <3>1. CASE codes' = codes
        BY <2>0, <3>1
      <3>2. CASE Honours(c, f) /\ codes' = [codes EXCEPT ![c].spent = TRUE]
        <4> DEFINE d == [codes[c] EXCEPT !.spent = TRUE]
        <4>1. d \in CodeType /\ d.of = codes[c].of /\ d.challenge = codes[c].challenge
          BY <2>6, <3>2, ZenonT(30) DEF CodeType
        <4>2. codes' = [codes EXCEPT ![c] = d]
          BY <3>2
        <4> HIDE DEF c, d
        <4>3. c \in 1 .. Len(codes)
          BY <2>6, <3>2
        <4>4. codes' \in Seq(CodeType) /\ Len(codes') = Len(codes)
          BY <2>0, <4>1, <4>2, <4>3
        <4>5. \A k \in 1 .. Len(codes) : codes'[k] = IF k = c THEN d ELSE codes[k]
          BY <2>0, <4>2, <4>3
        <4> QED BY <4>1, <4>4, <4>5
      <3> QED BY <2>2, <3>1, <3>2
    <2> HIDE DEF c
    <2>8. CASE flow' = [flow EXCEPT ![f].phase = "failed"]
      <3> DEFINE n == [flow[f] EXCEPT !.phase = "failed"]
      <3>1. n \in FlowType /\ n.conn = flow[f].conn /\ n.code = c
            /\ n.key = flow[f].key /\ n.port = flow[f].port
        BY <2>0 DEF FlowType, c
      <3>2. flow' = [flow EXCEPT ![f] = n]
        BY <2>8, <1>0 DEF TypeOK
      <3> HIDE DEF n
      <3>3. \A g \in n.key :
               f = g \/ (~ Options[f].expects_state /\ CodeChallenge(g) = Nobody)
        BY <2>5, <3>1
      <3> QED BY <1>0, <1>u, <2>1, <2>4, <2>7, <3>1, <3>2, <3>3, FlowBecomes, ZenonT(30)
    <2>9. CASE /\ Honours(c, f)
               /\ flow' = [flow EXCEPT ![f].phase = "signed_in", ![f].key = {codes[c].of}]
      <3> DEFINE n == [flow[f] EXCEPT !.phase = "signed_in", !.key = {codes[c].of}]
      <3>1. codes[c].of \in Flows
        BY <2>6, <2>9 DEF CodeType
      <3>2. {codes[c].of} \in SUBSET Flows
        BY <3>1
      <3>3. n \in FlowType /\ n.conn = flow[f].conn /\ n.code = c
            /\ n.key = {codes[c].of} /\ n.port = flow[f].port
        BY <2>0, <3>2, FlowTakesKey, ZenonT(60) DEF c
      <3>4. flow' = [flow EXCEPT ![f] = n]
        BY <2>9, <1>0, ZenonT(30) DEF TypeOK
      <3>5. CodeChallenge(codes[c].of) \in {Nobody, f}
        BY <2>6, <2>9 DEF Honours, LInv, CodesAreBound
      <3>6. \/ f = codes[c].of
            \/ ~ Options[f].expects_state /\ CodeChallenge(codes[c].of) = Nobody
        <4>1. CASE CodeChallenge(codes[c].of) = f
          BY <4>1, LoopbackAssumption DEF CodeChallenge, LoopbackAssumption
        <4>2. CASE CodeChallenge(codes[c].of) = Nobody
          BY <4>2, <2>4, <2>6, <2>9, LoopbackAssumption DEF LoopbackAssumption
        <4> QED BY <3>5, <4>1, <4>2
      <3> HIDE DEF n
      <3>7. \A g \in n.key :
               f = g \/ (~ Options[f].expects_state /\ CodeChallenge(g) = Nobody)
        BY <3>3, <3>6
      <3> QED BY <1>0, <1>u, <2>1, <2>4, <2>7, <3>3, <3>4, <3>7, FlowBecomes, ZenonT(30)
    <2> QED BY <2>3, <2>8, <2>9 DEF c
  <1>11. CASE UNCHANGED vars
    <2>1. UNCHANGED << flow, owner, backlog, codes, visits >>
      BY <1>11 DEF vars
    <2> QED BY <2>1 DEF LInv, TypeOK, ConnectionsAreHonest, CodesAreBound,
                        CapturedCodes, KeysAreOwn
  <1> QED BY <1>1, <1>2, <1>3, <1>4, <1>5, <1>6, <1>7, <1>8, <1>9, <1>10, <1>11
          DEF Next

(* For any sign-ins, ports and redirects: no sign-in ends with the code or *)
(* the key of another that the state or the challenge was there to tell    *)
(* apart (validate_callback and exchange_oauth_key, oauth.rs).             *)
THEOREM SignInsApart == Spec => []SignInsNeverCross
  BY InitLInv, StepLInv, LInvSuffices, PTL DEF Spec

-----------------------------------------------------------------------------
(***************************************************************************)
(*                                The worker                               *)
(*                                                                         *)
(* For any intervals, backoffs, pauses and answers, any clock lag of the   *)
(* callers and any number of records: no wake-up is lost and flushes keep  *)
(* their distance.                                                         *)
(***************************************************************************)

StateType ==
    [pending : Nat, rate : Int, interval : 1 .. BackoffMax, backoff : Nat,
     backoff_until : Nat, paused_until : Nat, next_flush_at : Nat,
     urgent_not_before : Nat, urgent_flush : BOOLEAN, disabled : BOOLEAN,
     closed : BOOLEAN, worker_started : BOOLEAN]

WorkerPcs == {"none", "top", "drowsy", "asleep", "flush", "lock", "posted",
              "after", "gone", "dead", "done"}

CloserPcs == {"open", "closing", "waiting", "returned"}

TypeInv ==
    /\ state \in StateType
    /\ permit \in BOOLEAN
    /\ pc \in [Flushers -> WorkerPcs]
    /\ sleep \in Nat
    /\ batch \in [Flushers -> Nat]
    /\ closer \in [pc : CloserPcs, timer : Nat]
    /\ quiet \in 0 .. BackoffMax

(* Who is alive: the worker once it was started, the thread once close()   *)
(* began.                                                                  *)
Lifecycle ==
    /\ state.worker_started <=> pc["worker"] # "none"
    /\ state.closed <=> closer.pc # "open"
    /\ pc["thread"] # "none" => state.closed

Sleeping == pc["worker"] \in {"drowsy", "asleep"}

(* Between two flushes nothing but the clock moves the worker's times: an  *)
(* urgent flush is never due before the regular one unless nothing holds   *)
(* it back, and both are a full interval from the last attempt.            *)
Fresh(s) == Gate(s) = 0 /\ s.urgent_not_before = 0

Spaced(s, q) ==
    /\ s.next_flush_at <= s.urgent_not_before \/ Fresh(s)
    /\ q + s.urgent_not_before >= s.interval
    /\ q + s.next_flush_at >= s.interval

(* A sleeper was not needed when it decided, and whoever needs it later    *)
(* leaves a permit; what only has to wait for the clock is due no sooner   *)
(* than the sleep is over.                                                 *)
Rested(s, p, z) ==
    /\ ~ s.disabled
    /\ ~ p /\ s.urgent_flush => z <= Larger(Gate(s), s.urgent_not_before)

WInv ==
    /\ TypeInv
    /\ Lifecycle
    /\ state.closed /\ closer.pc # "closing" /\ Sleeping => permit
    /\ ~ state.closed =>
         /\ pc["worker"] = "none" => Fresh(state) /\ quiet = BackoffMax
         /\ pc["worker"] \in {"none", "top", "drowsy", "asleep"} =>
              Spaced(state, quiet)
         /\ Sleeping => Rested(state, permit, sleep)

-----------------------------------------------------------------------------
(* The invariant is what the properties need.                              *)
LEMMA WInvIsEnough == WInv => NoLostWakeUp
  <1> SUFFICES ASSUME WInv, Sleeping, ~ permit, sleep # 0, closer.pc # "closing"
               PROVE  ~ Stopped(state) /\ ~ UrgentDue(state)
    BY DEF NoLostWakeUp, Sleeping
  <1>1. ~ state.closed
    BY DEF WInv
  <1>2. Rested(state, permit, sleep)
    BY <1>1 DEF WInv
  <1>3. sleep \in Nat /\ sleep > 0
    BY DEF WInv, TypeInv
  <1>4. ~ UrgentDue(state)
    BY <1>2, <1>3 DEF Rested, UrgentDue, Larger
  <1> QED BY <1>1, <1>2, <1>4 DEF Stopped, Rested

(* Deciding to flush.                                                      *)
LEMMA DecideIsSpaced ==
    ASSUME WInv, Decide, pc'["worker"] = "flush"
    PROVE  quiet >= state.interval /\ Gate(state) = 0
  <1>1. pc["worker"] = "top" /\ ~ Stopped(state)
    BY DEF Decide, WInv, TypeInv, Flushers, WorkerPcs
  <1>2. Spaced(state, quiet)
    BY <1>1 DEF WInv, Stopped
  <1>3. UrgentDue(state) \/ Wait(state) = 0
    BY DEF Decide, WInv, TypeInv, Flushers, WorkerPcs
  <1>4. CASE UrgentDue(state)
    BY <1>2, <1>4 DEF Spaced, UrgentDue, WInv, TypeInv, StateType
  <1>5. CASE Wait(state) = 0
    <2>1. Gate(state) \in Nat /\ state.next_flush_at \in Nat
      BY DEF Gate, Larger, WInv, TypeInv, StateType
    <2>2. state.next_flush_at = 0 /\ Gate(state) = 0
      BY <1>5, <2>1 DEF Wait, Larger
    <2> QED BY <1>2, <2>2 DEF Spaced, WInv, TypeInv, StateType
  <1> QED BY <1>3, <1>4, <1>5

(* What an answer or a failed POST makes of the state.                     *)
LEMMA SetBackoffOK ==
    ASSUME NEW s \in StateType, NEW after \in Int
    PROVE  LET n == SetBackoff(s, 0, after)
           IN  /\ n \in StateType /\ n.closed = s.closed
               /\ n.worker_started = s.worker_started
  <1>1. /\ 0 + Smaller(Larger(s.backoff, after), BackoffMax) \in Nat
        /\ Smaller(Larger(2 * s.backoff, BackoffMin), BackoffMax) \in Nat
    BY GatesAssumption DEF StateType, Smaller, Larger
  <1> QED BY <1>1, ZenonT(30) DEF SetBackoff, StateType

(* handle_response keeps the types and neither closes nor starts anything. *)
LEMMA HandleResponseOK ==
    ASSUME NEW s \in StateType, NEW n \in Nat, NEW a \in Answers
    PROVE  LET new == HandleResponse(s, n, a)
           IN  /\ new \in StateType /\ new.closed = s.closed
               /\ new.worker_started = s.worker_started
  <1>1. /\ a.kind \in {"accepted", "off", "too_large", "busy"}
        /\ a.retry_after \in Int /\ a.rate \in Int
        /\ a.interval \in Int /\ a.pause \in Int
    BY WorkerAssumption DEF AnswerType
  <1>2. CASE a.kind = "off"
    <2>1. HandleResponse(s, n, a) = [s EXCEPT !.disabled = TRUE, !.pending = 0]
      BY <1>2 DEF HandleResponse
    <2>2. \A b \in BOOLEAN, k \in Nat :
             LET new == [s EXCEPT !.disabled = b, !.pending = k]
             IN  /\ new \in StateType /\ new.closed = s.closed
                 /\ new.worker_started = s.worker_started
      BY ZenonT(30) DEF StateType
    <2>3. ASSUME NEW b \in BOOLEAN, b = TRUE, NEW k \in Nat, k = 0
          PROVE  HandleResponse(s, n, a) = [s EXCEPT !.disabled = b, !.pending = k]
      BY <2>1, <2>3
    <2>4. PICK b \in BOOLEAN, k \in Nat :
             HandleResponse(s, n, a) = [s EXCEPT !.disabled = b, !.pending = k]
      BY <2>3, ZenonT(30)
    <2>5. /\ [s EXCEPT !.disabled = b, !.pending = k] \in StateType
          /\ [s EXCEPT !.disabled = b, !.pending = k].closed = s.closed
          /\ [s EXCEPT !.disabled = b, !.pending = k].worker_started = s.worker_started
      BY <2>2, ZenonT(30)
    <2> QED BY <2>4, <2>5
  <1>r. /\ Retired(s, n) \in StateType /\ Retired(s, n).closed = s.closed
        /\ Retired(s, n).worker_started = s.worker_started
    BY DEF Retired, StateType, Minus, Larger
  <1>3. CASE a.kind = "too_large"
    <2>1. HandleResponse(s, n, a) = Retired(s, n)
      BY <1>3 DEF HandleResponse
    <2> QED BY <1>r, <2>1
  <1>4. CASE a.kind = "busy"
    <2>1. HandleResponse(s, n, a) = SetBackoff(s, 0, a.retry_after)
      BY <1>4 DEF HandleResponse
    <2> QED BY <1>1, <2>1, SetBackoffOK, ZenonT(60)
  <1>5. CASE a.kind = "accepted"
    <2> DEFINE r == ResetBackoff(Retired(s, n))
    <2>1. HandleResponse(s, n, a) = ApplyPolicy(r, a, 0)
      BY <1>5 DEF HandleResponse
    <2>2. /\ r \in StateType /\ r.closed = s.closed
          /\ r.worker_started = s.worker_started
      BY <1>r, GatesAssumption, ZenonT(30) DEF ResetBackoff, StateType
    <2> HIDE DEF r
    <2>3. /\ (IF a.rate \in 0 .. r.rate - 1 THEN a.rate ELSE r.rate) \in Int
          /\ (IF a.interval > r.interval THEN Smaller(a.interval, BackoffMax)
              ELSE r.interval) \in 1 .. BackoffMax
          /\ (IF a.pause \in 0 .. MaxPause THEN Larger(r.paused_until, 0 + a.pause)
              ELSE r.paused_until) \in Nat
      BY <1>1, <2>2, GatesAssumption DEF StateType, Smaller, Larger
    <2>4. /\ ApplyPolicy(r, a, 0) \in StateType
          /\ ApplyPolicy(r, a, 0).closed = r.closed
          /\ ApplyPolicy(r, a, 0).worker_started = r.worker_started
      BY <2>2, <2>3, ZenonT(30) DEF ApplyPolicy, StateType
    <2> QED BY <2>1, <2>2, <2>4
  <1> QED BY <1>1, <1>2, <1>3, <1>4, <1>5
-----------------------------------------------------------------------------
(* Time passing keeps the invariant.                                       *)
LEMMA TickKeeps == WInv /\ Tick => WInv'
  <1> SUFFICES ASSUME WInv, Tick PROVE WInv'
    OBVIOUS
  <1>0. BackoffMax \in Nat
    BY GatesAssumption
  <1>1. /\ Minus(sleep, 1) \in Nat /\ Minus(closer.timer, 1) \in Nat
        /\ Smaller(quiet + 1, BackoffMax) \in 0 .. BackoffMax
    BY <1>0 DEF WInv, TypeInv, Minus, Larger, Smaller
  <1>2. \A n \in Nat : Minus(n, 1) \in Nat
    BY DEF Minus, Larger
  <1>3. /\ state' \in StateType
        /\ state'.backoff_until = Minus(state.backoff_until, 1)
        /\ state'.paused_until = Minus(state.paused_until, 1)
        /\ state'.next_flush_at = Minus(state.next_flush_at, 1)
        /\ state'.urgent_not_before = Minus(state.urgent_not_before, 1)
        /\ state'.interval = state.interval
        /\ state'.urgent_flush = state.urgent_flush
        /\ state'.disabled = state.disabled
        /\ state'.closed = state.closed
        /\ state'.worker_started = state.worker_started
    BY <1>2, ZenonT(30) DEF Tick, WInv, TypeInv, StateType
  <1>4. /\ closer' \in [pc : CloserPcs, timer : Nat] /\ closer'.pc = closer.pc
        /\ UNCHANGED << permit, pc, batch >>
        /\ sleep' = Minus(sleep, 1) /\ quiet' = Smaller(quiet + 1, BackoffMax)
    BY <1>1 DEF Tick, WInv, TypeInv
  <1>5. TypeInv'
    BY <1>1, <1>3, <1>4 DEF WInv, TypeInv
  <1>6. Lifecycle'
    BY <1>3, <1>4 DEF WInv, Lifecycle
  <1>t. /\ state.backoff_until \in Nat /\ state.paused_until \in Nat
        /\ state.next_flush_at \in Nat /\ state.urgent_not_before \in Nat
        /\ state.interval \in 1 .. BackoffMax
        /\ sleep \in Nat /\ quiet \in 0 .. BackoffMax
    BY DEF WInv, TypeInv, StateType
  <1>7. Fresh(state) => Fresh(state')
    BY <1>3, <1>t DEF Fresh, Gate, Minus, Larger
  <1>8. quiet = BackoffMax => quiet' = BackoffMax
    BY <1>0, <1>4 DEF Smaller
  <1>9. Spaced(state, quiet) => Spaced(state', quiet')
    <2>1. quiet' = quiet + 1 \/ quiet' = BackoffMax
      BY <1>4 DEF Smaller
    <2>2. ASSUME NEW u \in Nat, quiet + u >= state.interval
          PROVE  quiet' + Minus(u, 1) >= state.interval
      BY <1>0, <1>t, <2>1, <2>2 DEF Minus, Larger
    <2>3. state.next_flush_at <= state.urgent_not_before =>
             state'.next_flush_at <= state'.urgent_not_before
      BY <1>3, <1>t DEF Minus, Larger
    <2> QED BY <1>3, <1>7, <1>t, <2>2, <2>3 DEF Spaced
  <1>10. Rested(state, permit, sleep) => Rested(state', permit', sleep')
    <2>1. \A a, b \in Nat : Minus(Larger(a, b), 1) = Larger(Minus(a, 1), Minus(b, 1))
      BY DEF Minus, Larger
    <2>2. \A a, b \in Nat : a <= b => Minus(a, 1) <= Minus(b, 1)
      BY DEF Minus, Larger
    <2>3. \A a, b \in Nat : Larger(a, b) \in Nat
      BY DEF Larger
    <2> DEFINE wake(s) == Larger(Gate(s), s.urgent_not_before)
    <2>g. Gate(state) \in Nat /\ Gate(state') = Minus(Gate(state), 1)
      <3>1. Gate(state) \in Nat
        BY <1>t, <2>3 DEF Gate
      <3>2. Gate(state') = Larger(Minus(state.paused_until, 1),
                                  Minus(state.backoff_until, 1))
        BY <1>3 DEF Gate
      <3>3. Minus(Gate(state), 1) = Larger(Minus(state.paused_until, 1),
                                           Minus(state.backoff_until, 1))
        BY <1>t, <2>1 DEF Gate
      <3> QED BY <3>1, <3>2, <3>3
    <2>4. wake(state) \in Nat /\ wake(state') = Minus(wake(state), 1)
      <3>1. wake(state) \in Nat
        BY <1>t, <2>3, <2>g
      <3>2. wake(state') = Larger(Minus(Gate(state), 1),
                                  Minus(state.urgent_not_before, 1))
        BY <1>3, <2>g
      <3>3. Minus(wake(state), 1) = Larger(Minus(Gate(state), 1),
                                           Minus(state.urgent_not_before, 1))
        BY <1>t, <2>1, <2>g
      <3> QED BY <3>1, <3>2, <3>3
    <2>5. sleep <= wake(state) => sleep' <= wake(state')
      BY <1>4, <1>t, <2>2, <2>4
    <2> QED BY <1>3, <1>4, <2>5 DEF Rested
  <1> QED BY <1>3, <1>4, <1>5, <1>6, <1>7, <1>8, <1>9, <1>10
          DEF WInv, Sleeping

(* Recording keeps it: whoever makes the backlog urgent leaves a permit.   *)
LEMMA RecordKeeps == WInv /\ Record => WInv'
  <1> SUFFICES ASSUME WInv, Record PROVE WInv'
    OBVIOUS
  <1>1. PICK runtime \in BOOLEAN, lag \in 0 .. MaxLag :
           LET s == StartWorker([state EXCEPT !.pending = @ + 1], runtime, lag)
           IN  /\ state' = [s EXCEPT !.urgent_flush = @ \/ Urgent(s)]
               /\ permit' = IF Urgent(s) THEN NotifyOne ELSE permit
               /\ pc' = IF s.worker_started /\ ~ state.worker_started
                        THEN [pc EXCEPT !["worker"] = "top"] ELSE pc
    BY DEF Record
  <1> DEFINE more == [state EXCEPT !.pending = @ + 1]
             s == StartWorker(more, runtime, lag)
  <1>2. /\ more \in StateType
        /\ more.interval = state.interval
        /\ more.worker_started = state.worker_started
        /\ more.urgent_flush = state.urgent_flush
        /\ more.next_flush_at = state.next_flush_at
        /\ more.urgent_not_before = state.urgent_not_before
        /\ more.backoff_until = state.backoff_until
        /\ more.paused_until = state.paused_until
        /\ more.disabled = state.disabled /\ more.closed = state.closed
    BY DEF WInv, TypeInv, StateType
  <1>3. ~ state.closed /\ ~ state.disabled
        /\ UNCHANGED << sleep, batch, lock, closer, client, quiet >>
    BY DEF Record
  <1> HIDE DEF more
  <1>4. /\ s \in StateType
        /\ s.interval = state.interval
        /\ s.urgent_flush = state.urgent_flush
        /\ s.urgent_not_before = state.urgent_not_before
        /\ s.backoff_until = state.backoff_until
        /\ s.paused_until = state.paused_until
        /\ s.disabled = state.disabled /\ s.closed = state.closed
        /\ \/ /\ s.worker_started = state.worker_started
              /\ s.next_flush_at = state.next_flush_at
           \/ s.worker_started /\ ~ state.worker_started
    <2>1. Minus(more.interval, lag) \in Nat
      BY <1>2, WorkerAssumption DEF StateType, Minus, Larger
    <2>2. \A b \in BOOLEAN, k \in Nat :
             LET new == [more EXCEPT !.next_flush_at = k, !.worker_started = b]
             IN  /\ new \in StateType
                 /\ new.interval = more.interval
                 /\ new.urgent_flush = more.urgent_flush
                 /\ new.urgent_not_before = more.urgent_not_before
                 /\ new.backoff_until = more.backoff_until
                 /\ new.paused_until = more.paused_until
                 /\ new.disabled = more.disabled /\ new.closed = more.closed
                 /\ new.worker_started = b
      BY <1>2, ZenonT(30) DEF StateType
    <2>3. CASE more.worker_started \/ ~ runtime
      BY <1>2, <2>3, ZenonT(30) DEF StartWorker
    <2>4. CASE ~ (more.worker_started \/ ~ runtime)
      <3>1. s = [more EXCEPT !.next_flush_at = Minus(more.interval, lag),
                             !.worker_started = TRUE]
        BY <2>4 DEF StartWorker
      <3> HIDE DEF s
      <3> QED BY <1>2, <2>1, <2>2, <2>4, <3>1, ZenonT(30)
    <2> QED BY <2>3, <2>4
  <1>5. /\ state' = [s EXCEPT !.urgent_flush = @ \/ Urgent(s)]
        /\ permit' = IF Urgent(s) THEN TRUE ELSE permit
        /\ pc' = IF s.worker_started /\ ~ state.worker_started
                 THEN [pc EXCEPT !["worker"] = "top"] ELSE pc
    BY <1>1 DEF NotifyOne, more
  <1> HIDE DEF s
  <1>6. /\ state' \in StateType
        /\ state'.interval = state.interval
        /\ state'.urgent_flush = (s.urgent_flush \/ Urgent(s))
        /\ state'.urgent_not_before = state.urgent_not_before
        /\ state'.next_flush_at = s.next_flush_at
        /\ Gate(state') = Gate(state)
        /\ ~ state'.disabled /\ ~ state'.closed
        /\ state'.worker_started = s.worker_started
    <2>1. (s.urgent_flush \/ Urgent(s)) \in BOOLEAN
      BY DEF Urgent
    <2>2. \A b \in BOOLEAN :
             LET new == [s EXCEPT !.urgent_flush = b]
             IN  /\ new \in StateType
                 /\ new.interval = s.interval
                 /\ new.urgent_flush = b
                 /\ new.urgent_not_before = s.urgent_not_before
                 /\ new.next_flush_at = s.next_flush_at
                 /\ new.backoff_until = s.backoff_until
                 /\ new.paused_until = s.paused_until
                 /\ new.disabled = s.disabled /\ new.closed = s.closed
                 /\ new.worker_started = s.worker_started
      BY <1>4 DEF StateType
    <2> QED BY <1>3, <1>4, <1>5, <2>1, <2>2, ZenonT(30) DEF Gate
  <1>p. pc \in [Flushers -> WorkerPcs] /\ "worker" \in Flushers
    BY DEF WInv, TypeInv, Flushers
  <1>t. /\ BackoffMax \in Nat /\ state.interval \in 1 .. BackoffMax
        /\ state.urgent_not_before \in Nat /\ state'.next_flush_at \in Nat
    BY <1>6, GatesAssumption DEF WInv, TypeInv, StateType
  <1>u. permit' \in BOOLEAN
    BY <1>5, ZenonT(30) DEF WInv, TypeInv
  <1>7. CASE s.worker_started /\ ~ state.worker_started
    <2>1. pc["worker"] = "none" /\ Fresh(state) /\ quiet = BackoffMax
      BY <1>3, <1>7 DEF WInv, Lifecycle
    <2>2. /\ pc' \in [Flushers -> WorkerPcs] /\ pc'["worker"] = "top"
          /\ pc'["thread"] = pc["thread"]
      BY <1>5, <1>7, <1>p DEF WorkerPcs, Flushers
    <2>3. Fresh(state') /\ Spaced(state', quiet')
      <3>1. Fresh(state')
        BY <1>6, <2>1, ZenonT(30) DEF Fresh
      <3>2. state'.urgent_not_before = 0 /\ state'.interval = state.interval
            /\ quiet' = BackoffMax /\ state'.next_flush_at \in Nat
        BY <1>3, <1>6, <1>t, <2>1, ZenonT(30) DEF Fresh
      <3> QED BY <1>t, <3>1, <3>2 DEF Spaced
    <2>4. TypeInv'
      BY <1>3, <1>6, <1>u, <2>2 DEF WInv, TypeInv
    <2>5. Lifecycle'
      BY <1>3, <1>6, <1>7, <2>2 DEF WInv, Lifecycle
    <2>6. ~ Sleeping'
      BY <2>2 DEF Sleeping
    <2> QED BY <1>6, <2>2, <2>3, <2>4, <2>5, <2>6 DEF WInv
  <1>8. CASE ~ (s.worker_started /\ ~ state.worker_started)
    <2>1. pc' = pc
      BY <1>5, <1>8
    <2>2. s.worker_started = state.worker_started /\ s.next_flush_at = state.next_flush_at
      BY <1>4, <1>8
    <2>3. (Fresh(state) => Fresh(state')) /\ (Spaced(state, quiet) => Spaced(state', quiet'))
      BY <1>3, <1>6, <2>2 DEF Fresh, Spaced
    <2>4. Rested(state, permit, sleep) => Rested(state', permit', sleep')
      BY <1>3, <1>4, <1>5, <1>6, ZenonT(30) DEF Rested
    <2>5. TypeInv'
      BY <1>3, <1>6, <1>u, <2>1 DEF WInv, TypeInv
    <2>6. Lifecycle'
      BY <1>3, <1>6, <2>1, <2>2 DEF WInv, Lifecycle
    <2> QED BY <1>3, <1>6, <2>1, <2>3, <2>4, <2>5, <2>6 DEF WInv, Sleeping
  <1> QED BY <1>7, <1>8

(* The worker's decision keeps it: it sleeps only when it is not needed.   *)
LEMMA DecideKeeps == WInv /\ Decide => WInv'
  <1> SUFFICES ASSUME WInv, Decide PROVE WInv'
    OBVIOUS
  <1>p. pc \in [Flushers -> WorkerPcs] /\ "worker" \in Flushers
    BY DEF WInv, TypeInv, Flushers
  <1>1. pc["worker"] = "top" /\ UNCHANGED << permit, batch, closer, quiet >>
    BY DEF Decide
  <1>2. ASSUME NEW x \in WorkerPcs \ {"none"}, pc' = [pc EXCEPT !["worker"] = x]
        PROVE  /\ pc' \in [Flushers -> WorkerPcs] /\ pc'["worker"] = x
               /\ pc'["thread"] = pc["thread"]
    BY <1>2, <1>p DEF Flushers
  <1>3. CASE pc' = [pc EXCEPT !["worker"] = "gone"] /\ UNCHANGED << state, sleep >>
    <2>1. /\ pc' \in [Flushers -> WorkerPcs] /\ pc'["worker"] = "gone"
          /\ pc'["thread"] = pc["thread"]
      BY <1>2, <1>3, ZenonT(30) DEF WorkerPcs
    <2> QED BY <1>1, <1>3, <2>1 DEF WInv, TypeInv, Lifecycle, Sleeping
  <1>4. CASE pc' = [pc EXCEPT !["worker"] = "flush"] /\ UNCHANGED sleep
             /\ state' \in {state, [state EXCEPT !.urgent_flush = FALSE]}
    <2>1. /\ pc' \in [Flushers -> WorkerPcs] /\ pc'["worker"] = "flush"
          /\ pc'["thread"] = pc["thread"]
      BY <1>2, <1>4, ZenonT(30) DEF WorkerPcs
    <2>2. \A b \in BOOLEAN :
             LET new == [state EXCEPT !.urgent_flush = b]
             IN  /\ new \in StateType /\ new.closed = state.closed
                 /\ new.worker_started = state.worker_started
      BY DEF WInv, TypeInv, StateType
    <2>3. /\ state' \in StateType /\ state'.closed = state.closed
          /\ state'.worker_started = state.worker_started
      BY <1>4, <2>2, ZenonT(30) DEF WInv, TypeInv
    <2> QED BY <1>1, <1>4, <2>1, <2>3 DEF WInv, TypeInv, Lifecycle, Sleeping
  <1>5. CASE /\ ~ Stopped(state) /\ ~ UrgentDue(state) /\ Wait(state) > 0
             /\ sleep' = Wait(state) /\ UNCHANGED state
             /\ pc' = [pc EXCEPT !["worker"] = "drowsy"]
    <2>1. /\ pc' \in [Flushers -> WorkerPcs] /\ pc'["worker"] = "drowsy"
          /\ pc'["thread"] = pc["thread"]
      BY <1>2, <1>5, ZenonT(30) DEF WorkerPcs
    <2>2. ~ state.closed /\ ~ state.disabled /\ Spaced(state, quiet)
      BY <1>1, <1>5 DEF WInv, Stopped
    <2>3. /\ Gate(state) \in Nat /\ state.next_flush_at \in Nat
          /\ state.urgent_not_before \in Nat
      BY DEF Gate, Larger, WInv, TypeInv, StateType
    <2>4. sleep' \in Nat
      BY <1>5, <2>3 DEF Wait, Larger
    <2>5. state.urgent_flush => sleep' <= Larger(Gate(state), state.urgent_not_before)
      BY <1>5, <2>2, <2>3 DEF Spaced, Fresh, UrgentDue, Wait, Larger
    <2>6. Rested(state', permit', sleep')
      BY <1>5, <2>2, <2>5 DEF Rested
    <2> QED BY <1>1, <1>5, <2>1, <2>2, <2>4, <2>6 DEF WInv, TypeInv, Lifecycle
  <1> QED BY <1>3, <1>4, <1>5 DEF Decide

(* A step of f to the pc x, and nothing else of pc.                        *)
LEMMA PcStep ==
    ASSUME TypeInv, NEW f \in Flushers, NEW x \in WorkerPcs,
           pc' = [pc EXCEPT ![f] = x]
    PROVE  /\ pc' \in [Flushers -> WorkerPcs] /\ pc'[f] = x
           /\ \A g \in Flushers \ {f} : pc'[g] = pc[g]
  BY DEF TypeInv

(* Falling asleep and waking up keep the invariant.                        *)
LEMMA SleepKeeps == WInv /\ (FallAsleep \/ WakeUp) => WInv'
  <1> SUFFICES ASSUME WInv, FallAsleep \/ WakeUp PROVE WInv'
    OBVIOUS
  <1>1. /\ UNCHANGED << state, sleep, batch, closer, quiet >>
        /\ Sleeping
    BY DEF FallAsleep, WakeUp, Sleeping
  <1>2. TypeInv /\ "worker" \in Flushers /\ "thread" \in Flushers
    BY DEF WInv, Flushers
  <1>3. CASE FallAsleep
    <2>1. /\ pc' \in [Flushers -> WorkerPcs] /\ pc'["worker"] = "asleep"
          /\ pc'["thread"] = pc["thread"] /\ permit' = permit
      BY <1>2, <1>3, PcStep DEF FallAsleep, WorkerPcs, Flushers
    <2> QED BY <1>1, <2>1 DEF WInv, TypeInv, Lifecycle, Sleeping
  <1>4. CASE WakeUp
    <2>1. /\ pc' \in [Flushers -> WorkerPcs] /\ pc'["worker"] = "top"
          /\ pc'["thread"] = pc["thread"] /\ permit' \in BOOLEAN
      BY <1>2, <1>4, PcStep, ZenonT(30) DEF WakeUp, WorkerPcs, Flushers, TypeInv
    <2> QED BY <1>1, <2>1 DEF WInv, TypeInv, Lifecycle, Sleeping
  <1> QED BY <1>3, <1>4

(* Between the decision to flush and the next schedule the worker is away: *)
(* the invariant asks for types and for who is alive only.                 *)
LEMMA AwayKeeps ==
    ASSUME WInv, TypeInv', UNCHANGED << closer >>,
           state'.closed = state.closed,
           state'.worker_started = state.worker_started,
           pc["worker"] # "none",
           pc'["worker"] \notin {"none", "top", "drowsy", "asleep"},
           pc'["thread"] = pc["thread"]
    PROVE  WInv'
  BY DEF WInv, Lifecycle, Sleeping

(* Once close() began only the thread changes the state, and what it does  *)
(* no longer matters to the worker.                                        *)
LEMMA ThreadKeeps ==
    ASSUME WInv, TypeInv', UNCHANGED << closer, permit >>,
           state'.closed = state.closed,
           state'.worker_started = state.worker_started,
           pc["thread"] # "none", pc'["worker"] = pc["worker"]
    PROVE  WInv'
  BY DEF WInv, Lifecycle, Sleeping

(* The start of a flush, and its end.                                      *)
LEMMA FlushKeeps == WInv /\ (Flush \/ Reschedule) => WInv'
  <1> SUFFICES ASSUME WInv, Flush \/ Reschedule PROVE WInv'
    OBVIOUS
  <1>2. TypeInv /\ "worker" \in Flushers /\ "thread" \in Flushers
    BY DEF WInv, Flushers
  <1>3. CASE Flush
    <2>1. pc["worker"] = "flush" /\ UNCHANGED << permit, sleep, batch, closer, quiet >>
      BY <1>3 DEF Flush
    <2>2. /\ state' \in StateType /\ state'.closed = state.closed
          /\ state'.worker_started = state.worker_started
      <3>1. None \in Int
        BY DEF None
      <3>2. state' = state \/ state' = SetBackoff(state, 0, None)
        BY <1>3 DEF Flush
      <3> QED BY <1>2, <3>1, <3>2, SetBackoffOK, ZenonT(30) DEF TypeInv
    <2>3. /\ pc' \in [Flushers -> WorkerPcs] /\ pc'["thread"] = pc["thread"]
          /\ pc'["worker"] \in {"lock", "after"}
      <3>1. PICK x \in {"lock", "after"} : pc' = [pc EXCEPT !["worker"] = x]
        BY <1>3 DEF Flush
      <3> QED BY <1>2, <3>1, PcStep, ZenonT(30) DEF WorkerPcs, Flushers
    <2>4. TypeInv'
      BY <2>1, <2>2, <2>3, <1>2 DEF TypeInv
    <2> QED BY <2>1, <2>2, <2>3, <2>4, AwayKeeps
  <1>4. CASE Reschedule
    <2>1. /\ pc["worker"] = "after" /\ UNCHANGED << permit, sleep, batch, closer >>
          /\ quiet' = 0
      BY <1>4 DEF Reschedule
    <2>2. /\ pc' \in [Flushers -> WorkerPcs] /\ pc'["thread"] = pc["thread"]
          /\ pc'["worker"] = "top"
      BY <1>2, <1>4, PcStep DEF Reschedule, WorkerPcs, Flushers
    <2>3. /\ state' \in StateType /\ state'.closed = state.closed
          /\ state'.worker_started = state.worker_started
          /\ state'.interval = state.interval
          /\ state'.next_flush_at = state.interval
          /\ state'.urgent_not_before = state.interval
      <3>1. state \in StateType /\ state.interval \in Nat
        BY <1>2, GatesAssumption DEF TypeInv, StateType
      <3>2. ASSUME NEW k \in Nat
            PROVE  LET new == [state EXCEPT !.next_flush_at = k,
                                            !.urgent_not_before = k]
                   IN  /\ new \in StateType /\ new.closed = state.closed
                       /\ new.worker_started = state.worker_started
                       /\ new.interval = state.interval
                       /\ new.next_flush_at = k /\ new.urgent_not_before = k
        BY <3>1, ZenonT(30) DEF StateType
      <3>3. state' = [state EXCEPT !.next_flush_at = state.interval,
                                   !.urgent_not_before = state.interval]
        BY <1>4 DEF Reschedule
      <3> QED BY <3>1, <3>2, <3>3, ZenonT(30)
    <2>4. Spaced(state', quiet')
      BY <2>1, <2>3 DEF Spaced, StateType
    <2>5. TypeInv'
      <3>1. 0 \in 0 .. BackoffMax
        BY GatesAssumption
      <3> QED BY <1>2, <2>1, <2>2, <2>3, <3>1, ZenonT(30) DEF TypeInv
    <2> QED BY <2>1, <2>2, <2>3, <2>4, <2>5 DEF WInv, Lifecycle, Sleeping
  <1> QED BY <1>3, <1>4

(* The two flushers under flush_lock.                                      *)
LEMMA PostingKeeps ==
    ASSUME WInv, NEW f \in Flushers, BeginFlush(f) \/ Answered(f) \/ SendFails(f)
    PROVE  WInv'
  <1>1. /\ UNCHANGED << permit, sleep, closer, quiet >>
        /\ pc[f] \in {"lock", "posted"}
    BY DEF BeginFlush, Answered, SendFails, EndFlush
  <1>2. TypeInv /\ "worker" \in Flushers /\ "thread" \in Flushers
    BY DEF WInv, Flushers
  <1>3. PICK x \in {"after", "done", "posted"} :
           pc' = [pc EXCEPT ![f] = x] /\ (f = "worker" => x # "done")
    BY DEF BeginFlush, Answered, SendFails, EndFlush, Flushed
  <1>4. /\ pc' \in [Flushers -> WorkerPcs] /\ pc'[f] = x
        /\ \A g \in Flushers \ {f} : pc'[g] = pc[g]
    BY <1>2, <1>3, PcStep, ZenonT(30) DEF WorkerPcs
  <1>5. /\ state' \in StateType /\ state'.closed = state.closed
        /\ state'.worker_started = state.worker_started
    <2>1. CASE BeginFlush(f)
      BY <1>2, <2>1 DEF BeginFlush, TypeInv
    <2>2. CASE Answered(f)
      <3>1. PICK a \in Answers : state' = HandleResponse(state, batch[f], a)
        BY <2>2 DEF Answered
      <3>2. batch[f] \in Nat /\ state \in StateType
        BY <1>2 DEF TypeInv
      <3> QED BY <3>1, <3>2, HandleResponseOK
    <2>3. CASE SendFails(f)
      <3>1. None \in Int /\ state \in StateType
        BY <1>2 DEF None, TypeInv
      <3> QED BY <2>3, <3>1, SetBackoffOK DEF SendFails
    <2> QED BY <2>1, <2>2, <2>3
  <1>6. batch' \in [Flushers -> Nat]
    <2>1. Smaller(state.pending, MaxBatch) \in Nat
      BY <1>2, WorkerAssumption DEF TypeInv, StateType, Smaller
    <2> QED BY <1>2, <2>1, SMTT(30) DEF BeginFlush, Answered, SendFails, EndFlush, TypeInv
  <1>7. TypeInv'
    BY <1>1, <1>2, <1>4, <1>5, <1>6 DEF TypeInv
  <1>8. CASE f = "worker"
    BY <1>1, <1>2, <1>4, <1>5, <1>7, <1>8, AwayKeeps
  <1>9. CASE f = "thread"
    BY <1>1, <1>2, <1>4, <1>5, <1>7, <1>9, ThreadKeeps
  <1> QED BY <1>8, <1>9 DEF Flushers

(* A runtime that stops takes the worker with it.                          *)
LEMMA StopKeeps == WInv /\ RuntimeStops => WInv'
  <1> SUFFICES ASSUME WInv, RuntimeStops PROVE WInv'
    OBVIOUS
  <1>1. /\ UNCHANGED << state, permit, sleep, closer, quiet >>
        /\ pc["worker"] # "none"
        /\ pc' = [pc EXCEPT !["worker"] = "dead"]
        /\ batch' = [batch EXCEPT !["worker"] = 0]
    BY DEF RuntimeStops
  <1>2. TypeInv /\ "worker" \in Flushers /\ "thread" \in Flushers
    BY DEF WInv, Flushers
  <1>3. /\ pc' \in [Flushers -> WorkerPcs] /\ pc'["worker"] = "dead"
        /\ pc'["thread"] = pc["thread"]
    BY <1>1, <1>2, PcStep DEF WorkerPcs, Flushers
  <1>4. batch' \in [Flushers -> Nat]
    BY <1>1, <1>2 DEF TypeInv
  <1>5. TypeInv'
    BY <1>1, <1>2, <1>3, <1>4 DEF TypeInv
  <1> QED BY <1>1, <1>3, <1>5, AwayKeeps

(* close() sets the flag, then leaves the permit, then waits.              *)
LEMMA CloseKeeps == WInv /\ (Close \/ CloserSteps) => WInv'
  <1> SUFFICES ASSUME WInv, Close \/ CloserSteps PROVE WInv'
    OBVIOUS
  <1>1. UNCHANGED << sleep, batch, quiet >>
    BY DEF Close, CloserSteps, SpawnFinalFlush, CloseReturns
  <1>2. TypeInv /\ Lifecycle /\ "worker" \in Flushers /\ "thread" \in Flushers
    BY DEF WInv, Flushers
  <1>3. ASSUME NEW x \in CloserPcs, closer' = [closer EXCEPT !.pc = x]
        PROVE  closer' \in [pc : CloserPcs, timer : Nat] /\ closer'.pc = x
    BY <1>2, <1>3 DEF TypeInv
  <1>4. CASE Close
    <2>1. closer' \in [pc : CloserPcs, timer : Nat] /\ closer'.pc = "closing"
      BY <1>3, <1>4 DEF Close, CloserPcs
    <2>2. /\ state' \in StateType /\ state'.closed
          /\ state'.worker_started = state.worker_started
      <3>1. ASSUME NEW b \in BOOLEAN
            PROVE  LET new == [state EXCEPT !.closed = b]
                   IN  /\ new \in StateType /\ new.closed = b
                       /\ new.worker_started = state.worker_started
        BY <1>2 DEF TypeInv, StateType
      <3>2. state' = [state EXCEPT !.closed = TRUE]
        BY <1>4 DEF Close
      <3> QED BY <3>1, <3>2, ZenonT(30)
    <2>3. UNCHANGED << permit, pc >>
      BY <1>4 DEF Close
    <2> QED BY <1>1, <1>2, <2>1, <2>2, <2>3 DEF WInv, TypeInv, Lifecycle
  <1>5. CASE SpawnFinalFlush
    <2>1. state.closed /\ UNCHANGED state /\ permit' = TRUE
      BY <1>2, <1>5 DEF SpawnFinalFlush, NotifyOne, Lifecycle
    <2>2. closer' \in [pc : CloserPcs, timer : Nat] /\ closer'.pc \notin {"open", "closing"}
      <3>1. CASE closer' = [closer EXCEPT !.pc = "returned"]
        BY <1>3, <3>1 DEF CloserPcs
      <3>2. CASE closer' = [pc |-> "waiting", timer |-> CloseTimeout]
        BY <3>2, WorkerAssumption DEF CloserPcs
      <3> QED BY <1>5, <3>1, <3>2 DEF SpawnFinalFlush
    <2>3. pc' \in [Flushers -> WorkerPcs] /\ pc'["worker"] = pc["worker"]
      <3>1. CASE pc' = pc
        BY <1>2, <3>1 DEF TypeInv
      <3>2. CASE \E x \in {"lock", "done"} : pc' = [pc EXCEPT !["thread"] = x]
        <4>1. PICK x \in {"lock", "done"} : pc' = [pc EXCEPT !["thread"] = x]
          BY <3>2, ZenonT(30)
        <4> QED BY <1>2, <4>1, PcStep, ZenonT(30) DEF WorkerPcs, Flushers
      <3> QED BY <1>5, <3>1, <3>2 DEF SpawnFinalFlush
    <2>4. TypeInv'
      BY <1>1, <1>2, <2>1, <2>2, <2>3 DEF TypeInv
    <2> QED BY <1>2, <2>1, <2>2, <2>3, <2>4, ZenonT(30) DEF WInv, Lifecycle
  <1>6. CASE CloseReturns
    <2>1. closer' \in [pc : CloserPcs, timer : Nat] /\ closer'.pc = "returned"
      BY <1>3, <1>6 DEF CloseReturns, CloserPcs
    <2>2. closer.pc = "waiting" /\ UNCHANGED << state, permit, pc >>
      BY <1>6 DEF CloseReturns
    <2> QED BY <1>1, <1>2, <2>1, <2>2 DEF WInv, TypeInv, Lifecycle, Sleeping
  <1> QED BY <1>4, <1>5, <1>6 DEF CloserSteps

-----------------------------------------------------------------------------
(* A new reporter has no worker, no gate and nothing behind it.            *)
LEMMA InitWInv == WorkerInit => WInv
  <1> SUFFICES ASSUME WorkerInit PROVE WInv
    OBVIOUS
  <1>1. state \in StateType
    <2>1. /\ 0 \in Nat /\ 0 \in Int /\ InitialInterval \in 1 .. BackoffMax
          /\ BackoffMin \in Nat /\ FALSE \in BOOLEAN
      BY WorkerAssumption, GatesAssumption
    <2> QED BY <2>1 DEF WorkerInit, StateType
  <1>2. TypeInv
    <2>0. permit \in BOOLEAN
      BY Zenon DEF WorkerInit
    <2>1. sleep \in Nat /\ quiet \in 0 .. BackoffMax
      <3>1. sleep = 0 /\ quiet = BackoffMax
        BY DEF WorkerInit
      <3> QED BY <3>1, GatesAssumption
    <2>2. closer \in [pc : CloserPcs, timer : Nat]
      BY DEF WorkerInit, CloserPcs
    <2>3. pc \in [Flushers -> WorkerPcs] /\ batch \in [Flushers -> Nat]
      BY DEF WorkerInit, WorkerPcs
    <2> QED BY <1>1, <2>0, <2>1, <2>2, <2>3 DEF TypeInv
  <1>3. /\ ~ state.worker_started /\ ~ state.closed /\ closer.pc = "open"
        /\ pc["worker"] = "none" /\ pc["thread"] = "none" /\ quiet = BackoffMax
    BY DEF WorkerInit, Flushers
  <1>4. /\ state.backoff_until = 0 /\ state.paused_until = 0
        /\ state.next_flush_at = 0 /\ state.urgent_not_before = 0
        /\ state.interval = InitialInterval
    BY DEF WorkerInit
  <1>5. Fresh(state)
    BY <1>4 DEF Fresh, Gate, Larger
  <1>6. Spaced(state, quiet)
    BY <1>3, <1>4, WorkerAssumption, GatesAssumption DEF Spaced
  <1> QED BY <1>2, <1>3, <1>5, <1>6 DEF WInv, Lifecycle, Sleeping

(* Every step keeps the invariant.                                         *)
LEMMA WStep == WInv /\ [WorkerNext]_workerVars => WInv'
  <1> SUFFICES ASSUME WInv, [WorkerNext]_workerVars PROVE WInv'
    OBVIOUS
  <1>1. CASE UNCHANGED workerVars
    BY <1>1 DEF workerVars, WInv, TypeInv, Lifecycle, Sleeping
  <1>2. CASE WorkerLoop
    BY <1>2, DecideKeeps, SleepKeeps, FlushKeeps DEF WorkerLoop
  <1>3. CASE \E f \in Flushers : Posting(f)
    BY <1>3, PostingKeeps DEF Posting
  <1> QED BY <1>1, <1>2, <1>3, TickKeeps, RecordKeeps, StopKeeps, CloseKeeps DEF WorkerNext

(* Only the worker's decision starts a flush.                              *)
LEMMA OnlyDecideFlushes ==
    ASSUME WInv, [WorkerNext]_workerVars, pc["worker"] = "top", pc'["worker"] = "flush"
    PROVE  Decide
  <1>1. pc \in [Flushers -> WorkerPcs] /\ "worker" \in Flushers
    BY DEF WInv, TypeInv, Flushers
  <1>2. ASSUME NEW f \in Flushers, NEW x, pc' = [pc EXCEPT ![f] = x]
        PROVE  pc'["worker"] = "flush" => x = "flush"
    BY <1>1, <1>2
  <1>3. pc' # pc
    OBVIOUS
  <1>4. ~ UNCHANGED workerVars /\ ~ Tick /\ ~ Close /\ ~ CloseReturns
    BY <1>3 DEF workerVars, Tick, Close, CloseReturns
  <1>5. ~ Record
    BY <1>1, <1>3 DEF Record
  <1>6. ~ FallAsleep /\ ~ WakeUp /\ ~ Flush /\ ~ Reschedule
    BY DEF FallAsleep, WakeUp, Flush, Reschedule
  <1>7. ASSUME NEW f \in Flushers, Posting(f) PROVE FALSE
    BY <1>1, <1>7 DEF Posting, BeginFlush, Answered, SendFails, EndFlush, Flushed, Flushers
  <1>8. ~ RuntimeStops /\ ~ SpawnFinalFlush
    BY <1>1 DEF RuntimeStops, SpawnFinalFlush, Flushers
  <1> QED BY <1>4, <1>5, <1>6, <1>7, <1>8 DEF WorkerNext, WorkerLoop, CloserSteps

(* For every configuration: a worker asleep while its backlog is urgent or *)
(* the reporter closed has a permit waiting or its sleep is over           *)
(* (telemetry/reporter.rs: notify_one after the flag, notified() after the *)
(* decision).                                                              *)
THEOREM NoWakeUpIsLost == WorkerSpec => []NoLostWakeUp
  <1>1. WorkerSpec => []WInv
    BY InitWInv, WStep, PTL DEF WorkerSpec
  <1> QED BY <1>1, WInvIsEnough, PTL

(* For every configuration: two flushes of the worker start no less than   *)
(* the interval in force apart, and none inside a backoff or a pause.      *)
THEOREM FlushesStayApart == WorkerSpec => FlushesKeepTheirDistance
  <1>1. WorkerSpec => []WInv
    BY InitWInv, WStep, PTL DEF WorkerSpec
  <1>2. WInv /\ [WorkerNext]_workerVars =>
          [pc["worker"] = "top" /\ pc'["worker"] = "flush"
              => quiet >= state.interval /\ Gate(state) = 0]_workerVars
    BY OnlyDecideFlushes, DecideIsSpaced
  <1> QED BY <1>1, <1>2, PTL DEF WorkerSpec, FlushesKeepTheirDistance
=============================================================================
