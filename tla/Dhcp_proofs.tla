---------------------------- MODULE Dhcp_proofs -----------------------------
(***************************************************************************)
(* Machine-checked proofs about the DHCP client and what the chip uses,    *)
(* for any number of servers and addresses, any lease times and options,   *)
(* and a network that loses, delays, repeats and reorders replies; and     *)
(* about the countdown to a renewal, for every length of a second and of   *)
(* the clock's period, and whatever the intervals between the calls.       *)
(***************************************************************************)
EXTENDS Dhcp, LeaseTimer, ModularArithmetic, TLAPS

-----------------------------------------------------------------------------
(* The operators of the exchange                                           *)

(* Parsing a reply takes its address and leaves the state alone.           *)
LEMMA ParsedReply ==
  ASSUME d \in Members, NEW m \in Messages
  PROVE  /\ Parsed(m) \in Members /\ Parsed(m).localIp = m.ip /\ Parsed(m).state = d.state
         /\ \A s \in m.gives : Parsed(m).settings[s] = m.srv
<1> DEFINE held == [s \in Settings |-> IF s \in m.gives THEN m.srv ELSE d.settings[s]]
<1>1. held \in SettingsOf /\ \A s \in m.gives : held[s] = m.srv
  BY DEF Members, Messages, SettingsOf
<1>2. Parsed(m) = [d EXCEPT !.localIp = m.ip,
                            !.serverIp = IF @ = None THEN m.srv ELSE @,
                            !.leaseTime = Option(@, m.times.lease),
                            !.T1 = Option(@, m.times.t1), !.T2 = Option(@, m.times.t2),
                            !.renew = Option(@, m.times.lease), !.settings = held]
  BY DEF Parsed, Members
<1>3. /\ Option(d.leaseTime, m.times.lease) \in Nat /\ Option(d.renew, m.times.lease) \in Nat
      /\ Option(d.T1, m.times.t1) \in Nat /\ Option(d.T2, m.times.t2) \in Nat
  BY DEF Option, Members, Messages
<1>4. /\ m.ip \in Addrs \cup {None}
      /\ (IF d.serverIp = None THEN m.srv ELSE d.serverIp) \in Servers \cup {None}
  BY DEF Members, Messages
<1> HIDE DEF held
<1>5. Parsed(m) \in Members /\ Parsed(m).localIp = m.ip /\ Parsed(m).state = d.state
      /\ Parsed(m).settings = held
  BY <1>1, <1>2, <1>3, <1>4 DEF Members
<1> QED BY <1>1, <1>5

(* A lease keeps the address and the settings that were parsed, and is not *)
(* due for rebinding at once.                                              *)
LEMMA LeaseOf ==
  ASSUME NEW dd \in Members
  PROVE  /\ Leased(dd) \in Members /\ Leased(dd).localIp = dd.localIp
         /\ Leased(dd).state = "LEASED" /\ Leased(dd).settings = dd.settings
         /\ Leased(dd).rebind > 0
<1> DEFINE lease == IF dd.leaseTime = 0 THEN DefaultLease ELSE dd.leaseTime
           t1 == IF dd.T1 = 0 THEN HalfOf(lease) ELSE dd.T1
           t2 == IF dd.T2 = 0 THEN SevenEighthsOf(lease) ELSE dd.T2
<1>1. lease \in Nat /\ lease > 0
  BY DEF DefaultLease, Members
<1>2. HalfOf(lease) \in Nat /\ SevenEighthsOf(lease) \in Nat /\ SevenEighthsOf(lease) > 0
  BY <1>1 DEF HalfOf, SevenEighthsOf
<1>3. t1 \in Nat /\ t2 \in Nat /\ t2 > 0
  BY <1>2 DEF Members
<1>4. Leased(dd) = [dd EXCEPT !.state = "LEASED", !.leaseTime = lease, !.T1 = t1, !.T2 = t2,
                              !.renew = t1, !.rebind = t2]
  BY DEF Leased
<1> HIDE DEF lease, t1, t2
<1> QED BY <1>1, <1>3, <1>4 DEF Members, State

(* What servers send are messages.                                         *)
LEMMA OffersAreMessages ==
  ASSUME NEW x \in Nat
  PROVE  Offers(x) \subseteq Messages
  BY NetworkAssumption DEF Offers, Messages

LEMMA AnswersAreMessages ==
  ASSUME NEW x \in Nat, NEW ip \in Addrs \cup {None}, NEW srv
  PROVE  Answers(x, ip, srv) \subseteq Messages
<1>1. NoTimes \in [lease : Nat, t1 : Nat, t2 : Nat]
  BY DEF NoTimes
<1> QED BY <1>1, NetworkAssumption DEF Answers, Messages

LEMMA HeardAreReplies ==
  ASSUME NEW replies, NEW new \in Heard(replies)
  PROVE  new \subseteq replies
  BY DEF Heard

(* A transmission: whatever reply it brings, acknowledged addresses stay   *)
(* acknowledged, and the acknowledgements on their way are among them.     *)
LEMMA SendsKeeps ==
  ASSUME TypeOK, LeaseInv, NEW replies \in SUBSET Messages, Sends(replies)
  PROVE  /\ net' \subseteq Messages
         /\ acked \subseteq acked' /\ acked' \subseteq Addrs \cup {None}
         /\ \A m \in net' : m.type = "ACK" => m.ip \in acked'
         /\ UNCHANGED grant
<1>1. PICK new \in Heard(replies), kept \in SUBSET net :
        /\ net' = kept \cup new
        /\ acked' = acked \cup {m.ip : m \in {n \in new : n.type = "ACK"}}
        /\ UNCHANGED grant
  BY DEF Sends
<1>2. new \subseteq replies /\ new \subseteq Messages
  BY <1>1, HeardAreReplies
<1>3. \A m \in Messages : m.ip \in Addrs \cup {None}
  BY DEF Messages
<1> QED BY <1>1, <1>2, <1>3 DEF TypeOK, LeaseInv

-----------------------------------------------------------------------------
(* The end of request_DHCP_lease, whoever called it.                       *)

LEMMA NoSettingsTyped == NoSettings \in SettingsOf
  BY DEF NoSettings, SettingsOf

LEMMA ResetClient ==
  ASSUME NEW dd \in Members
  PROVE  Reset(dd) \in Members /\ Reset(dd).state = "START"
  BY NoSettingsTyped DEF Reset, Members, State

LEMMA ConfigurationTyped ==
  ASSUME NEW dd \in Members
  PROVE  /\ Configuration(dd) \in Configurations /\ Configuration(dd).ip = dd.localIp
         /\ Configuration(dd).settings = dd.settings
  BY DEF Configuration, Configurations, Members

LEMMA RebindsKeeps ==
  ASSUME DhcpInv, NEW dd \in Members, Rebinds(dd),
         late' \in BOOLEAN, rc' \in 0 .. 4, UNCHANGED <<inUse, net, acked, grant>>
  PROVE  DhcpInv'
<1>1. d' \in Members /\ d'.state = "START" /\ pc' = "request" /\ caller' = "rebind"
  BY ResetClient DEF Rebinds, Requests
<1> QED BY <1>1 DEF DhcpInv, TypeOK, OnlyAcknowledged, ChipHasTheLease, LeaseInv

LEMMA ReturnsKeeps ==
  ASSUME DhcpInv, NEW dd \in Members, Returns(dd),
         late' \in BOOLEAN, UNCHANGED <<net, acked, grant>>,
         dd.state = "LEASED" => dd.localIp \in acked,
         dd.state = "REREQUEST" => inUse = Configuration(dd)
  PROVE  DhcpInv'
<1> DEFINE result == IF dd.state = "LEASED" THEN 1 ELSE 0
<1>1. CASE /\ caller = "begin"
           /\ d' = dd /\ pc' = "idle" /\ caller' = "sketch"
           /\ IF result = 1 THEN Tells(dd) ELSE UNCHANGED inUse
           /\ UNCHANGED rc
  BY <1>1, ConfigurationTyped DEF DhcpInv, TypeOK, OnlyAcknowledged, ChipHasTheLease, LeaseInv,
                                  Tells, Configuration
<1>2. CASE caller = "renew" /\ RebindDue(dd) /\ Rebinds(dd) /\ UNCHANGED <<inUse, rc>>
  BY <1>2, RebindsKeeps DEF DhcpInv, TypeOK
<1>3. ASSUME NEW base \in {1, 3}, Maintained(base + result, dd)
      PROVE  DhcpInv'
  <2>1. /\ d' = dd /\ pc' = "idle" /\ rc' \in 0 .. 4 /\ caller' = "sketch"
        /\ IF dd.state = "LEASED" THEN Tells(dd) ELSE UNCHANGED inUse
    BY <1>3 DEF Maintained, TellsChip
  <2> QED BY <2>1, ConfigurationTyped DEF DhcpInv, TypeOK, OnlyAcknowledged, ChipHasTheLease,
                                          LeaseInv, Tells, Configuration
<1>4. CASE caller = "renew" /\ ~RebindDue(dd) /\ Maintained(1 + result, dd)
  BY <1>3, <1>4
<1>5. CASE caller = "rebind" /\ Maintained(3 + result, dd)
  BY <1>3, <1>5
<1> QED BY <1>1, <1>2, <1>4, <1>5 DEF Returns

-----------------------------------------------------------------------------
(* A turn of the loop: neither the chip nor the caller is concerned.       *)
LEMMA TurnsKeeps ==
  ASSUME DhcpInv, NEW dd \in Members, Turns(dd),
         dd.state # "REREQUEST",
         net' \subseteq Messages, acked \subseteq acked', acked' \subseteq Addrs \cup {None},
         \A m \in net' : m.type = "ACK" => m.ip \in acked',
         dd.state = "LEASED" => dd.localIp \in acked /\ dd.rebind > 0,
         grant' \in Acknowledgements
  PROVE  DhcpInv'
<1>1. /\ d' = dd /\ pc' \in {"loop", "done"}
      /\ UNCHANGED <<caller, late, inUse, rc>>
  BY DEF Turns
<1> QED BY <1>1 DEF DhcpInv, TypeOK, OnlyAcknowledged, ChipHasTheLease, LeaseInv

LEMMA SendStep ==
  ASSUME DhcpInv, SendDiscover \/ SendRerequest
  PROVE  DhcpInv'
<1>1. d \in Members
  BY DEF DhcpInv, TypeOK
<1>2. d.xid + 1 \in Nat /\ d.localIp \in Addrs \cup {None}
  BY <1>1 DEF Members
<1>3. CASE SendDiscover
  <2> DEFINE x == d.xid + 1
             dd == [d EXCEPT !.xid = x, !.state = "DISCOVER"]
  <2>1. dd \in Members /\ dd.state = "DISCOVER"
    <3>1. x \in Nat
      BY <1>2
    <3> HIDE DEF x
    <3> QED BY <1>1, <3>1 DEF Members, State
  <2>2. Sends(Offers(d.xid + 1)) /\ Turns(dd)
    BY <1>3 DEF SendDiscover
  <2> HIDE DEF dd
  <2> QED BY <1>2, <2>1, <2>2, OffersAreMessages, SendsKeeps, TurnsKeeps DEF DhcpInv, TypeOK
<1>4. CASE SendRerequest
  <2> DEFINE x == d.xid + 1
             dd == [d EXCEPT !.xid = x, !.state = "REQUEST"]
  <2>1. dd \in Members /\ dd.state = "REQUEST"
    <3>1. x \in Nat
      BY <1>2
    <3> HIDE DEF x
    <3> QED BY <1>1, <3>1 DEF Members, State
  <2>2. Sends(Answers(d.xid + 1, d.localIp, d.serverIp)) /\ Turns(dd)
    BY <1>4 DEF SendRerequest
  <2> HIDE DEF dd
  <2> QED BY <1>2, <2>1, <2>2, AnswersAreMessages, SendsKeeps, TurnsKeeps DEF DhcpInv, TypeOK
<1> QED BY <1>3, <1>4

LEMMA ReplyStep ==
  ASSUME DhcpInv, NEW m \in net, GetOffer(m) \/ GetAck(m) \/ GetNak(m) \/ GetOther(m)
  PROVE  DhcpInv'
<1>1. d \in Members /\ m \in Messages
  BY DEF DhcpInv, TypeOK
<1>2. Parsed(m) \in Members /\ Parsed(m).localIp = m.ip /\ Parsed(m).state = d.state
  BY <1>1, ParsedReply
<1>3. m.xid \in Nat /\ m.ip \in Addrs \cup {None}
  BY <1>1 DEF Messages
<1>4. CASE GetOffer(m)
  <2> DEFINE p == Parsed(m)
             dd == [p EXCEPT !.xid = m.xid, !.state = "REQUEST"]
  <2>1. Sends(Answers(m.xid, p.localIp, p.serverIp)) /\ Turns(dd)
    BY <1>4 DEF GetOffer
  <2>2. dd \in Members /\ dd.state = "REQUEST"
    BY <1>2, <1>3 DEF Members, State
  <2>3. Answers(m.xid, p.localIp, p.serverIp) \subseteq Messages
    BY <1>2, <1>3, AnswersAreMessages
  <2> HIDE DEF p, dd
  <2> QED BY <2>1, <2>2, <2>3, SendsKeeps, TurnsKeeps DEF DhcpInv, TypeOK
<1>5. CASE GetAck(m)
  <2>1. Turns(Leased(Parsed(m))) /\ m.type = "ACK" /\ UNCHANGED <<net, acked>>
    BY <1>5 DEF GetAck, Grants
  <2>2. Leased(Parsed(m)) \in Members /\ Leased(Parsed(m)).localIp = m.ip
        /\ Leased(Parsed(m)).state = "LEASED" /\ Leased(Parsed(m)).rebind > 0
    BY <1>2, LeaseOf
  <2>3. m.ip \in acked
    BY <2>1 DEF DhcpInv, LeaseInv
  <2>4. grant' \in Acknowledgements
    BY <1>1, <1>5 DEF GetAck, Messages, Acknowledgements
  <2> QED BY <2>1, <2>2, <2>3, <2>4, TurnsKeeps DEF DhcpInv, TypeOK, LeaseInv
<1>6. CASE GetNak(m)
  <2> DEFINE dd == [Parsed(m) EXCEPT !.state = "START"]
  <2>1. Turns(dd) /\ UNCHANGED <<net, acked, grant>>
    BY <1>6 DEF GetNak
  <2>2. dd \in Members /\ dd.state = "START"
    BY <1>2 DEF Members, State
  <2> HIDE DEF dd
  <2> QED BY <2>1, <2>2, TurnsKeeps DEF DhcpInv, TypeOK, LeaseInv
<1>7. CASE GetOther(m)
  <2>1. Turns(Parsed(m)) /\ UNCHANGED <<net, acked, grant>> /\ d.state \in {"DISCOVER", "REQUEST"}
    BY <1>7 DEF GetOther
  <2> QED BY <1>2, <2>1, TurnsKeeps DEF DhcpInv, TypeOK, LeaseInv
<1> QED BY <1>4, <1>5, <1>6, <1>7

LEMMA WaitStep ==
  ASSUME DhcpInv, GetForeign \/ ResponseTimeout
  PROVE  DhcpInv'
<1>1. d \in Members
  BY DEF DhcpInv, TypeOK
<1>2. CASE GetForeign
  BY <1>1, <1>2, TurnsKeeps DEF GetForeign, DhcpInv, TypeOK, LeaseInv
<1>3. CASE ResponseTimeout
  <2> DEFINE dd == [d EXCEPT !.state = "START"]
  <2>1. Turns(dd) /\ UNCHANGED <<net, acked, grant>>
    BY <1>3 DEF ResponseTimeout
  <2>2. dd \in Members /\ dd.state = "START"
    BY <1>1 DEF Members, State
  <2> HIDE DEF dd
  <2> QED BY <2>1, <2>2, TurnsKeeps DEF DhcpInv, TypeOK, LeaseInv
<1> QED BY <1>2, <1>3

-----------------------------------------------------------------------------
(* begin(), maintain() and the ends of an exchange.                        *)

LEMMA OpenStep ==
  ASSUME DhcpInv, RequestOpens \/ RequestNoSocket \/ RequestEnds
  PROVE  DhcpInv'
<1>1. d \in Members
  BY DEF DhcpInv, TypeOK
<1>2. CASE RequestOpens
  <2>1. PICK x \in Initials : d' = [d EXCEPT !.initial = x, !.xid = x]
    BY <1>2 DEF RequestOpens
  <2>2. d' \in Members /\ d'.state = d.state /\ d'.localIp = d.localIp
        /\ d'.settings = d.settings
    BY <1>1, <2>1, NumberAssumption DEF Members
  <2> QED BY <1>2, <2>2 DEF RequestOpens, DhcpInv, TypeOK, OnlyAcknowledged,
                            ChipHasTheLease, LeaseInv, Configuration
<1>3. CASE RequestNoSocket
  <2>1. PICK x \in Initials : Returns([d EXCEPT !.initial = x, !.xid = x])
    BY <1>3 DEF RequestNoSocket
  <2> DEFINE dd == [d EXCEPT !.initial = x, !.xid = x]
  <2>2. dd \in Members /\ dd.state = d.state /\ dd.localIp = d.localIp
        /\ dd.settings = d.settings
    BY <1>1, NumberAssumption DEF Members
  <2>3. Returns(dd) /\ late' \in BOOLEAN /\ UNCHANGED <<net, acked, grant>>
    BY <1>3, <2>1 DEF RequestNoSocket, DhcpInv, TypeOK
  <2> HIDE DEF dd
  <2> QED BY <2>2, <2>3, ReturnsKeeps DEF DhcpInv, LeaseInv, ChipHasTheLease, Configuration
<1>4. CASE RequestEnds
  <2> DEFINE dd == [d EXCEPT !.xid = @ + 1]
  <2>1. Returns(dd) /\ late' = FALSE /\ UNCHANGED <<net, acked, grant>>
    BY <1>4 DEF RequestEnds
  <2>2. dd \in Members /\ dd.state = d.state /\ dd.localIp = d.localIp
        /\ dd.settings = d.settings
    BY <1>1 DEF Members
  <2> HIDE DEF dd
  <2> QED BY <2>1, <2>2, ReturnsKeeps DEF DhcpInv, LeaseInv, ChipHasTheLease, Configuration
<1> QED BY <1>2, <1>3, <1>4

LEMMA BeginStep ==
  ASSUME DhcpInv, BeginCall
  PROVE  DhcpInv'
<1> DEFINE dd == [Reset(d) EXCEPT !.leaseTime = 0, !.T1 = 0, !.T2 = 0]
<1>1. dd \in Members /\ dd.state = "START"
  BY ResetClient DEF DhcpInv, TypeOK, Members
<1>2. /\ d' = dd /\ pc' = "request" /\ caller' = "begin" /\ inUse' = [inUse EXCEPT !.ip = None]
      /\ rc' = 0 /\ UNCHANGED <<late, net, acked, grant>>
  BY DEF BeginCall, Requests
<1> HIDE DEF dd
<1>3. inUse' \in Configurations /\ inUse'.ip = None
  BY <1>2 DEF DhcpInv, TypeOK, Configurations
<1> QED BY <1>1, <1>2, <1>3 DEF DhcpInv, TypeOK, OnlyAcknowledged, ChipHasTheLease, LeaseInv

LEMMA MaintainStep ==
  ASSUME DhcpInv, NEW e \in Elapses, Maintain(e)
  PROVE  DhcpInv'
<1> DEFINE dd == [d EXCEPT !.renew = Countdown(@, e), !.rebind = Countdown(@, e)]
<1>1. d \in Members /\ e \in Nat
  BY NumberAssumption DEF DhcpInv, TypeOK
<1>2. Countdown(d.renew, e) \in Nat /\ Countdown(d.rebind, e) \in Nat
  BY <1>1 DEF Countdown, Members
<1>3. dd \in Members /\ dd.state = d.state /\ dd.localIp = d.localIp /\ dd.settings = d.settings
  BY <1>1, <1>2 DEF Members
<1>4. /\ pc = "idle" /\ UNCHANGED <<late, net, acked, grant>>
      /\ \/ /\ dd.state = "LEASED"
            /\ Requests("renew", [dd EXCEPT !.state = "REREQUEST"])
            /\ rc' = 0 /\ UNCHANGED inUse
         \/ Rebinds(dd) /\ rc' = 0 /\ UNCHANGED inUse
         \/ Maintained(0, dd)
  BY DEF Maintain
<1> HIDE DEF dd
<1>5. ASSUME dd.state = "LEASED", Requests("renew", [dd EXCEPT !.state = "REREQUEST"]),
             rc' = 0, UNCHANGED inUse
      PROVE  DhcpInv'
  <2>1. /\ d' \in Members /\ d'.state = "REREQUEST" /\ d'.localIp = d.localIp
        /\ d'.settings = d.settings
        /\ pc' = "request" /\ caller' = "renew"
    BY <1>3, <1>5 DEF Requests, Members, State
  <2> QED BY <1>3, <1>4, <1>5, <2>1 DEF DhcpInv, TypeOK, OnlyAcknowledged,
                                        ChipHasTheLease, LeaseInv, Configuration
<1>6. ASSUME Rebinds(dd), rc' = 0, UNCHANGED inUse PROVE DhcpInv'
  BY <1>3, <1>4, <1>6, RebindsKeeps DEF DhcpInv, TypeOK
<1>7. ASSUME Maintained(0, dd) PROVE DhcpInv'
  <2>1. d' = dd /\ pc' = "idle" /\ caller' = "sketch" /\ rc' = 0 /\ UNCHANGED inUse
    BY <1>7 DEF Maintained, TellsChip
  <2> QED BY <1>3, <1>4, <2>1 DEF DhcpInv, TypeOK, OnlyAcknowledged, ChipHasTheLease, LeaseInv,
                                  Configuration
<1> QED BY <1>4, <1>5, <1>6, <1>7

LEMMA DhcpInit == Init => DhcpInv
<1> SUFFICES ASSUME Init PROVE DhcpInv
  OBVIOUS
<1>1. PICK r \in Junk, b \in Junk :
        d = [state |-> "START", localIp |-> None, serverIp |-> None,
             leaseTime |-> 0, T1 |-> 0, T2 |-> 0, renew |-> r, rebind |-> b,
             initial |-> 0, xid |-> 0, settings |-> NoSettings]
  BY DEF Init
<1>2. r \in Nat /\ b \in Nat
  BY NumberAssumption
<1>3. d \in Members /\ d.state = "START"
  <2>1. NoSettings \in SettingsOf /\ "START" \in State /\ None \in Addrs \cup {None} /\ None \in Servers \cup {None}
    BY NoSettingsTyped DEF State
  <2>2. d.state = "START"
    BY <1>1
  <2>3. d \in Members
    BY <1>1, <1>2, <2>1 DEF Members
  <2> QED BY <2>2, <2>3
<1>4. /\ pc = "off" /\ caller = "sketch" /\ late = FALSE
      /\ inUse = [ip |-> None, settings |-> NoSettings] /\ rc = 0
      /\ net = {} /\ acked = {}
      /\ grant = [ip |-> None, srv |-> None, gives |-> {}]
  BY DEF Init
<1>5. TypeOK
  <2>1. late \in BOOLEAN
    BY <1>4, Zenon
  <2>2. rc \in 0 .. 4
    BY <1>4
  <2>3. net \subseteq Messages /\ acked \subseteq Addrs \cup {None}
    BY <1>4, Zenon
  <2>4. inUse \in Configurations /\ grant \in Acknowledgements
    BY <1>4, NoSettingsTyped DEF Configurations, Acknowledgements
  <2> QED BY <1>3, <1>4, <2>1, <2>2, <2>3, <2>4 DEF TypeOK
<1>6. OnlyAcknowledged /\ ChipHasTheLease /\ LeaseInv
  BY <1>3, <1>4 DEF OnlyAcknowledged, ChipHasTheLease, LeaseInv
<1> QED BY <1>5, <1>6 DEF DhcpInv

LEMMA DhcpStep == DhcpInv /\ [Next]_vars => DhcpInv'
<1> SUFFICES ASSUME DhcpInv, [Next]_vars PROVE DhcpInv'
  OBVIOUS
<1>1. CASE TimePasses
  BY <1>1 DEF TimePasses, DhcpInv, TypeOK, OnlyAcknowledged, ChipHasTheLease, LeaseInv
<1>2. CASE BeginCall
  BY <1>2, BeginStep
<1>3. CASE RequestStep
  <2>1. CASE GetReply
    BY <2>1, ReplyStep DEF GetReply
  <2> QED BY <1>3, <2>1, OpenStep, SendStep, WaitStep DEF RequestStep, Exchange
<1>4. CASE \E e \in Elapses : Maintain(e)
  BY <1>4, MaintainStep
<1>5. CASE UNCHANGED vars
  BY <1>5 DEF vars, DhcpInv, TypeOK, OnlyAcknowledged, ChipHasTheLease, LeaseInv
<1> QED BY <1>1, <1>2, <1>3, <1>4, <1>5 DEF Next

(* Every address in the chip and every lease was acknowledged, and the two *)
(* agree, over any exchange.                                               *)
THEOREM DhcpInvariant == Spec => []DhcpInv
<1> QED BY DhcpInit, DhcpStep, PTL DEF Spec

(* The state keeps its types.                                              *)
THEOREM TypeCorrect == Spec => []TypeOK
<1>1. DhcpInv => TypeOK
  BY DEF DhcpInv
<1> QED BY <1>1, DhcpInvariant, PTL

(* The chip uses acknowledged addresses only, with any servers and any     *)
(* behaviour of the network.                                               *)
THEOREM AddressAcknowledged == Spec => []OnlyAcknowledged
<1>1. DhcpInv => OnlyAcknowledged
  BY DEF DhcpInv
<1> QED BY <1>1, DhcpInvariant, PTL

(* The chip uses the lease the client holds, its settings included.        *)
THEOREM ChipAgrees == Spec => []ChipHasTheLease
<1>1. DhcpInv => ChipHasTheLease
  BY DEF DhcpInv
<1> QED BY <1>1, DhcpInvariant, PTL

-----------------------------------------------------------------------------
(* The configuration of the last acknowledgement                           *)

(* A configuration that agrees with the acknowledgement still does when    *)
(* neither of the two changed.                                             *)
LEMMA GrantStays ==
  ASSUME ConfigurationOfGrant, UNCHANGED grant,
         d'.state = "LEASED" => d.state = "LEASED" /\ Configuration(d)' = Configuration(d),
         \/ inUse'.ip = None
         \/ /\ inUse' = inUse
            /\ ~(pc' = "done" /\ d'.state = "LEASED") => ~(pc = "done" /\ d.state = "LEASED")
         \/ d.state = "LEASED" /\ inUse' = Configuration(d)
  PROVE  ConfigurationOfGrant'
  BY DEF ConfigurationOfGrant, AsGranted

(* A turn of the loop that ends without a lease.                           *)
LEMMA TurnWithoutLease ==
  ASSUME ConfigurationOfGrant, NEW dd, Turns(dd), pc = "loop", UNCHANGED grant,
         dd.state # "LEASED"
  PROVE  ConfigurationOfGrant'
  BY GrantStays DEF Turns

(* The acknowledgement that is taken is the lease, in each setting it has  *)
(* an option for.                                                          *)
LEMMA AckIsTheLease ==
  ASSUME DhcpInv, ConfigurationOfGrant, NEW m \in net, GetAck(m)
  PROVE  ConfigurationOfGrant'
<1>1. d \in Members /\ m \in Messages
  BY DEF DhcpInv, TypeOK
<1>2. Turns(Leased(Parsed(m))) /\ grant' = [ip |-> m.ip, srv |-> m.srv, gives |-> m.gives]
  BY DEF GetAck
<1> DEFINE p == Parsed(m)
           dd == Leased(p)
<1>3. p \in Members /\ p.localIp = m.ip /\ \A s \in m.gives : p.settings[s] = m.srv
  BY <1>1, ParsedReply
<1>4. dd.localIp = m.ip /\ dd.state = "LEASED" /\ \A s \in m.gives : dd.settings[s] = m.srv
  BY <1>3, LeaseOf
<1> HIDE DEF p, dd
<1>5. d' = dd /\ pc' = "done"
  BY <1>2, <1>4 DEF Turns, p, dd
<1>6. Configuration(d)' = [ip |-> dd.localIp, settings |-> dd.settings]
  BY <1>5 DEF Configuration
<1>7. AsGranted(Configuration(d))'
  BY <1>2, <1>4, <1>6 DEF AsGranted
<1> QED BY <1>4, <1>5, <1>7 DEF ConfigurationOfGrant

(* The end of a request: a lease is told, and no lease is thrown away for  *)
(* a rebinding before it is.                                               *)
LEMMA ReturnsAsGranted ==
  ASSUME DhcpInv, ConfigurationOfGrant, NEW dd \in Members, Returns(dd), UNCHANGED grant,
         pc \in {"request", "done"},
         dd.state = d.state, Configuration(dd) = Configuration(d), dd.rebind = d.rebind,
         pc = "request" => d.state # "LEASED"
  PROVE  ConfigurationOfGrant'
<1>1. CASE d.state = "LEASED"
  <2>1. pc = "done" /\ dd.rebind > 0 /\ ~RebindDue(dd)
    BY <1>1 DEF DhcpInv, LeaseInv, RebindDue
  <2>2. d' = dd /\ inUse' = Configuration(dd)
    BY <1>1, <2>1 DEF Returns, Maintained, TellsChip, Tells
  <2>3. Configuration(d)' = Configuration(d)
    BY <2>2 DEF Configuration
  <2> QED BY <1>1, <2>2, <2>3, GrantStays
<1>2. CASE d.state # "LEASED"
  <2>1. UNCHANGED inUse
    BY <1>2 DEF Returns, Maintained, TellsChip, Rebinds, Requests
  <2>2. d'.state # "LEASED"
    BY <1>2, ResetClient DEF Returns, Maintained, Rebinds, Requests
  <2> QED BY <1>2, <2>1, <2>2, GrantStays
<1> QED BY <1>1, <1>2

LEMMA GrantRequest ==
  ASSUME DhcpInv, ConfigurationOfGrant, RequestStep
  PROVE  ConfigurationOfGrant'
<1>1. d \in Members
  BY DEF DhcpInv, TypeOK
<1>2. CASE RequestOpens
  <2>1. PICK x \in Initials : d' = [d EXCEPT !.initial = x, !.xid = x]
    BY <1>2 DEF RequestOpens
  <2>2. d'.state = d.state /\ Configuration(d)' = Configuration(d)
    BY <1>1, <2>1 DEF Members, Configuration
  <2> QED BY <1>2, <2>2, GrantStays DEF RequestOpens
<1>3. CASE SendDiscover \/ SendRerequest
  <2>1. UNCHANGED grant
    BY <1>3 DEF SendDiscover, SendRerequest, Sends
  <2>2. PICK dd : Turns(dd) /\ dd.state # "LEASED"
    <3>1. \A s \in State : [d EXCEPT !.xid = @ + 1, !.state = s].state = s
      BY <1>1 DEF Members
    <3>2. "DISCOVER" \in State /\ "REQUEST" \in State
      BY DEF State
    <3> QED BY <1>3, <3>1, <3>2, Zenon DEF SendDiscover, SendRerequest
  <2> QED BY <1>3, <2>1, <2>2, TurnWithoutLease DEF SendDiscover, SendRerequest
<1>4. ASSUME NEW m \in net, GetOffer(m) \/ GetNak(m) \/ GetOther(m)
      PROVE  ConfigurationOfGrant'
  <2>1. m \in Messages
    BY DEF DhcpInv, TypeOK
  <2>2. Parsed(m) \in Members /\ Parsed(m).state = d.state
    BY <1>1, <2>1, ParsedReply
  <2>3. UNCHANGED grant
    BY <1>4 DEF GetOffer, GetNak, GetOther, Sends
  <2>4. PICK dd : Turns(dd) /\ dd.state # "LEASED"
    <3>1. \A x : [Parsed(m) EXCEPT !.xid = x, !.state = "REQUEST"].state = "REQUEST"
      BY <2>2 DEF Members
    <3>2. [Parsed(m) EXCEPT !.state = "START"].state = "START"
      BY <2>2 DEF Members
    <3>3. CASE GetOffer(m)
      BY <3>1, <3>3 DEF GetOffer
    <3>4. CASE GetNak(m)
      BY <3>2, <3>4 DEF GetNak
    <3>5. CASE GetOther(m)
      BY <2>2, <3>5 DEF GetOther
    <3> QED BY <1>4, <3>3, <3>4, <3>5
  <2> QED BY <1>4, <2>3, <2>4, TurnWithoutLease DEF GetOffer, GetNak, GetOther
<1>5. CASE GetReply
  BY <1>4, <1>5, AckIsTheLease DEF GetReply
<1>6. CASE GetForeign \/ ResponseTimeout
  <2>1. PICK dd : Turns(dd) /\ dd.state # "LEASED"
    BY <1>1, <1>6 DEF GetForeign, ResponseTimeout, Members
  <2> QED BY <1>6, <2>1, TurnWithoutLease DEF GetForeign, ResponseTimeout
<1>7. CASE RequestNoSocket
  <2>1. PICK x \in Initials : Returns([d EXCEPT !.initial = x, !.xid = x])
    BY <1>7 DEF RequestNoSocket
  <2> DEFINE dd == [d EXCEPT !.initial = x, !.xid = x]
  <2>2. /\ dd \in Members /\ dd.state = d.state /\ dd.rebind = d.rebind
        /\ Configuration(dd) = Configuration(d)
    BY <1>1, NumberAssumption DEF Members, Configuration
  <2>3. Returns(dd) /\ UNCHANGED grant /\ pc = "request" /\ d.state # "LEASED"
    BY <1>7, <2>1 DEF RequestNoSocket, DhcpInv, LeaseInv
  <2> HIDE DEF dd
  <2> QED BY <2>2, <2>3, ReturnsAsGranted
<1>8. CASE RequestEnds
  <2> DEFINE dd == [d EXCEPT !.xid = @ + 1]
  <2>1. Returns(dd) /\ UNCHANGED grant /\ pc = "done"
    BY <1>8 DEF RequestEnds
  <2>2. /\ dd \in Members /\ dd.state = d.state /\ dd.rebind = d.rebind
        /\ Configuration(dd) = Configuration(d)
    BY <1>1 DEF Members, Configuration
  <2> HIDE DEF dd
  <2> QED BY <2>1, <2>2, ReturnsAsGranted
<1> QED BY <1>2, <1>3, <1>5, <1>6, <1>7, <1>8 DEF RequestStep, Exchange

LEMMA GrantMaintain ==
  ASSUME DhcpInv, ConfigurationOfGrant, NEW e \in Elapses, Maintain(e)
  PROVE  ConfigurationOfGrant'
<1> DEFINE dd == [d EXCEPT !.renew = Countdown(@, e), !.rebind = Countdown(@, e)]
<1>1. d \in Members /\ e \in Nat
  BY NumberAssumption DEF DhcpInv, TypeOK
<1>2. Countdown(d.renew, e) \in Nat /\ Countdown(d.rebind, e) \in Nat
  BY <1>1 DEF Countdown, Members
<1>3. dd \in Members /\ dd.state = d.state /\ Configuration(dd) = Configuration(d)
  BY <1>1, <1>2 DEF Members, Configuration
<1>4. /\ pc = "idle" /\ UNCHANGED grant
      /\ \/ Requests("renew", [dd EXCEPT !.state = "REREQUEST"]) /\ UNCHANGED inUse
         \/ Rebinds(dd) /\ UNCHANGED inUse
         \/ Maintained(0, dd)
  BY DEF Maintain
<1> HIDE DEF dd
<1>5. CASE Requests("renew", [dd EXCEPT !.state = "REREQUEST"]) /\ UNCHANGED inUse
  <2>1. d'.state = "REREQUEST"
    BY <1>3, <1>5 DEF Requests, Members
  <2> QED BY <1>4, <1>5, <2>1, GrantStays
<1>6. CASE Rebinds(dd) /\ UNCHANGED inUse
  <2>1. d'.state = "START"
    BY <1>3, <1>6, ResetClient DEF Rebinds, Requests
  <2> QED BY <1>4, <1>6, <2>1, GrantStays
<1>7. CASE Maintained(0, dd)
  <2>1. d' = dd /\ pc' = "idle" /\ UNCHANGED inUse
    BY <1>7 DEF Maintained, TellsChip
  <2>2. Configuration(d)' = Configuration(d)
    BY <1>3, <2>1 DEF Configuration
  <2> QED BY <1>3, <1>4, <2>1, <2>2, GrantStays
<1> QED BY <1>4, <1>5, <1>6, <1>7

LEMMA GrantStep ==
  ASSUME DhcpInv, ConfigurationOfGrant, [Next]_vars
  PROVE  ConfigurationOfGrant'
<1>1. CASE TimePasses
  BY <1>1, GrantStays DEF TimePasses, Configuration
<1>2. CASE BeginCall
  <2>1. [Reset(d) EXCEPT !.leaseTime = 0, !.T1 = 0, !.T2 = 0].state = "START"
    BY ResetClient DEF DhcpInv, TypeOK, Members
  <2>2. d'.state = "START" /\ inUse' = [inUse EXCEPT !.ip = None] /\ UNCHANGED grant
    BY <1>2, <2>1 DEF BeginCall, Requests
  <2>3. inUse'.ip = None
    BY <2>2 DEF DhcpInv, TypeOK, Configurations
  <2> QED BY <2>2, <2>3, GrantStays
<1>3. CASE UNCHANGED vars
  BY <1>3, GrantStays DEF vars, Configuration
<1> QED BY <1>1, <1>2, <1>3, GrantRequest, GrantMaintain DEF Next

LEMMA GrantInit == Init => ConfigurationOfGrant
<1> SUFFICES ASSUME Init PROVE ConfigurationOfGrant
  OBVIOUS
<1>1. d.state = "START" /\ inUse.ip = None
  BY DEF Init
<1> QED BY <1>1 DEF ConfigurationOfGrant

(* The address, subnet mask, gateway and DNS server in use are those of    *)
(* the acknowledgement taken last, as far as it names them, with any       *)
(* number of servers and whatever else was parsed before or since.         *)
THEOREM UsesWhatWasGranted == Spec => []ConfigurationOfGrant
<1> DEFINE GrantInv == DhcpInv /\ ConfigurationOfGrant
<1>1. Init => GrantInv
  BY DhcpInit, GrantInit
<1>2. GrantInv /\ [Next]_vars => GrantInv'
  BY DhcpStep, GrantStep
<1>3. GrantInv => ConfigurationOfGrant
  OBVIOUS
<1> QED BY <1>1, <1>2, <1>3, PTL DEF Spec

-----------------------------------------------------------------------------
(* The countdown to the renewal (LeaseTimer)                               *)

TimerInv == TimerTypeOK /\ Counted

(* What one checkLease sees while the renewal is not due: the milliseconds *)
(* since the last second that was counted, although the clock wraps.       *)
LEMMA ElapsedIsExact ==
  ASSUME TimerInv, 0 < _renewInSec, NEW g \in Gaps
  PROVE  /\ g \in Nat
         /\ Uncounted \in Nat /\ Uncounted < Second /\ Uncounted <= now
         /\ Elapsed(now + g) = Uncounted + g
<1> DEFINE U == Uncounted
           L == now - U
           n == T1 - _renewInSec
<1>1. g \in Nat /\ g + Second < MillisMod
  BY GapAssumption
<1>2. now \in Nat /\ start \in Nat /\ start <= now /\ n \in Nat
  BY TimeAssumption DEF TimerInv, TimerTypeOK, Counted
<1>3. n * Second \in Nat
  BY <1>2, TimeAssumption
<1>4. U = (now - start) - n * Second
  BY DEF Uncounted
<1>5. 0 <= U /\ U < Second /\ _lastCheckLeaseMillis = L % MillisMod
  BY DEF TimerInv, Counted
<1> HIDE DEF U, n
<1>6. U \in Nat /\ U <= now /\ L \in Nat
  BY <1>2, <1>3, <1>4, <1>5
<1>7. now + g \in Nat /\ L <= now + g /\ now + g < L + MillisMod
  BY <1>1, <1>2, <1>5, <1>6, TimeAssumption
<1> DEFINE t == now + g
<1>8. L \in Nat /\ t \in Nat /\ L <= t /\ t < L + MillisMod /\ t - L = U + g
  BY <1>1, <1>2, <1>6, <1>7
<1>9. MillisMod \in Nat /\ 0 < MillisMod
  BY TimeAssumption
<1> HIDE DEF L, t
<1>10. ((t % MillisMod) - (L % MillisMod)) % MillisMod = t - L
  BY <1>8, <1>9, DifferenceOfRemainders
<1>11. Elapsed(t) = U + g
  BY <1>5, <1>8, <1>10 DEF Elapsed, millis
<1> QED BY <1>1, <1>5, <1>6, <1>11 DEF U, t

(* The seconds in it and the rest of a second.                             *)
LEMMA SplitElapsed ==
  ASSUME NEW E \in Nat
  PROVE  /\ E \div Second \in Nat /\ Rest(E) \in Nat /\ Rest(E) < Second
         /\ E = (E \div Second) * Second + Rest(E)
         /\ E >= Second => 0 < E \div Second
<1>1. /\ E \div Second \in Nat /\ E % Second \in Nat /\ E % Second < Second
      /\ E = Second * (E \div Second) + (E % Second)
  BY DivMod, TimeAssumption
<1>2. Second * (E \div Second) = (E \div Second) * Second
  BY <1>1, TimeAssumption
<1>3. ASSUME E >= Second, E \div Second = 0 PROVE FALSE
  <2>1. Second * (E \div Second) = 0
    BY <1>3, TimeAssumption
  <2> QED BY <1>1, <1>3, <2>1, TimeAssumption
<1> QED BY <1>1, <1>2, <1>3 DEF Rest

(* A call that finds less than a second changes nothing but the time.      *)
LEMMA QuietCall ==
  ASSUME TimerInv, 0 < _renewInSec, NEW g \in Gaps, now' = now + g,
         Elapsed(now + g) < Second,
         UNCHANGED <<start, _lastCheckLeaseMillis, _renewInSec>>
  PROVE  TimerInv'
<1>1. /\ g \in Nat /\ Uncounted \in Nat /\ Uncounted <= now
      /\ Elapsed(now + g) = Uncounted + g
  BY ElapsedIsExact
<1>2. now \in Nat /\ start \in Nat /\ start <= now /\ _renewInSec \in Nat /\ _renewInSec <= T1
  BY DEF TimerInv, TimerTypeOK, Counted
<1>3. Uncounted' = Uncounted + g
  <2>1. (T1 - _renewInSec) * Second \in Int
    BY <1>2, TimeAssumption
  <2> QED BY <1>1, <1>2, <2>1 DEF Uncounted
<1>4. TimerTypeOK'
  BY <1>1, <1>2 DEF TimerInv, TimerTypeOK
<1>5. now' - Uncounted' = now - Uncounted
  BY <1>1, <1>2, <1>3
<1>6. Counted'
  BY <1>1, <1>2, <1>3, <1>5 DEF TimerInv, Counted
<1> QED BY <1>4, <1>6 DEF TimerInv

(* A call that counts seconds carries the rest over.                       *)
LEMMA CountingCall ==
  ASSUME TimerInv, 0 < _renewInSec, NEW g \in Gaps, now' = now + g,
         Elapsed(now + g) >= Second, CheckLease(now + g), UNCHANGED start
  PROVE  TimerInv'
<1> DEFINE E == Uncounted + g
           e == E \div Second
           r == Rest(E)
<1>1. /\ g \in Nat /\ Uncounted \in Nat /\ Uncounted <= now
      /\ Elapsed(now + g) = E
  BY ElapsedIsExact
<1>2. now \in Nat /\ start \in Nat /\ start <= now /\ _renewInSec \in Nat /\ _renewInSec <= T1
  BY DEF TimerInv, TimerTypeOK, Counted
<1>3. /\ E \in Nat /\ e \in Nat /\ r \in Nat /\ r < Second
      /\ E = e * Second + r
  <2>1. E \in Nat
    BY <1>1
  <2> QED BY <2>1, SplitElapsed
<1>4. /\ _lastCheckLeaseMillis' = (millis(now + g) - r) % MillisMod
      /\ _renewInSec' = SecondsLeft(_renewInSec, e)
  BY <1>1 DEF CheckLease
<1>5. E = (now + g) - start - (T1 - _renewInSec) * Second
  <2>1. (T1 - _renewInSec) * Second \in Int
    BY <1>2, TimeAssumption
  <2> QED BY <1>1, <1>2, <2>1 DEF Uncounted
<1>6. r <= now + g /\ now + g \in Nat
  <2>1. e * Second \in Nat /\ E <= now + g
    BY <1>1, <1>2, <1>3, TimeAssumption
  <2> QED BY <1>1, <1>2, <1>3, <2>1
<1> HIDE DEF E, e, r
<1>7. _lastCheckLeaseMillis' = ((now + g) - r) % MillisMod
  <2> DEFINE t == now + g
  <2>1. t \in Nat /\ r \in Nat /\ r <= t /\ MillisMod \in Nat /\ 0 < MillisMod
    BY <1>3, <1>6, TimeAssumption
  <2>2. _lastCheckLeaseMillis' = ((t % MillisMod) - r) % MillisMod
    BY <1>4 DEF millis
  <2> HIDE DEF t
  <2>3. ((t % MillisMod) - r) % MillisMod = (t - r) % MillisMod
    BY <2>1, RemainderOfDifference
  <2> QED BY <2>2, <2>3 DEF t
<1>8. _renewInSec' \in Nat /\ _renewInSec' <= _renewInSec
  BY <1>2, <1>3, <1>4 DEF SecondsLeft
<1>9. TimerTypeOK'
  <2> DEFINE l == (now + g) - r
  <2>1. l \in Nat
    BY <1>3, <1>6
  <2> HIDE DEF l
  <2>2. l % MillisMod \in Nat /\ l % MillisMod < MillisMod
    BY <2>1, DivMod, TimeAssumption
  <2>3. _lastCheckLeaseMillis' \in Nat /\ _lastCheckLeaseMillis' < MillisMod
    BY <1>7, <2>2 DEF l
  <2> QED BY <1>1, <1>2, <1>8, <2>3 DEF TimerTypeOK
<1>10. ASSUME 0 < _renewInSec' PROVE Uncounted' = r
  <2>1. _renewInSec' = _renewInSec - e
    BY <1>2, <1>3, <1>4, <1>10 DEF SecondsLeft
  <2>2. (T1 - _renewInSec') * Second = (T1 - _renewInSec) * Second + e * Second
    BY <1>2, <1>3, <2>1, TimeAssumption
  <2>3. (T1 - _renewInSec) * Second \in Int /\ e * Second \in Int
    BY <1>2, <1>3, TimeAssumption
  <2> QED BY <1>1, <1>2, <1>3, <1>5, <2>2, <2>3 DEF Uncounted
<1>11. ASSUME 0 < _renewInSec'
       PROVE  _lastCheckLeaseMillis' = (now' - Uncounted') % MillisMod
  BY <1>7, <1>10, <1>11
<1>12. Counted'
  <2> SUFFICES ASSUME 0 < _renewInSec'
               PROVE  /\ _renewInSec' <= T1
                      /\ 0 <= Uncounted' /\ Uncounted' < Second
                      /\ _lastCheckLeaseMillis' = (now' - Uncounted') % MillisMod
    BY DEF Counted
  <2>1. Uncounted' = r
    BY <1>10
  <2> QED BY <1>2, <1>3, <1>8, <1>11, <2>1, TimeAssumption
<1> QED BY <1>9, <1>12 DEF TimerInv

LEMMA TimerInvInit == TimerInit => TimerInv
<1> SUFFICES ASSUME TimerInit PROVE TimerInv
  OBVIOUS
<1>1. now = 0 /\ start = 0 /\ _renewInSec = T1 /\ _lastCheckLeaseMillis = 0 % MillisMod
  BY DEF TimerInit, millis
<1>2. 0 % MillisMod = 0
  BY RemainderOfSmall, TimeAssumption
<1>3. Uncounted = 0
  BY <1>1, TimeAssumption DEF Uncounted
<1> QED BY <1>1, <1>2, <1>3, TimeAssumption DEF TimerInv, TimerTypeOK, Counted

LEMMA TimerInvStep == TimerInv /\ [TimerNext]_timerVars => TimerInv'
<1> SUFFICES ASSUME TimerInv, [TimerNext]_timerVars PROVE TimerInv'
  OBVIOUS
<1>1. CASE MaintainPoll
  <2>1. PICK g \in Gaps : now' = now + g
    BY <1>1 DEF MaintainPoll
  <2>2. 0 < _renewInSec /\ CheckLease(now + g) /\ UNCHANGED start
    BY <1>1, <2>1 DEF MaintainPoll
  <2>3. Elapsed(now + g) \in Int
    <3>1. Uncounted \in Nat /\ g \in Nat /\ Elapsed(now + g) = Uncounted + g
      BY <2>2, ElapsedIsExact
    <3> QED BY <3>1
  <2>4. CASE Elapsed(now + g) >= Second
    BY <2>1, <2>2, <2>4, CountingCall
  <2>5. CASE Elapsed(now + g) < Second
    <3>1. UNCHANGED <<_lastCheckLeaseMillis, _renewInSec>>
      BY <2>2, <2>3, <2>5, TimeAssumption DEF CheckLease
    <3> QED BY <2>1, <2>2, <2>5, <3>1, QuietCall
  <2> QED BY <2>3, <2>4, <2>5, TimeAssumption
<1>2. CASE Renewed
  <2>1. PICK g \in Gaps : now' = now + g
    BY <1>2 DEF Renewed
  <2> DEFINE t == now + g
  <2>2. now' = t /\ start' = t /\ _lastCheckLeaseMillis' = t % MillisMod /\ _renewInSec' = T1
    BY <1>2, <2>1 DEF Renewed, millis
  <2>3. t \in Nat
    BY GapAssumption DEF TimerInv, TimerTypeOK
  <2> HIDE DEF t
  <2>4. t % MillisMod \in Nat /\ t % MillisMod < MillisMod
    BY <2>3, DivMod, TimeAssumption
  <2>5. Uncounted' = 0
    <3>1. t - t = 0 /\ T1 - T1 = 0 /\ 0 * Second = 0
      BY <2>3, TimeAssumption
    <3>2. Uncounted' = (t - t) - (T1 - T1) * Second
      BY <2>2 DEF Uncounted
    <3> QED BY <3>1, <3>2
  <2>6. now' - Uncounted' = t
    BY <2>2, <2>3, <2>5
  <2>7. TimerTypeOK'
    BY <2>2, <2>3, <2>4, TimeAssumption DEF TimerTypeOK
  <2>8. Counted'
    BY <2>2, <2>5, <2>6, TimeAssumption DEF Counted
  <2> QED BY <2>7, <2>8 DEF TimerInv
<1>3. CASE UNCHANGED timerVars
  <2>1. Uncounted' = Uncounted
    BY <1>3 DEF timerVars, Uncounted
  <2> QED BY <1>3, <2>1 DEF timerVars, TimerInv, TimerTypeOK, Counted
<1> QED BY <1>1, <1>2, <1>3 DEF TimerNext

LEMMA TimerInvariant == TimerSpec => []TimerInv
<1> QED BY TimerInvInit, TimerInvStep, PTL DEF TimerSpec

(* The state keeps its types.                                              *)
THEOREM TimerTypeCorrect == TimerSpec => []TimerTypeOK
<1>1. TimerInv => TimerTypeOK
  BY DEF TimerInv
<1> QED BY <1>1, TimerInvariant, PTL

(* The countdown is exact to the rest of a second: nothing is lost between *)
(* two calls, nor at the wrap of the clock.                                *)
THEOREM CountsEverySecond == TimerSpec => []Counted
<1>1. TimerInv => Counted
  BY DEF TimerInv
<1> QED BY <1>1, TimerInvariant, PTL

(* A renewal that is due is seen by the next call.                         *)
THEOREM RenewalNeverMissed == TimerSpec => []NeverLate
<1>1. ASSUME TimerInv PROVE NeverLate
  <2> SUFFICES ASSUME now - start >= T1 * Second, _renewInSec # 0 PROVE FALSE
    BY DEF NeverLate
  <2> DEFINE n == T1 - _renewInSec
  <2>1. now \in Nat /\ start \in Nat /\ _renewInSec \in Nat /\ 0 < _renewInSec
    BY <1>1 DEF TimerInv, TimerTypeOK
  <2>2. n \in Nat /\ n + 1 <= T1
    BY <1>1, <2>1, TimeAssumption DEF TimerInv, Counted
  <2>3. (now - start) - n * Second < Second
    BY <1>1, <2>1 DEF TimerInv, Counted, Uncounted
  <2> HIDE DEF n
  <2>4. n * Second + Second = (n + 1) * Second
    BY <2>2, TimeAssumption
  <2>5. (n + 1) * Second <= T1 * Second
    <3>1. T1 - (n + 1) \in Nat
      BY <2>2, TimeAssumption
    <3>2. (T1 - (n + 1)) * Second >= 0
      BY <3>1, TimeAssumption
    <3>3. (T1 - (n + 1)) * Second = T1 * Second - (n + 1) * Second
      BY <2>2, TimeAssumption
    <3> QED BY <2>2, <3>2, <3>3, TimeAssumption
  <2>6. n * Second \in Int /\ (n + 1) * Second \in Int /\ T1 * Second \in Int
    BY <2>2, TimeAssumption
  <2> QED BY <2>1, <2>3, <2>4, <2>5, <2>6, TimeAssumption
<1> QED BY <1>1, TimerInvariant, PTL

(* A renewal comes at most an interval of the calls, and a second, before  *)
(* its time.                                                               *)
THEOREM RenewalNotTooEarly == TimerSpec => NotTooEarly
<1>1. ASSUME TimerInv, [TimerNext]_timerVars, _renewInSec > 0, _renewInSec' = 0
      PROVE  (now' - start) + (now' - now) + Second > T1 * Second
  <2>1. MaintainPoll
    BY <1>1, TimeAssumption DEF TimerNext, Renewed, timerVars
  <2>2. PICK g \in Gaps : now' = now + g
    BY <2>1 DEF MaintainPoll
  <2>3. CheckLease(now + g)
    BY <2>1, <2>2 DEF MaintainPoll
  <2> DEFINE E == Uncounted + g
             e == E \div Second
             a == T1 - _renewInSec
  <2>4. /\ g \in Nat /\ Uncounted \in Nat /\ Uncounted < Second /\ Uncounted <= now
        /\ Elapsed(now + g) = E
    BY <1>1, ElapsedIsExact
  <2>5. /\ now \in Nat /\ start \in Nat /\ _renewInSec \in Nat /\ a \in Nat
    BY <1>1, TimeAssumption DEF TimerInv, TimerTypeOK, Counted
  <2>6. E \in Nat /\ e \in Nat /\ e * Second <= E /\ (E >= Second => 0 < e)
    <3>1. E \in Nat
      BY <2>4
    <3>2. /\ e \in Nat /\ Rest(E) \in Nat /\ E = e * Second + Rest(E)
          /\ E >= Second => 0 < e
      BY <3>1, SplitElapsed
    <3>3. e * Second \in Nat
      BY <3>2, TimeAssumption
    <3> QED BY <3>1, <3>2, <3>3
  <2>7. Uncounted = (now - start) - a * Second
    BY DEF Uncounted
  <2>8. E >= Second /\ _renewInSec' = SecondsLeft(_renewInSec, e)
    BY <1>1, <2>3, <2>4, <2>6, TimeAssumption DEF CheckLease
  <2>9. E < g + Second
    BY <2>4, TimeAssumption
  <2>10. E = (now + g) - start - a * Second
    <3>1. a * Second \in Int
      BY <2>5, TimeAssumption
    <3> QED BY <2>4, <2>5, <2>7, <3>1
  <2> HIDE DEF E, e
  <2>11. T1 < a + e + e
    BY <1>1, <2>5, <2>6, <2>8, TimeAssumption DEF SecondsLeft
  <2> HIDE DEF a
  <2>12. T1 * Second <= a * Second + e * Second + e * Second
    <3>1. a + e + e - T1 \in Nat
      BY <2>5, <2>6, <2>11, TimeAssumption
    <3>2. (a + e + e - T1) * Second >= 0
      BY <3>1, TimeAssumption
    <3>3. (a + e + e - T1) * Second = a * Second + e * Second + e * Second - T1 * Second
      BY <2>5, <2>6, TimeAssumption
    <3>4. a * Second \in Int /\ e * Second \in Int /\ T1 * Second \in Int
      BY <2>5, <2>6, TimeAssumption
    <3> QED BY <3>2, <3>3, <3>4
  <2>13. a * Second \in Int /\ e * Second \in Int /\ T1 * Second \in Int
    BY <2>5, <2>6, TimeAssumption
  <2> QED BY <2>2, <2>4, <2>5, <2>6, <2>9, <2>10, <2>12, <2>13, TimeAssumption
<1>2. TimerInv /\ [TimerNext]_timerVars
        => [_renewInSec > 0 /\ _renewInSec' = 0
              => (now' - start) + (now' - now) + Second > T1 * Second]_timerVars
  BY <1>1
<1> QED BY <1>2, TimerInvariant, PTL DEF TimerSpec, NotTooEarly
=============================================================================
