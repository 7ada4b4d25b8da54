--------------------------- MODULE ToolPoolProofs ---------------------------
(***************************************************************************)
(* Proofs about ToolPool, for any servers, tools, workflows and chats, and *)
(* any number of changes and faults.                                       *)
(***************************************************************************)
EXTENDS ToolPool, FiniteSetTheorems, TLAPS

Early == {"new", "opening", "failed to open"}
Opened == {"listing", "listed", "built", "serving", "closing"}
Up == {"serving", "closing", "stopped"}
Registered == Up \cup {"built", "failed to finish"}

\* What a startup does once: the transports are opened in the order of the
\* configuration, which names no server twice.
Ordered ==
  /\ phase = "new" => at = 1
  /\ phase \notin {"new", "failed"} /\ configs # <<>> => IsInjective(configs)
  /\ phase \in {"opening", "listing"} => at \in DOMAIN configs
  /\ phase \in {"new", "failed", "stopped"} => open = {}
  /\ phase = "new" => index = Nothing
  /\ phase = "opening" /\ at = 1 => index = Nothing
  /\ phase \in Early => tools = {}
  /\ phase = "listing" /\ at = 1 => tools = {}
  /\ configs = <<>> => phase \in Registered \cup {"new"} /\ tools = {} /\ index = Nothing

\* The servers that were indexed, or listed, before the present one.
IndexedTo ==
  IF phase = "opening" THEN 1..(at - 1) ELSE IF phase \in Opened THEN DOMAIN configs ELSE {}
ListedTo ==
  IF phase = "listing" THEN 1..(at - 1) ELSE IF phase \in Early THEN {} ELSE DOMAIN configs

PublishedBy(i) == DOMAIN published[configs[i]]

Apart(I) == \A i, j \in I : i # j => PublishedBy(i) \cap PublishedBy(j) = {}

\* The index of servers that publish no name twice: no name is qualified.
Routed ==
  changes = {} /\ phase \in Opened \cup {"opening"} /\ Apart(IndexedTo) =>
    /\ DOMAIN index = UNION {PublishedBy(i) : i \in IndexedTo}
    /\ \A i \in IndexedTo : \A n \in PublishedBy(i) : index[n] = configs[i]

\* A server is listed once: its tools have one name each.
Listed ==
  /\ IsFiniteSet(tools)
  /\ \A t \in tools : \E i \in ListedTo : t.server = configs[i]
  /\ \A t, u \in tools : t.server = u.server /\ t.name = u.name => t = u
  /\ changes = {} /\ phase \in Opened \cup {"stopped"} =>
       /\ \A t \in tools : t.name \in DOMAIN published[t.server]
       /\ \A i \in ListedTo : \A n \in PublishedBy(i) :
            \E t \in tools : t.server = configs[i] /\ t.name = n

\* The catalog describes each tool as its server did, and no two by one name.
Catalogued ==
  /\ phase \notin Registered => catalog = Nothing
  /\ phase \in Registered =>
       /\ DOMAIN catalog = {t.name : t \in tools} \cup Workflows
       /\ {t.name : t \in tools} \cap Workflows = {}
       /\ \A t, u \in tools : t.name = u.name => t = u
       /\ \A t \in tools : catalog[t.name] = Descriptor(t.server, t.hitl)

\* What a chat has gone through.
Asked(c) ==
  /\ pc[c] # "new" => phase \in Up
  /\ found[c] \subseteq DOMAIN catalog
  /\ pc[c] \in {"new", "searched", "loaded"} => called[c] = NoName /\ answer[c] = None
  /\ pc[c] \in {"asked", "cleared", "sent"} =>
       called[c] \in DOMAIN catalog \ Workflows /\ answer[c] = None
  /\ pc[c] \in {"cleared", "sent"} /\ catalog[called[c]].hitl => c \in consent
  /\ answer[c] = "not available" => called[c] \notin DOMAIN catalog \cup MetaTools \cup {RenderVisual}
  /\ answer[c] = "KeyError" => changes # {} \/ phase = "stopped"
  /\ answer[c] = "[upstream error]" => changes # {} \/ Head(called[c]) \in Servers

Sent(r) ==
  /\ pc[r.chat] \in {"sent", "done"}
  /\ called[r.chat] \in DOMAIN catalog \ Workflows
  /\ catalog[called[r.chat]].hitl => r.chat \in consent
  /\ r.name = Upstream(r.server, called[r.chat])
  /\ changes = {} => r.server = catalog[called[r.chat]].server

PoolInv ==
  /\ TypeOK
  /\ configs \in MCP_SERVERS
  /\ published \in [Servers -> UNION Range(Offers)]
  /\ \A s \in Servers : published[s] \in Offers[s]
  /\ Ordered /\ Routed /\ Listed /\ Catalogued
  /\ \A c \in Chats : Asked(c)
  /\ \A r \in ran : Sent(r)

Host == <<configs, published, changes, phase, at, open, index, tools, catalog>>

-----------------------------------------------------------------------------
\* What the assumption says of the configuration and of what is published.
LEMMA Configured ==
  ASSUME PoolInv
  PROVE  /\ configs \in Seq(Servers)
         /\ \A i \in DOMAIN configs : configs[i] \in Servers
         /\ \A s \in Servers :
              /\ DOMAIN published[s] \subseteq Published
              /\ IsFiniteSet(DOMAIN published[s])
         /\ \A t \in tools : t.server \in Servers /\ t.name \in Names /\ t.hitl \in BOOLEAN
         /\ DOMAIN catalog \subseteq Names
         /\ open \subseteq Servers /\ \A n \in DOMAIN index : index[n] \in Servers
<1>1. configs \in Seq(Servers)
  BY ToolPoolAssumption DEF PoolInv
<1>2. \A i \in DOMAIN configs : configs[i] \in Servers
  BY <1>1
<1>3. ASSUME NEW s \in Servers
      PROVE  /\ DOMAIN published[s] \subseteq Published
             /\ IsFiniteSet(DOMAIN published[s])
  <2> DEFINE o == published[s]
  <2>1. o \in Offers[s]
    BY DEF PoolInv
  <2> HIDE DEF o
  <2>2. IsFiniteSet(DOMAIN o)
    BY <2>1, ToolPoolAssumption
  <2>3. DOMAIN o \subseteq Published
    BY <2>1 DEF Published
  <2> QED BY <2>2, <2>3 DEF o
<1>5. \A t \in tools : t.server \in Servers /\ t.name \in Names /\ t.hitl \in BOOLEAN
  BY DEF PoolInv, TypeOK
<1>6. DOMAIN catalog \subseteq Names
  BY <1>5 DEF PoolInv, Catalogued, Nothing, Names
<1>7. Range(configs) \subseteq Servers
  BY <1>2 DEF Range
<1>8. open \subseteq Servers
  BY <1>7 DEF PoolInv, TypeOK
<1>9. Range(index) \subseteq Servers
  BY <1>7 DEF PoolInv, TypeOK
<1>10. \A n \in DOMAIN index : index[n] \in Servers
  BY <1>9 DEF Range
<1> QED BY <1>1, <1>2, <1>3, <1>5, <1>6, <1>8, <1>10

\* Nothing is open, indexed, listed or asked for when the host starts.
LEMMA InitInv == Init => PoolInv
<1> SUFFICES ASSUME Init PROVE PoolInv
  OBVIOUS
<1> USE DEF Init
<1>1. configs \in Seq(Servers)
  BY ToolPoolAssumption
<1>2. TypeOK
  BY <1>1 DEF TypeOK, Nothing, Range
<1>3. published \in [Servers -> UNION Range(Offers)] /\ \A s \in Servers : published[s] \in Offers[s]
  OBVIOUS
<1>4. Ordered /\ Routed /\ Catalogued
  BY DEF Ordered, Early, Routed, Opened, Catalogued, Registered, Up
<1>5. Listed
  <2>1. IsFiniteSet(tools)
    BY FS_EmptySet
  <2> QED BY <2>1 DEF Listed, Opened
<1>6. \A c \in Chats : Asked(c)
  BY DEF Asked, Nothing, None
<1> QED BY <1>2, <1>3, <1>4, <1>5, <1>6 DEF PoolInv

-----------------------------------------------------------------------------
\* Chats: no step of one touches the host, or what another has gone through.
LEMMA HostUntouched ==
  ASSUME PoolInv, UNCHANGED Host
  PROVE  /\ configs' \in MCP_SERVERS
         /\ published' \in [Servers -> UNION Range(Offers)]
         /\ \A s \in Servers : published'[s] \in Offers[s]
         /\ Ordered' /\ Routed' /\ Listed' /\ Catalogued'
<1> USE DEF PoolInv, Host
<1>1. /\ configs' \in MCP_SERVERS
      /\ published' \in [Servers -> UNION Range(Offers)]
      /\ \A s \in Servers : published'[s] \in Offers[s]
  OBVIOUS
<1>2. Ordered'
  BY DEF Ordered
<1>3. Routed'
  <2>1. IndexedTo' = IndexedTo /\ \A i \in IndexedTo : PublishedBy(i)' = PublishedBy(i)
    BY DEF IndexedTo, PublishedBy
  <2>2. Apart(IndexedTo)' <=> Apart(IndexedTo)
    BY <2>1 DEF Apart
  <2>3. changes' = changes /\ phase' = phase /\ index' = index /\ configs' = configs
    OBVIOUS
  <2>4. UNION {PublishedBy(i)' : i \in IndexedTo'} = UNION {PublishedBy(i) : i \in IndexedTo}
    BY <2>1
  <2> QED BY <2>1, <2>2, <2>3, <2>4 DEF Routed
<1>4. Listed'
  BY DEF Listed, ListedTo, PublishedBy
<1>5. Catalogued'
  BY DEF Catalogued
<1> QED BY <1>1, <1>2, <1>3, <1>4, <1>5

\* While the host serves, a tool of the catalog is routed to the server that
\* described it, which publishes it still, if no server changed what it did.
LEMMA RoutedAsDescribed ==
  ASSUME PoolInv, changes = {}, phase \in {"serving", "closing", "stopped"},
         NEW n \in DOMAIN catalog \ Workflows
  PROVE  /\ phase # "stopped" => n \in DOMAIN index /\ index[n] = catalog[n].server
         /\ n \in DOMAIN published[catalog[n].server]
<1> USE DEF PoolInv
<1>1. PICK t \in tools : t.name = n
  BY DEF Catalogued, Registered, Up
<1>2. catalog[n].server = t.server
  <2>1. catalog[t.name] = Descriptor(t.server, t.hitl)
    BY DEF Catalogued, Registered, Up
  <2> QED BY <1>1, <2>1 DEF Descriptor
<1>3. PICK i \in DOMAIN configs : t.server = configs[i]
  BY DEF Listed, ListedTo, Early
<1>4. n \in PublishedBy(i)
  BY <1>1, <1>3 DEF Listed, Opened, PublishedBy
<1>5. CASE phase # "stopped"
  <2>1. IndexedTo = DOMAIN configs /\ ListedTo = DOMAIN configs
    BY <1>5 DEF IndexedTo, ListedTo, Opened, Early
  <2>2. ASSUME NEW j \in DOMAIN configs, NEW k \in DOMAIN configs, j # k,
               NEW m \in PublishedBy(j) \cap PublishedBy(k)
        PROVE  FALSE
    <3>1. configs # <<>>
      BY DEF Listed, Ordered
    <3>2. configs[j] # configs[k]
      BY <1>5, <2>2, <3>1 DEF Ordered, IsInjective
    <3>3. PICK t1 \in tools : t1.server = configs[j] /\ t1.name = m
      BY <1>5, <2>1, <2>2 DEF Listed, Opened
    <3>4. PICK t2 \in tools : t2.server = configs[k] /\ t2.name = m
      BY <1>5, <2>1, <2>2 DEF Listed, Opened
    <3>5. t1 = t2
      BY <3>3, <3>4 DEF Catalogued, Registered, Up
    <3> QED BY <3>2, <3>3, <3>4, <3>5
  <2>3. Apart(IndexedTo)
    BY <2>1, <2>2 DEF Apart
  <2>4. n \in DOMAIN index /\ index[n] = configs[i]
    BY <1>4, <1>5, <2>1, <2>3 DEF Routed, Opened
  <2> QED BY <1>2, <1>3, <1>4, <2>4 DEF PublishedBy
<1> QED BY <1>2, <1>3, <1>4, <1>5 DEF PublishedBy

\* A chat that does nothing knows what it knew.
LEMMA OtherChats ==
  ASSUME PoolInv, NEW d \in Chats, UNCHANGED <<phase, changes, catalog>>,
         pc'[d] = pc[d], found'[d] = found[d], called'[d] = called[d], answer'[d] = answer[d],
         d \in consent => d \in consent'
  PROVE  Asked(d)'
BY DEF PoolInv, Asked

LEMMA ChatSteps ==
  ASSUME PoolInv, NEW c \in Chats,
         \/ Search(c) \/ Load(c)
         \/ \E n \in Names : Call(c, n)
         \/ Decline(c) \/ Confirm(c) \/ Reply(c)
  PROVE  PoolInv'
<1> USE Configured
<1>0. UNCHANGED Host
  BY DEF Search, Load, Call, Decline, Confirm, Reply, Dispatch, Answer, Host, world, pool,
         registry, chats
<1>1. CASE Search(c)
  <2>1. found' \in [Chats -> SUBSET Names] /\ found'[c] \subseteq DOMAIN catalog
        /\ \A d \in Chats \ {c} : found'[d] = found[d]
    <3>1. PICK score \in [DOMAIN catalog -> 0..1], k \in {1, 25} :
               \E best \in Ranked(score, k) : found' = [found EXCEPT ![c] = best]
      BY <1>1 DEF Search
    <3>2. PICK best \in Ranked(score, k) : found' = [found EXCEPT ![c] = best]
      BY <3>1
    <3>3. best \subseteq DOMAIN catalog
      BY <3>2 DEF Ranked
    <3>4. found \in [Chats -> SUBSET Names] /\ DOMAIN catalog \subseteq Names
      BY DEF PoolInv, TypeOK
    <3> QED BY <3>2, <3>3, <3>4
  <2>2. pc' = [pc EXCEPT ![c] = "searched"] /\ pc[c] = "new" /\ phase \in Up
    BY <1>1 DEF Search, Step, Served, Up
  <2>3. UNCHANGED <<registry, called, answer, consent, ran>>
    BY <1>1 DEF Search
  <2>4. TypeOK'
    BY <1>0, <2>1, <2>2, <2>3 DEF TypeOK, PoolInv, Host, registry
  <2>5. \A d \in Chats : Asked(d)'
    BY <1>0, <2>1, <2>2, <2>3 DEF TypeOK, PoolInv, Host, registry, Asked
  <2>6. \A r \in ran' : Sent(r)'
    BY <1>0, <2>1, <2>2, <2>3 DEF TypeOK, PoolInv, Host, registry, Sent
  <2> QED BY <1>0, <2>4, <2>5, <2>6, HostUntouched DEF PoolInv
<1>2. CASE Load(c)
  <2>1. loaded' \subseteq DOMAIN catalog
    BY <1>2 DEF Load, PoolInv, TypeOK
  <2>2. pc' = [pc EXCEPT ![c] = "loaded"] /\ pc[c] \in {"new", "searched"} /\ phase \in Up
    BY <1>2 DEF Load, Step, Served, Up
  <2>3. UNCHANGED <<found, called, answer, consent, ran>>
    BY <1>2 DEF Load
  <2>4. TypeOK'
    BY <1>0, <2>1, <2>2, <2>3 DEF TypeOK, PoolInv, Host
  <2>5. \A d \in Chats : Asked(d)'
    BY <1>0, <2>1, <2>2, <2>3 DEF TypeOK, PoolInv, Host, Asked
  <2>6. \A r \in ran' : Sent(r)'
    BY <1>0, <2>1, <2>2, <2>3 DEF TypeOK, PoolInv, Host, Sent
  <2> QED BY <1>0, <2>4, <2>5, <2>6, HostUntouched DEF PoolInv
<1>3. ASSUME NEW n \in Names, Call(c, n) PROVE PoolInv'
  <2>1. called' = [called EXCEPT ![c] = n] /\ pc[c] \in {"new", "searched", "loaded"}
        /\ phase \in Up
    BY <1>3 DEF Call, Served, Up
  <2>2. \/ /\ n \notin DOMAIN catalog \cup MetaTools \cup {RenderVisual}
           /\ pc' = [pc EXCEPT ![c] = "done"] /\ answer' = [answer EXCEPT ![c] = "not available"]
        \/ pc' = [pc EXCEPT ![c] = "done"] /\ answer' = [answer EXCEPT ![c] = "in place"]
        \/ /\ n \in DOMAIN catalog \ Workflows /\ UNCHANGED answer
           /\ pc' = [pc EXCEPT ![c] = IF catalog[n].hitl THEN "asked" ELSE "cleared"]
    BY <1>3 DEF Call, Step, End
  <2>3. UNCHANGED <<registry, found, consent, ran>>
    BY <1>3 DEF Call
  <2>4. TypeOK'
    BY <1>0, <2>1, <2>2, <2>3 DEF TypeOK, PoolInv, Host, registry
  <2>5. ASSUME NEW d \in Chats \ {c} PROVE Asked(d)'
    <3>1. /\ pc'[d] = pc[d] /\ found'[d] = found[d]
          /\ called'[d] = called[d] /\ answer'[d] = answer[d]
      BY <2>1, <2>2, <2>3 DEF TypeOK, PoolInv
    <3> QED BY <1>0, <2>3, <3>1, OtherChats DEF Host
  <2>6. Asked(c)'
    <3>1. /\ called'[c] = n /\ answer[c] = None /\ found'[c] = found[c]
          /\ UNCHANGED <<phase, catalog, changes>> /\ found[c] \subseteq DOMAIN catalog
      BY <1>0, <2>1, <2>3 DEF TypeOK, PoolInv, Host, Asked
    <3>2. \/ /\ n \notin DOMAIN catalog \cup MetaTools \cup {RenderVisual}
             /\ pc'[c] = "done" /\ answer'[c] = "not available"
          \/ pc'[c] = "done" /\ answer'[c] = "in place"
          \/ /\ n \in DOMAIN catalog \ Workflows /\ answer'[c] = None
             /\ \/ pc'[c] = "asked"
                \/ pc'[c] = "cleared" /\ ~catalog[n].hitl
      BY <2>2, <3>1 DEF PoolInv, TypeOK
    <3> QED BY <2>1, <3>1, <3>2 DEF Asked, None
  <2>7. \A r \in ran' : Sent(r)'
    BY <1>0, <2>1, <2>2, <2>3 DEF TypeOK, PoolInv, Host, registry, Sent
  <2> QED BY <1>0, <2>4, <2>5, <2>6, <2>7, HostUntouched DEF PoolInv
<1>4. CASE Decline(c) \/ Confirm(c)
  <2>1. /\ pc[c] = "asked"
        /\ \/ /\ pc' = [pc EXCEPT ![c] = "done"] /\ answer' = [answer EXCEPT ![c] = "declined"]
              /\ UNCHANGED consent
           \/ /\ pc' = [pc EXCEPT ![c] = "cleared"] /\ consent' = consent \cup {c}
              /\ UNCHANGED answer
    BY <1>4 DEF Decline, Confirm, Step, End
  <2>2. UNCHANGED <<registry, found, called, ran>>
    BY <1>4 DEF Decline, Confirm
  <2>3. TypeOK'
    BY <1>0, <2>1, <2>2 DEF TypeOK, PoolInv, Host, registry
  <2>4. \A d \in Chats : Asked(d)'
    <3>1. UNCHANGED <<phase, changes, catalog>> /\ c \in Chats
      BY <1>0 DEF Host
    <3>2. \/ pc'[c] = "done" /\ answer'[c] = "declined"
          \/ pc'[c] = "cleared" /\ answer'[c] = answer[c] /\ c \in consent'
      BY <2>1 DEF TypeOK, PoolInv
    <3>3. Asked(c)'
      BY <2>1, <2>2, <3>1, <3>2 DEF PoolInv, Asked
    <3>4. ASSUME NEW d \in Chats \ {c} PROVE Asked(d)'
      <4>1. pc'[d] = pc[d] /\ answer'[d] = answer[d] /\ (d \in consent => d \in consent')
        BY <2>1 DEF TypeOK, PoolInv
      <4> QED BY <2>2, <3>1, <4>1, OtherChats
    <3> QED BY <3>3, <3>4
  <2>5. \A r \in ran' : Sent(r)'
    BY <1>0, <2>1, <2>2 DEF TypeOK, PoolInv, Host, registry, Sent
  <2> QED BY <1>0, <2>3, <2>4, <2>5, HostUntouched DEF PoolInv
<1>5. CASE Dispatch(c)
  <2>0. PICK n, s : n = called[c] /\ s = index[n]
    OBVIOUS
  <2>1. pc[c] = "cleared" /\ n \in DOMAIN catalog \ Workflows
        /\ (catalog[n].hitl => c \in consent)
        /\ phase \in Up
    BY <1>5, <2>0 DEF Dispatch, Step, PoolInv, Asked
  <2>2. UNCHANGED <<registry, found, called, consent>>
    BY <1>5 DEF Dispatch
  <2>3. CASE n \in DOMAIN index /\ s \in open
    <3> DEFINE r == [chat |-> c, server |-> s, name |-> Upstream(s, n)]
    <3>1. pc' = [pc EXCEPT ![c] = "sent"] /\ UNCHANGED answer /\ ran' = ran \cup {r}
      BY <1>5, <2>0, <2>3 DEF Dispatch, Step
    <3>2. s \in Servers /\ n \in Names
      BY <2>0, <2>1, <2>3
    <3>3. Upstream(s, n) \in Names \cup {Tail(m) : m \in Names}
      BY <3>2 DEF Upstream
    <3>4. changes = {} => s = catalog[n].server
      BY <2>0, <2>1, <2>3, RoutedAsDescribed DEF Up, Ordered, PoolInv
    <3>5. r \in [chat : Chats, server : Servers, name : Names \cup {Tail(m) : m \in Names}]
      BY <3>2, <3>3
    <3>6. r.chat = c /\ r.server = s /\ r.name = Upstream(s, n)
      OBVIOUS
    <3> HIDE DEF r
    <3>7. TypeOK'
      BY <1>0, <2>1, <2>2, <3>1, <3>5 DEF TypeOK, PoolInv, Host, registry
    <3>8. \A d \in Chats : Asked(d)'
      <4>1. UNCHANGED <<phase, changes, catalog>>
        BY <1>0 DEF Host
      <4>2. pc'[c] = "sent" /\ pc[c] = "cleared"
        BY <2>1, <3>1 DEF TypeOK, PoolInv
      <4>3. Asked(c)'
        BY <2>2, <3>1, <4>1, <4>2 DEF PoolInv, Asked
      <4>4. ASSUME NEW d \in Chats \ {c} PROVE Asked(d)'
        <5>1. pc'[d] = pc[d]
          BY <3>1 DEF TypeOK, PoolInv
        <5> QED BY <2>2, <3>1, <4>1, <5>1, OtherChats
      <4> QED BY <4>3, <4>4
    <3>9. \A q \in ran : Sent(q)'
      BY <1>0, <2>1, <2>2, <3>1 DEF TypeOK, PoolInv, Host, registry, Sent
    <3>10. Sent(r)'
      BY <1>0, <2>0, <2>1, <2>2, <3>1, <3>4, <3>6 DEF TypeOK, PoolInv, Host, registry, Sent
    <3> QED BY <1>0, <3>1, <3>7, <3>8, <3>9, <3>10, HostUntouched DEF PoolInv
  <2>4. CASE ~(n \in DOMAIN index /\ s \in open)
    <3>1. pc' = [pc EXCEPT ![c] = "done"] /\ UNCHANGED ran
      BY <1>5, <2>0, <2>4 DEF Dispatch, Step
    <3>2. \/ answer' = [answer EXCEPT ![c] = "tool_error"]
          \/ answer' = [answer EXCEPT ![c] = "KeyError"] /\ n \notin DOMAIN index
      BY <1>5, <2>0, <2>4 DEF Dispatch, End
    <3>3. n \notin DOMAIN index => changes # {} \/ phase = "stopped"
      BY <2>1, RoutedAsDescribed DEF Up
    <3>4. TypeOK'
      BY <1>0, <2>1, <2>2, <3>1, <3>2 DEF TypeOK, PoolInv, Host, registry
    <3>5. \A d \in Chats : Asked(d)'
      <4>1. UNCHANGED <<phase, changes, catalog>>
        BY <1>0 DEF Host
      <4>2. pc'[c] = "done" /\ pc[c] = "cleared"
        BY <2>1, <3>1 DEF TypeOK, PoolInv
      <4>3. answer'[c] \in {"tool_error", "KeyError"} /\ (answer'[c] = "KeyError" => n \notin DOMAIN index)
        BY <3>2 DEF TypeOK, PoolInv
      <4>4. Asked(c)'
        BY <2>2, <3>3, <4>1, <4>2, <4>3 DEF PoolInv, Asked
      <4>5. ASSUME NEW d \in Chats \ {c} PROVE Asked(d)'
        <5>1. pc'[d] = pc[d] /\ answer'[d] = answer[d]
          BY <3>1, <3>2 DEF TypeOK, PoolInv
        <5> QED BY <2>2, <4>1, <5>1, OtherChats
      <4> QED BY <4>4, <4>5
    <3>6. \A q \in ran : Sent(q)'
      BY <1>0, <2>1, <2>2, <3>1 DEF TypeOK, PoolInv, Host, registry, Sent
    <3> QED BY <1>0, <3>1, <3>4, <3>5, <3>6, HostUntouched DEF PoolInv
  <2> QED BY <2>3, <2>4
<1>6. CASE Answer(c)
  <2>1. PICK r \in ran : /\ r.chat = c
                         /\ \/ answer' = [answer EXCEPT ![c] = "tool_error"]
                            \/ /\ r.server \in open
                               /\ answer' = [answer EXCEPT ![c] =
                                    IF r.name \in DOMAIN published[r.server] THEN "ok"
                                    ELSE "[upstream error]"]
    BY <1>6 DEF Answer, End
  <2>2. pc[c] = "sent" /\ pc' = [pc EXCEPT ![c] = "done"]
    BY <1>6 DEF Answer, Step
  <2>3. UNCHANGED <<registry, found, called, consent, ran>>
    BY <1>6 DEF Answer
  <2>4. /\ called[c] \in DOMAIN catalog \ Workflows
        /\ r.name = Upstream(r.server, called[c])
        /\ changes = {} => r.server = catalog[called[c]].server
        /\ r.server \in Servers
    BY <2>1 DEF PoolInv, Sent, TypeOK
  <2>5. ASSUME changes = {}, r.server \in open, r.name \notin DOMAIN published[r.server]
        PROVE  Head(called[c]) \in Servers
    <3>1. phase \in {"serving", "closing", "stopped"}
      BY <2>2 DEF PoolInv, Asked, Up
    <3>2. called[c] \in DOMAIN published[r.server]
      BY <2>4, <2>5, <3>1, RoutedAsDescribed
    <3>3. r.name # called[c]
      BY <2>5, <3>2
    <3> QED BY <2>4, <3>3 DEF Upstream
  <2>6. TypeOK'
    BY <1>0, <2>1, <2>2, <2>3 DEF TypeOK, PoolInv, Host, registry
  <2>7. \A d \in Chats : Asked(d)'
    <3>1. UNCHANGED <<phase, changes, catalog, found, called, consent>>
      BY <1>0, <2>3 DEF Host, registry
    <3>2. /\ answer'[c] \in {"tool_error", "ok", "[upstream error]"}
          /\ answer'[c] = "[upstream error]" => changes # {} \/ Head(called[c]) \in Servers
      BY <2>1, <2>5 DEF PoolInv, TypeOK
    <3>3. pc'[c] = "done"
      BY <2>2 DEF PoolInv, TypeOK
    <3>4. Asked(c)'
      BY <2>2, <3>1, <3>2, <3>3 DEF PoolInv, Asked
    <3>5. ASSUME NEW d \in Chats \ {c} PROVE Asked(d)'
      <4>1. pc'[d] = pc[d] /\ answer'[d] = answer[d]
        BY <2>1, <2>2 DEF PoolInv, TypeOK
      <4> QED BY <3>1, <4>1 DEF PoolInv, Asked
    <3> QED BY <3>4, <3>5
  <2>8. \A q \in ran' : Sent(q)'
    BY <1>0, <2>1, <2>2, <2>3 DEF TypeOK, PoolInv, Host, registry, Sent
  <2> QED BY <1>0, <2>6, <2>7, <2>8, HostUntouched DEF PoolInv
<1> QED BY <1>1, <1>2, <1>3, <1>4, <1>5, <1>6 DEF Reply

-----------------------------------------------------------------------------
\* While the host starts, nobody chats.
LEMMA NobodyChats ==
  ASSUME PoolInv, phase \notin Up, UNCHANGED chats,
         \A c \in Chats : found'[c] \subseteq DOMAIN catalog'
  PROVE  /\ \A c \in Chats : Asked(c)'
         /\ \A r \in ran' : Sent(r)'
<1>1. \A c \in Chats : pc[c] = "new" /\ called[c] = NoName /\ answer[c] = None
  BY DEF PoolInv, Asked
<1>2. ran = {}
  <2>1. ASSUME NEW r \in ran PROVE FALSE
    <3>1. r.chat \in Chats
      BY DEF PoolInv, TypeOK
    <3> QED BY <1>1, <3>1 DEF PoolInv, Sent
  <2> QED BY <2>1
<1>3. UNCHANGED <<pc, called, answer, ran>>
  BY DEF chats
<1> QED BY <1>1, <1>2, <1>3 DEF Asked, None

\* Republishing is known only by those who compare it with what was indexed.
LEMMA RepublishKeeps ==
  ASSUME PoolInv, NEW s \in Servers, Republish(s)
  PROVE  PoolInv'
<1>1. PICK o \in Offers[s] : published' = [published EXCEPT ![s] = o]
  BY DEF Republish
<1>2. UNCHANGED <<configs, phase, at, pool, tools, registry, chats>> /\ changes' # {}
  BY DEF Republish
<1>3. s \in DOMAIN Offers
  BY ToolPoolAssumption
<1>4. /\ published' \in [Servers -> UNION Range(Offers)]
      /\ \A z \in Servers : published'[z] \in Offers[z]
  BY <1>1, <1>3 DEF PoolInv, Range
<1>5. TypeOK'
  BY <1>2 DEF PoolInv, TypeOK, pool, registry, chats
<1>6. Ordered' /\ Catalogued'
  BY <1>2 DEF PoolInv, Ordered, Catalogued, pool, registry
<1>7. Routed'
  BY <1>2 DEF Routed
<1>8. Listed'
  BY <1>2 DEF PoolInv, Listed, ListedTo
<1>9. \A c \in Chats : Asked(c)'
  BY <1>2 DEF PoolInv, Asked, registry, chats
<1>10. \A r \in ran' : Sent(r)'
  BY <1>2 DEF PoolInv, Sent, registry, chats
<1> QED BY <1>2, <1>4, <1>5, <1>6, <1>7, <1>8, <1>9, <1>10 DEF PoolInv

\* The host stops under the chats: sessions end, then the index is dropped.
LEMMA StopSteps ==
  ASSUME PoolInv, phase \in {"serving", "closing"}, Shutdown \/ Closing
  PROVE  PoolInv'
<1> USE DEF PoolInv
<1>1. UNCHANGED <<world, at, tools, registry, chats>>
      /\ open' \subseteq open
      /\ \/ phase' = "closing" /\ UNCHANGED index
         \/ phase = "closing" /\ phase' = "stopped" /\ index' \in {Nothing, index} /\ open' = {}
  BY DEF Shutdown, Closing, EndSession, Stop, pool
<1>2. TypeOK'
  <2>1. Range(index') \subseteq Range(configs)
    <3>1. Range(Nothing) = {}
      BY DEF Nothing, Range
    <3> QED BY <1>1, <3>1 DEF TypeOK
  <2> QED BY <1>1, <2>1 DEF TypeOK, world, registry, chats
<1>3. Ordered'
  <2>1. phase' = "stopped" => open' = {}
    BY <1>1
  <2>2. configs = <<>> => index' = Nothing
    BY <1>1 DEF Ordered
  <2> QED BY <1>1, <2>1, <2>2 DEF Ordered, world, Early, Registered, Up
<1>4. Routed'
  <2>1. CASE phase' = "closing"
    <3>1. IndexedTo = DOMAIN configs /\ IndexedTo' = DOMAIN configs
      BY <1>1, <2>1 DEF IndexedTo, Opened, world
    <3>2. UNCHANGED <<configs, published, changes, index>> /\ phase \in {"serving", "closing"}
      BY <1>1, <2>1 DEF world
    <3> QED BY <3>1, <3>2 DEF Routed, Opened, Apart, PublishedBy
  <2>2. CASE phase' = "stopped"
    BY <2>2 DEF Routed, Opened
  <2> QED BY <1>1, <2>1, <2>2
<1>5. Listed'
  <2>1. ListedTo = DOMAIN configs /\ ListedTo' = DOMAIN configs
    BY <1>1 DEF ListedTo, Early, world
  <2>2. UNCHANGED <<configs, published, changes, tools>> /\ phase \in Opened
    BY <1>1 DEF world, Opened
  <2> QED BY <2>1, <2>2 DEF Listed, PublishedBy
<1>6. Catalogued'
  BY <1>1 DEF Catalogued, registry, Registered, Up
<1>7. \A c \in Chats : Asked(c)'
  BY <1>1 DEF Asked, world, registry, chats, Up
<1>8. \A r \in ran' : Sent(r)'
  BY <1>1 DEF Sent, world, registry, chats
<1> QED BY <1>1, <1>2, <1>3, <1>4, <1>5, <1>6, <1>7, <1>8 DEF world

-----------------------------------------------------------------------------
\* The startup.
LEMMA StartKeeps ==
  ASSUME PoolInv, Start
  PROVE  PoolInv'
<1> USE DEF PoolInv
<1>1. UNCHANGED <<world, at, pool, tools, loaded, chats>> /\ phase = "new" /\ phase \notin Up
  BY DEF Start, Up
<1>2. /\ \/ /\ configs = <<>> /\ phase' = "built" /\ catalog' = WorkflowDescriptors
         \/ /\ configs # <<>> /\ IsInjective(configs) /\ phase' = "opening" /\ catalog' = catalog
         \/ /\ configs # <<>> /\ phase' = "failed" /\ catalog' = catalog
  BY DEF Start
<1>3. catalog = Nothing /\ loaded = {} /\ index = Nothing /\ tools = {} /\ at = 1 /\ open = {}
  BY <1>1 DEF Catalogued, Registered, Up, Ordered, Early, TypeOK, Nothing
<1>0. /\ configs = <<>> => DOMAIN configs = {}
      /\ configs # <<>> => 1 \in DOMAIN configs
  BY Configured
<1>4. DOMAIN WorkflowDescriptors = Workflows
      /\ \A n \in Workflows : WorkflowDescriptors[n] \in [server : Servers \cup {"workflow"}, hitl : BOOLEAN]
  BY DEF WorkflowDescriptors, Descriptor
<1>5. TypeOK'
  <2>1. Range(catalog') \subseteq [server : Servers \cup {"workflow"}, hitl : BOOLEAN]
    <3>1. CASE catalog' = WorkflowDescriptors
      BY <1>4, <3>1 DEF Range
    <3>2. CASE catalog' = catalog
      BY <3>2 DEF TypeOK
    <3> QED BY <1>2, <3>1, <3>2
  <2>2. phase' \in {"built", "opening", "failed"}
    BY <1>2
  <2>3. loaded' \subseteq DOMAIN catalog'
    BY <1>1, <1>3
  <2> QED BY <1>1, <2>1, <2>2, <2>3 DEF TypeOK, world, pool, chats, Failures
<1>6. Ordered'
  <2>1. UNCHANGED <<configs, at, open, index, tools>>
    BY <1>1 DEF world, pool
  <2>2. CASE configs = <<>>
    BY <1>2, <1>3, <2>1, <2>2 DEF Ordered, Early, Registered
  <2>3. CASE configs # <<>> /\ phase' = "opening"
    BY <1>0, <1>2, <1>3, <2>1, <2>3 DEF Ordered, Early, Registered
  <2>4. CASE configs # <<>> /\ phase' = "failed"
    BY <1>3, <2>1, <2>4 DEF Ordered, Early, Registered
  <2> QED BY <1>2, <2>2, <2>3, <2>4
<1>7. Routed'
  <2>1. at' = 1 /\ index' = Nothing /\ configs' = configs
    BY <1>1, <1>3 DEF pool, world
  <2>2. phase' \in Opened \cup {"opening"} => IndexedTo' = {}
    BY <1>2, <2>1 DEF IndexedTo, Opened
  <2> QED BY <2>1, <2>2 DEF Routed, Nothing
<1>8. Listed'
  <2>1. phase' \in Opened \cup {"stopped"} => ListedTo' = {}
    BY <1>0, <1>1, <1>2 DEF ListedTo, Opened, Early, world
  <2>2. tools' = {}
    BY <1>1, <1>3
  <2> QED BY <2>1, <2>2, FS_EmptySet DEF Listed
<1>9. Catalogued'
  <2>1. tools' = {}
    BY <1>1, <1>3
  <2>2. CASE phase' = "built"
    <3>1. catalog' = WorkflowDescriptors /\ {t.name : t \in tools'} = {}
      BY <1>2, <2>1, <2>2
    <3> QED BY <1>4, <2>1, <2>2, <3>1 DEF Catalogued, Registered, Up
  <2>3. CASE phase' \in {"opening", "failed"}
    BY <1>2, <1>3, <2>3 DEF Catalogued, Registered, Up
  <2> QED BY <1>2, <2>2, <2>3
<1>10. \A c \in Chats : found'[c] \subseteq DOMAIN catalog'
  BY <1>1, <1>3 DEF Asked, chats, Nothing
<1> QED BY <1>1, <1>5, <1>6, <1>7, <1>8, <1>9, <1>10, NobodyChats DEF world

\* What leaves the catalog and the chats alone, before the host serves.
LEMMA NobodyCares ==
  ASSUME PoolInv, phase \notin Up, UNCHANGED <<configs, published, catalog, chats>>
  PROVE  /\ configs' \in MCP_SERVERS
         /\ published' \in [Servers -> UNION Range(Offers)]
         /\ \A s \in Servers : published'[s] \in Offers[s]
         /\ \A c \in Chats : Asked(c)'
         /\ \A r \in ran' : Sent(r)'
<1>1. \A c \in Chats : found'[c] \subseteq DOMAIN catalog'
  BY DEF PoolInv, Asked, chats
<1> QED BY <1>1, NobodyChats DEF PoolInv

LEMMA OpenKeeps ==
  ASSUME PoolInv, OpenTransport \/ OpenFails
  PROVE  PoolInv'
<1> USE DEF PoolInv
<1>1. phase = "opening" /\ phase' \in {"opening", "failed to open"}
      /\ UNCHANGED <<world, at, index, tools, registry, chats>>
  BY DEF OpenTransport, OpenFails, pool
<1>2. at \in DOMAIN configs /\ phase \notin Up
  BY <1>1 DEF Ordered, Up
<1>3. open' \subseteq Range(configs)
  BY <1>2 DEF OpenTransport, OpenFails, pool, Current, Range, TypeOK
<1>4. TypeOK'
  BY <1>1, <1>3 DEF TypeOK, world, registry, chats, Failures
<1>5. Ordered'
  BY <1>1 DEF Ordered, world, Early, Registered, Up
<1>6. Routed'
  <2>1. CASE phase' = "opening"
    <3>1. IndexedTo' = IndexedTo
      BY <1>1, <2>1 DEF IndexedTo, world
    <3> QED BY <1>1, <2>1, <3>1 DEF Routed, world, Apart, PublishedBy
  <2>2. CASE phase' = "failed to open"
    BY <2>2 DEF Routed, Opened
  <2> QED BY <1>1, <2>1, <2>2
<1>7. Listed'
  BY <1>1 DEF Listed, world, Opened, ListedTo, PublishedBy, Early
<1>8. Catalogued'
  <2>1. catalog = Nothing /\ catalog' = catalog
    BY <1>1 DEF Catalogued, registry, Registered, Up
  <2>2. phase' \notin Registered
    BY <1>1 DEF Registered, Up
  <2> QED BY <2>1, <2>2 DEF Catalogued
<1> QED BY <1>1, <1>2, <1>4, <1>5, <1>6, <1>7, <1>8, NobodyCares DEF world, registry

\* The servers that come before the next one.
LEMMA AdvanceMoves ==
  ASSUME PoolInv, NEW next, phase \in {"opening", "listing"}, Advance(next), UNCHANGED configs
  PROVE  \E n \in Nat :
           /\ at \in 1..n /\ DOMAIN configs = 1..n
           /\ configs # <<>> /\ configs[at] \in Servers
           /\ \/ at = n /\ phase' = next /\ at' = 1
              \/ at < n /\ phase' = phase /\ at' = at + 1
<1>1. configs \in Seq(Servers) /\ at \in DOMAIN configs
  BY Configured DEF PoolInv, Ordered
<1>2. Len(configs) \in Nat /\ DOMAIN configs = 1..Len(configs) /\ configs # <<>>
  BY <1>1
<1>3. at \in 1..Len(configs) /\ configs[at] \in Servers
  BY <1>1, <1>2
<1>4. \/ at = Len(configs) /\ phase' = next /\ at' = 1
      \/ at # Len(configs) /\ phase' = phase /\ at' = at + 1
  BY DEF Advance
<1>5. \A n \in Nat : at \in 1..n => at < n \/ at = n
  OBVIOUS
<1>6. at < Len(configs) \/ at = Len(configs)
  BY <1>2, <1>3, <1>5
<1> QED BY <1>2, <1>3, <1>4, <1>6

\* A server whose names nobody took gets its names as they are.
LEMMA IndexKeeps ==
  ASSUME PoolInv, IndexServer
  PROVE  PoolInv'
<1> USE DEF PoolInv
<1>1. phase = "opening" /\ Current \in open /\ index' = Indexed(Current) /\ Advance("listing")
      /\ UNCHANGED <<world, open, tools, registry, chats>> /\ phase \notin Up
  BY DEF IndexServer, Up
<1>2. PICK n \in Nat :
        /\ at \in 1..n /\ DOMAIN configs = 1..n
        /\ configs # <<>> /\ configs[at] \in Servers
        /\ \/ at = n /\ phase' = "listing" /\ at' = 1
           \/ at < n /\ phase' = "opening" /\ at' = at + 1
  BY <1>1, AdvanceMoves DEF world
<1>3. configs # <<>> /\ IsInjective(configs) /\ tools = {} /\ Current = configs[at]
  BY <1>1, <1>2 DEF Ordered, Early, Current
<1>4. /\ \A m \in DOMAIN index' : index'[m] = Current \/ (m \in DOMAIN index /\ index'[m] = index[m])
      /\ DOMAIN published[Current] \cap DOMAIN index = {} =>
           /\ DOMAIN index' = DOMAIN index \cup DOMAIN published[Current]
           /\ \A m \in DOMAIN published[Current] : index'[m] = Current
           /\ \A m \in DOMAIN index : index'[m] = index[m]
  BY <1>1 DEF Indexed
<1>5. TypeOK'
  <2>1. Range(index') \subseteq Range(configs)
    <3>1. Current \in Range(configs)
      BY <1>2, <1>3 DEF Range
    <3>2. \A m \in DOMAIN index : index[m] \in Range(configs)
      BY DEF TypeOK, Range
    <3> QED BY <1>4, <3>1, <3>2 DEF Range
  <2>2. at' \in Nat /\ phase' \in {"opening", "listing"}
    BY <1>2
  <2> QED BY <1>1, <2>1, <2>2 DEF TypeOK, world, registry, chats
<1>6. Ordered'
  BY <1>1, <1>2, <1>3 DEF Ordered, world, Early
<1>7. Routed'
  <2> SUFFICES ASSUME changes' = {}, Apart(IndexedTo)'
               PROVE  /\ DOMAIN index' = UNION {PublishedBy(i)' : i \in IndexedTo'}
                      /\ \A i \in IndexedTo' : \A m \in PublishedBy(i)' : index'[m] = configs'[i]
    BY DEF Routed
  <2>1. IndexedTo = 1..(at - 1) /\ IndexedTo' = IndexedTo \cup {at}
    BY <1>1, <1>2 DEF IndexedTo, Opened, world
  <2>2. changes = {} /\ configs' = configs /\ \A i \in 1..n : PublishedBy(i)' = PublishedBy(i)
    BY <1>1 DEF world, PublishedBy
  <2>3. \A i \in IndexedTo : PublishedBy(i) \cap PublishedBy(at) = {}
    BY <1>2, <2>1, <2>2 DEF Apart
  <2>4. Apart(IndexedTo)
    BY <1>2, <2>1, <2>2 DEF Apart
  <2>5. /\ DOMAIN index = UNION {PublishedBy(i) : i \in IndexedTo}
        /\ \A i \in IndexedTo : \A m \in PublishedBy(i) : index[m] = configs[i]
    BY <1>1, <2>2, <2>4 DEF Routed
  <2>6. PublishedBy(at) \cap DOMAIN index = {}
    BY <2>3, <2>5
  <2>7. /\ DOMAIN index' = DOMAIN index \cup PublishedBy(at)
        /\ \A m \in PublishedBy(at) : index'[m] = configs[at]
        /\ \A m \in DOMAIN index : index'[m] = index[m]
    BY <1>3, <1>4, <2>6 DEF PublishedBy
  <2>8. \A i \in IndexedTo' : PublishedBy(i)' = PublishedBy(i)
    BY <1>2, <2>1, <2>2
  <2>9. DOMAIN index' = UNION {PublishedBy(i) : i \in IndexedTo'}
    BY <2>1, <2>5, <2>7
  <2>10. ASSUME NEW i \in IndexedTo', NEW m \in PublishedBy(i) PROVE index'[m] = configs[i]
    <3>1. CASE i = at
      BY <2>7, <2>10, <3>1
    <3>2. CASE i \in IndexedTo
      BY <2>5, <2>7, <2>10, <3>2
    <3> QED BY <2>1, <3>1, <3>2
  <2> QED BY <2>2, <2>8, <2>9, <2>10
<1>8. Listed'
  <2>1. tools' = {}
    BY <1>1, <1>3
  <2>2. 1..(1 - 1) = {}
    OBVIOUS
  <2>3. ListedTo' = {}
    BY <1>2, <2>2 DEF ListedTo, Early
  <2> QED BY <1>2, <2>1, <2>3, FS_EmptySet DEF Listed
<1>9. Catalogued'
  BY <1>1, <1>2 DEF Catalogued, registry, Registered, Up
<1> QED BY <1>1, <1>5, <1>6, <1>7, <1>8, <1>9, NobodyCares DEF world, registry

\* A server is listed once, whatever it publishes by then.
LEMMA ListKeeps ==
  ASSUME PoolInv, ListServer
  PROVE  PoolInv'
<1> USE DEF PoolInv
<1> DEFINE new == {[server |-> Current, name |-> m, hitl |-> Hitl(Current, m)] :
                    m \in DOMAIN published[Current]}
<1>1. phase = "listing" /\ tools' = tools \cup new /\ Advance("listed")
      /\ UNCHANGED <<world, pool, registry, chats>> /\ phase \notin Up
  BY DEF ListServer, Up
<1>2. PICK n \in Nat :
        /\ at \in 1..n /\ DOMAIN configs = 1..n
        /\ configs # <<>> /\ configs[at] \in Servers
        /\ \/ at = n /\ phase' = "listed" /\ at' = 1
           \/ at < n /\ phase' = "listing" /\ at' = at + 1
  BY <1>1, AdvanceMoves DEF world
<1>3. configs # <<>> /\ IsInjective(configs) /\ Current = configs[at] /\ Current \in Servers
  BY <1>1, <1>2, Configured DEF Ordered, Current
<1>4. /\ \A t \in new : t.server = Current /\ t.name \in DOMAIN published[Current]
                       /\ t.hitl = Hitl(Current, t.name) /\ t.hitl \in BOOLEAN
      /\ \A m \in DOMAIN published[Current] : \E t \in new : t.server = Current /\ t.name = m
      /\ \A t, u \in new : t.name = u.name => t = u
      /\ new \subseteq [server : Servers, name : Names, hitl : BOOLEAN]
  <2>1. \A m \in DOMAIN published[Current] : m \in Names /\ Hitl(Current, m) \in BOOLEAN
    BY <1>3, Configured DEF Hitl, Names
  <2>2. \A t \in new : \E m \in DOMAIN published[Current] :
          t = [server |-> Current, name |-> m, hitl |-> Hitl(Current, m)]
    OBVIOUS
  <2>3. \A m \in DOMAIN published[Current] :
          [server |-> Current, name |-> m, hitl |-> Hitl(Current, m)] \in new
    OBVIOUS
  <2> HIDE DEF new
  <2>4. \A t \in new : /\ t.server = Current /\ t.name \in DOMAIN published[Current]
                      /\ t.hitl = Hitl(Current, t.name) /\ t.hitl \in BOOLEAN
    BY <2>1, <2>2
  <2>5. \A m \in DOMAIN published[Current] : \E t \in new : t.server = Current /\ t.name = m
    BY <2>3
  <2>6. \A t, u \in new : t.name = u.name => t = u
    BY <2>2
  <2>7. new \subseteq [server : Servers, name : Names, hitl : BOOLEAN]
    BY <1>3, <2>1, <2>2
  <2> QED BY <2>4, <2>5, <2>6, <2>7
<1>5. IsFiniteSet(new)
  <2> DEFINE f == [m \in DOMAIN published[Current] |->
                     [server |-> Current, name |-> m, hitl |-> Hitl(Current, m)]]
  <2>1. f \in Surjection(DOMAIN published[Current], new)
    BY DEF Surjection
  <2>2. IsFiniteSet(DOMAIN published[Current])
    BY <1>3, Configured
  <2> HIDE DEF f, new
  <2> QED BY <2>1, <2>2, FS_Surjection
<1> HIDE DEF new
<1>6. TypeOK'
  <2>1. at' \in Nat /\ phase' \in {"listed", "listing"}
    BY <1>2
  <2> QED BY <1>1, <1>4, <2>1 DEF TypeOK, world, pool, registry, chats
<1>7. Ordered'
  <2>1. UNCHANGED <<configs, open, index>> /\ configs # <<>> /\ IsInjective(configs)
    BY <1>1, <1>2, <1>3 DEF world, pool
  <2>2. CASE phase' = "listed"
    BY <2>1, <2>2 DEF Ordered, Early
  <2>3. CASE phase' = "listing"
    <3>1. at' \in 1..n /\ at' # 1
      BY <1>2, <2>3
    <3> QED BY <1>2, <2>1, <2>3, <3>1 DEF Ordered, Early
  <2> QED BY <1>2, <2>2, <2>3
<1>8. Routed'
  <2>1. IndexedTo = DOMAIN configs /\ IndexedTo' = DOMAIN configs
    BY <1>1, <1>2 DEF IndexedTo, Opened, world
  <2> QED BY <1>1, <1>2, <2>1 DEF Routed, world, pool, Opened, Apart, PublishedBy
<1>9. Listed'
  <2>1. ListedTo = 1..(at - 1) /\ ListedTo' = ListedTo \cup {at}
    <3>1. ListedTo = 1..(at - 1)
      BY <1>1 DEF ListedTo, Early
    <3>2. CASE phase' = "listing"
      <4>1. at' - 1 = at
        BY <1>2, <3>2
      <4> QED BY <1>2, <3>1, <3>2, <4>1 DEF ListedTo
    <3>3. CASE phase' = "listed"
      <4>1. at = n /\ ListedTo' = 1..n
        BY <1>1, <1>2, <3>3 DEF ListedTo, Early, world
      <4> QED BY <1>2, <3>1, <4>1
    <3> QED BY <1>2, <3>2, <3>3
  <2>2. IsFiniteSet(tools')
    BY <1>1, <1>5, FS_Union DEF Listed
  <2>3. \A t \in tools : t.server # Current
    BY <1>2, <1>3, <2>1 DEF Listed, IsInjective
  <2>4. \A t \in tools' : \E i \in ListedTo' : t.server = configs'[i]
    <3>1. \A t \in tools : \E i \in ListedTo : t.server = configs[i]
      BY DEF Listed
    <3>2. \A t \in new : t.server = configs[at]
      BY <1>3, <1>4
    <3>3. configs' = configs
      BY <1>1 DEF world
    <3> QED BY <1>1, <2>1, <3>1, <3>2, <3>3
  <2>5. \A t, u \in tools' : t.server = u.server /\ t.name = u.name => t = u
    BY <1>1, <1>4, <2>3 DEF Listed
  <2>6. ASSUME changes' = {}
        PROVE  /\ \A t \in tools' : t.name \in DOMAIN published'[t.server]
               /\ \A i \in ListedTo' : \A m \in PublishedBy(i)' :
                    \E t \in tools' : t.server = configs'[i] /\ t.name = m
    <3>1. changes = {} /\ UNCHANGED <<configs, published>> /\ phase \in Opened
      BY <1>1, <2>6 DEF world, Opened
    <3>2. \A t \in tools' : t.name \in DOMAIN published[t.server]
      BY <1>1, <1>4, <3>1 DEF Listed
    <3>3. \A i \in ListedTo : \A m \in PublishedBy(i) :
            \E t \in tools' : t.server = configs[i] /\ t.name = m
      BY <1>1, <3>1 DEF Listed
    <3>4. \A m \in PublishedBy(at) : \E t \in tools' : t.server = configs[at] /\ t.name = m
      BY <1>1, <1>3, <1>4 DEF PublishedBy
    <3> QED BY <2>1, <3>1, <3>2, <3>3, <3>4 DEF PublishedBy
  <2> QED BY <2>2, <2>4, <2>5, <2>6 DEF Listed
<1>10. Catalogued'
  BY <1>1, <1>2 DEF Catalogued, registry, Registered, Up
<1> QED BY <1>1, <1>6, <1>7, <1>8, <1>9, <1>10, NobodyCares DEF world, registry

\* What the host cannot use it refuses, and it closes the pool, unless the
\* startup was cancelled.
LEMMA FailKeeps ==
  ASSUME PoolInv, phase \in {"listing", "listed", "unwinding"},
         ListFails \/ ListCancelled \/ RefuseDuplicates \/ Closing
  PROVE  PoolInv'
<1> USE DEF PoolInv
<1>1. /\ phase' \in {"unwinding", "failed to list", "failed"}
      /\ open' \subseteq open /\ index' \in {Nothing, index}
      /\ phase' = "failed" => open' = {}
      /\ UNCHANGED <<world, at, tools, registry, chats>>
  BY DEF ListFails, ListCancelled, RefuseDuplicates, CloseAndFail, Closing, EndSession,
     Stop, pool
<1>2. configs # <<>> /\ phase \notin Up
  BY DEF Ordered, Registered, Up
<1>3. TypeOK'
  <2>1. Range(Nothing) = {}
    BY DEF Nothing, Range
  <2>2. open' \subseteq Range(configs) /\ Range(index') \subseteq Range(configs)
    BY <1>1, <2>1 DEF TypeOK
  <2> QED BY <1>1, <2>2 DEF TypeOK, world, registry, chats, Failures
<1>4. Ordered'
  BY <1>1, <1>2 DEF Ordered, Early, world
<1>5. Routed'
  BY <1>1 DEF Routed, Opened
<1>6. Listed'
  <2>1. \A t \in tools : \E i \in DOMAIN configs : t.server = configs[i]
    <3>1. ListedTo \subseteq DOMAIN configs
      <4>1. CASE phase = "listing"
        <5>1. PICK n \in Nat : DOMAIN configs = 1..n
          BY Configured
        <5>2. at \in 1..n /\ ListedTo = 1..(at - 1)
          BY <4>1, <5>1 DEF ListedTo, Early, Ordered
        <5> QED BY <5>1, <5>2
      <4>2. CASE phase \in {"listed", "unwinding"}
        BY <4>2 DEF ListedTo, Early
      <4> QED BY <4>1, <4>2
    <3> QED BY <3>1 DEF Listed
  <2>2. ListedTo' = DOMAIN configs
    BY <1>1 DEF ListedTo, Early, world
  <2> QED BY <1>1, <2>1, <2>2 DEF Listed, Opened, world
<1>7. Catalogued'
  BY <1>1, <1>2 DEF Catalogued, registry, Registered, Up
<1> QED BY <1>1, <1>2, <1>3, <1>4, <1>5, <1>6, <1>7, NobodyCares DEF world, registry

\* A registry takes as many names as there are tools: no two share one.
LEMMA NoNameTwice ==
  ASSUME IsFiniteSet(tools), Distinct # {} \/ tools = {}
  PROVE  /\ {t.name : t \in tools} \cap Workflows = {}
         /\ Distinct = {t.name : t \in tools}
         /\ \A t, u \in tools : t.name = u.name => t = u
<1> DEFINE names == {t.name : t \in tools}
           f == [t \in tools |-> t.name]
<1>1. CASE tools = {}
  <2>1. names = {}
    BY <1>1
  <2> QED BY <1>1, <2>1 DEF Distinct
<1>2. CASE tools # {}
  <2>1. Cardinality(names) = Cardinality(tools) /\ names \cap Workflows = {} /\ Distinct = names
    BY <1>2 DEF Distinct
  <2>2. f \in Surjection(tools, names)
    BY DEF Surjection
  <2>3. DOMAIN f = tools /\ \A t \in tools : f[t] = t.name
    OBVIOUS
  <2> HIDE DEF f
  <2>4. f \in Injection(tools, names)
    BY <2>1, <2>2, FS_Surjection
  <2>5. \A t, u \in tools : f[t] = f[u] => t = u
    BY <2>4 DEF Injection, IsInjective
  <2> QED BY <2>1, <2>3, <2>5
<1> QED BY <1>1, <1>2

\* The catalog that is built describes each tool as it was listed.
LEMMA BuildKeeps ==
  ASSUME PoolInv, BuildRegistry
  PROVE  PoolInv'
<1> USE DEF PoolInv
<1>1. phase = "listed" /\ phase' = "built" /\ UNCHANGED <<world, at, pool, tools, loaded, chats>>
      /\ phase \notin Up
  BY DEF BuildRegistry, Up
<1>2. /\ {t.name : t \in tools} \cap Workflows = {}
      /\ Distinct = {t.name : t \in tools}
      /\ \A t, u \in tools : t.name = u.name => t = u
  BY NoNameTwice DEF BuildRegistry, Listed
<1>3. DOMAIN catalog' = {t.name : t \in tools} \cup Workflows
  BY <1>2 DEF BuildRegistry
<1>4. \A n \in Workflows : catalog'[n] = Descriptor("workflow", FALSE)
  BY DEF BuildRegistry, WorkflowDescriptors
<1>5. ASSUME NEW t \in tools PROVE catalog'[t.name] = Descriptor(t.server, t.hitl)
  <2>1. t.name \in Distinct /\ t.name \notin Workflows
    BY <1>2
  <2>2. t = CHOOSE u \in tools : u.name = t.name
    BY <1>2
  <2> QED BY <2>1, <2>2 DEF BuildRegistry
<1>0. \A s \in Servers \cup {"workflow"}, b \in BOOLEAN :
        Descriptor(s, b) \in [server : Servers \cup {"workflow"}, hitl : BOOLEAN]
  BY DEF Descriptor
<1>6. loaded = {} /\ catalog = Nothing
  BY <1>1 DEF Catalogued, Registered, Up, TypeOK, Nothing
<1>7. TypeOK'
  <2>1. ASSUME NEW n \in DOMAIN catalog'
        PROVE  catalog'[n] \in [server : Servers \cup {"workflow"}, hitl : BOOLEAN]
    <3>1. CASE n \in Workflows
      <4>1. Descriptor("workflow", FALSE) \in [server : Servers \cup {"workflow"}, hitl : BOOLEAN]
        BY DEF Descriptor
      <4> QED BY <1>4, <3>1, <4>1
    <3>2. CASE n \notin Workflows
      <4>1. PICK t \in tools : t.name = n
        BY <1>3, <3>2
      <4>2. t.server \in Servers /\ t.hitl \in BOOLEAN
        BY Configured
      <4> QED BY <1>0, <1>5, <4>1, <4>2
    <3> QED BY <3>1, <3>2
  <2>2. Range(catalog') \subseteq [server : Servers \cup {"workflow"}, hitl : BOOLEAN]
    BY <2>1 DEF Range
  <2>3. loaded' \subseteq DOMAIN catalog'
    BY <1>1, <1>6
  <2> QED BY <1>1, <2>2, <2>3 DEF TypeOK, world, pool, chats
<1>8. Ordered'
  BY <1>1 DEF Ordered, world, pool, Early, Registered, Up
<1>9. Routed'
  <2>1. IndexedTo = DOMAIN configs /\ IndexedTo' = DOMAIN configs
    BY <1>1 DEF IndexedTo, Opened, world
  <2> QED BY <1>1, <2>1 DEF Routed, world, pool, Opened, Apart, PublishedBy
<1>10. Listed'
  <2>1. ListedTo = DOMAIN configs /\ ListedTo' = DOMAIN configs
    BY <1>1 DEF ListedTo, Early, world
  <2> QED BY <1>1, <2>1 DEF Listed, world, Opened, PublishedBy
<1>11. Catalogued'
  BY <1>1, <1>2, <1>3, <1>5 DEF Catalogued, Registered, Up
<1>12. \A c \in Chats : found'[c] \subseteq DOMAIN catalog'
  BY <1>1, <1>6 DEF Asked, chats, Nothing
<1> QED BY <1>1, <1>7, <1>8, <1>9, <1>10, <1>11, <1>12, NobodyChats DEF world

LEMMA FinishKeeps ==
  ASSUME PoolInv, FinishStart
  PROVE  PoolInv'
<1> USE DEF PoolInv
<1>1. phase = "built" /\ phase' \in {"serving", "failed to finish"}
      /\ UNCHANGED <<world, at, pool, tools, registry, chats>> /\ phase \notin Up
  BY DEF FinishStart, Up
<1>2. TypeOK'
  BY <1>1 DEF TypeOK, world, pool, registry, chats, Failures
<1>3. Ordered'
  BY <1>1 DEF Ordered, world, pool, Early, Registered, Up
<1>4. Routed'
  <2>1. CASE phase' = "serving"
    <3>1. IndexedTo = DOMAIN configs /\ IndexedTo' = DOMAIN configs
      BY <1>1, <2>1 DEF IndexedTo, Opened, world
    <3> QED BY <1>1, <2>1, <3>1 DEF Routed, world, pool, Opened, Apart, PublishedBy
  <2>2. CASE phase' = "failed to finish"
    BY <2>2 DEF Routed, Opened
  <2> QED BY <1>1, <2>1, <2>2
<1>5. Listed'
  <2>1. ListedTo = DOMAIN configs /\ ListedTo' = DOMAIN configs
    BY <1>1 DEF ListedTo, Early, world
  <2>2. UNCHANGED <<configs, published, changes, tools>> /\ phase \in Opened
    BY <1>1 DEF world, Opened
  <2> QED BY <2>1, <2>2 DEF Listed, PublishedBy
<1>6. Catalogued'
  BY <1>1 DEF Catalogued, registry, Registered, Up
<1> QED BY <1>1, <1>2, <1>3, <1>4, <1>5, <1>6, NobodyCares DEF world, registry

-----------------------------------------------------------------------------
LEMMA NextInv == PoolInv /\ [Next]_vars => PoolInv'
<1> SUFFICES ASSUME PoolInv, [Next]_vars PROVE PoolInv'
  OBVIOUS
<1>1. CASE Start
  BY <1>1, StartKeeps
<1>2. CASE OpenTransport \/ OpenFails
  BY <1>2, OpenKeeps
<1>3. CASE IndexServer
  BY <1>3, IndexKeeps
<1>4. CASE ListServer
  BY <1>4, ListKeeps
<1>5. CASE ListFails \/ ListCancelled \/ RefuseDuplicates
  <2>1. phase \in {"listing", "listed"}
    BY <1>5 DEF ListFails, ListCancelled, RefuseDuplicates
  <2> QED BY <1>5, <2>1, FailKeeps
<1>6. CASE BuildRegistry
  BY <1>6, BuildKeeps
<1>7. CASE FinishStart
  BY <1>7, FinishKeeps
<1>8. CASE Shutdown \/ Closing
  <2>1. phase \in {"serving", "closing", "unwinding"}
    BY <1>8 DEF Shutdown, Closing, EndSession, Stop
  <2>2. CASE phase \in {"serving", "closing"}
    BY <1>8, <2>2, StopSteps
  <2>3. CASE phase = "unwinding"
    <3>1. Closing
      BY <1>8, <2>3 DEF Shutdown
    <3> QED BY <2>3, <3>1, FailKeeps
  <2> QED BY <2>1, <2>2, <2>3
<1>9. ASSUME NEW s \in Servers, Republish(s) PROVE PoolInv'
  BY <1>9, RepublishKeeps
<1>10. ASSUME NEW c \in Chats,
              \/ Search(c) \/ Load(c)
              \/ \E n \in Names : Call(c, n)
              \/ Decline(c) \/ Confirm(c) \/ Reply(c)
       PROVE  PoolInv'
  BY <1>10, ChatSteps
<1>11. CASE UNCHANGED vars
  <2>1. UNCHANGED Host /\ UNCHANGED <<registry, chats>>
    BY <1>11 DEF vars, Host, world, pool, registry
  <2>2. TypeOK'
    BY <2>1 DEF PoolInv, TypeOK, Host, registry, chats
  <2>3. \A c \in Chats : Asked(c)'
    BY <2>1 DEF PoolInv, Asked, Host, registry, chats
  <2>4. \A r \in ran' : Sent(r)'
    BY <2>1 DEF PoolInv, Sent, Host, registry, chats
  <2> QED BY <2>1, <2>2, <2>3, <2>4, HostUntouched DEF PoolInv
<1> QED BY <1>1, <1>2, <1>3, <1>4, <1>5, <1>6, <1>7, <1>8, <1>9, <1>10, <1>11 DEF Next, Startup

THEOREM Invariance == Spec => []PoolInv
<1>1. Init => PoolInv
  BY InitInv
<1>2. PoolInv /\ [Next]_vars => PoolInv'
  BY NextInv
<1> QED BY <1>1, <1>2, PTL DEF Spec

\* Every variable keeps its type.
THEOREM TypeCorrect == Spec => []TypeOK
<1>1. PoolInv => TypeOK
  BY DEF PoolInv
<1> QED BY <1>1, Invariance, PTL

\* A tool whose server asked for a confirmation runs with one, however the
\* servers changed what they publish: a tool is run under the name by which one
\* listing described it, and the catalog kept what that listing asked for.
THEOREM GatedRunsOnConsentHolds == Spec => []GatedRunsOnConsent
<1>1. PoolInv => GatedRunsOnConsent
  <2> SUFFICES ASSUME PoolInv, NEW r \in ran, r.name = called[r.chat],
                      [server |-> r.server, name |-> r.name, hitl |-> TRUE] \in tools
               PROVE  r.chat \in consent
    BY DEF GatedRunsOnConsent
  <2> DEFINE t == [server |-> r.server, name |-> r.name, hitl |-> TRUE]
  <2>1. t \in tools /\ t.name = called[r.chat] /\ t.hitl = TRUE
    OBVIOUS
  <2> HIDE DEF t
  <2>2. catalog[t.name] = Descriptor(t.server, t.hitl)
    <3>1. phase \in Registered
      BY DEF PoolInv, TypeOK, Sent, Asked, Registered
    <3> QED BY <2>1, <3>1 DEF PoolInv, Catalogued
  <2>3. catalog[called[r.chat]].hitl
    BY <2>1, <2>2 DEF Descriptor
  <2> QED BY <2>3 DEF PoolInv, Sent
<1> QED BY <1>1, Invariance, PTL

\* While no server changes its tools, what a search shows or a request declares
\* can be called: the index that routes and the catalog that describes agree,
\* though they are filled by two listings and qualify names differently.
THEOREM WhatIsShownCanBeCalledHolds == Spec => []WhatIsShownCanBeCalled
<1>1. PoolInv => WhatIsShownCanBeCalled
  <2> SUFFICES ASSUME PoolInv PROVE WhatIsShownCanBeCalled
    OBVIOUS
  <2>1. phase = "serving" /\ changes = {} =>
          \A n \in DOMAIN catalog \ Workflows : n \in DOMAIN index /\ index[n] = catalog[n].server
    BY RoutedAsDescribed
  <2>2. ASSUME NEW c \in Chats, called[c] \in Offered \cup found[c]
        PROVE  /\ answer[c] # "not available"
               /\ answer[c] = "KeyError" => changes # {} \/ phase = "stopped"
               /\ answer[c] = "[upstream error]" => changes # {} \/ Head(called[c]) \in Servers
    <3>1. called[c] \in DOMAIN catalog \cup MetaTools \cup {RenderVisual}
      BY <2>2 DEF PoolInv, TypeOK, Asked, Offered
    <3> QED BY <3>1 DEF PoolInv, Asked
  <2> QED BY <2>1, <2>2 DEF WhatIsShownCanBeCalled
<1> QED BY <1>1, Invariance, PTL
=============================================================================
