--------------------- MODULE OutlookResultCacheProofs ---------------------
EXTENDS OutlookResultCache, FiniteSetTheorems, TLAPS

(* Every step keeps the order of the entries, and so the types. *)
LEMMA TypeStep ==
  ASSUME IInv, [Next]_vars
  PROVE  TypeOK'
<1> USE KeysAssumption, BoundsAssumption, NoneAssumption 
       DEF IInv, OwnerInv, PurgeInv, Flights, cache, table, events, thread, Goto
<1>1. ASSUME NEW t \in Threads, NEW k \in Keys, Hit(t, k) PROVE TypeOK'
  <2>1. OrderOK'
      BY <1>1 DEF Hit, TypeOK, OrderOK, Touched
  <2> QED BY <1>1, <2>1 DEF Hit, TypeOK, Asked
<1>2. ASSUME NEW t \in Threads, NEW k \in Keys, Join(t, k) PROVE TypeOK'
  <2>1. OrderOK'
      BY <1>2 DEF Join, Ask, Keep, Ordered, TypeOK, OrderOK
  <2> QED BY <1>2, <2>1 DEF Join, Ask, Keep, Ordered, TypeOK, Asked
<1>3. ASSUME NEW t \in Threads, NEW k \in Keys, Lead(t, k) PROVE TypeOK'
  <2>1. OrderOK'
      BY <1>3 DEF Lead, Ask, Keep, Ordered, Vacant, TypeOK, OrderOK
  <2> QED BY <1>3, <2>1 DEF Lead, Ask, Keep, Ordered, Vacant, TypeOK, Asked
<1>4. ASSUME NEW t \in Threads, Compute(t) PROVE TypeOK'
  <2>1. OrderOK'
      BY <1>4 DEF Compute, TypeOK, OrderOK
  <2> QED BY <1>4, <2>1 DEF Compute, TypeOK, Asked
<1>5. ASSUME NEW t \in Threads, Raise(t) PROVE TypeOK'
  <2>1. OrderOK'
      BY <1>5 DEF Raise, Fails, TypeOK, OrderOK
  <2> QED BY <1>5, <2>1 DEF Raise, Fails, TypeOK, Asked
<1>6. ASSUME NEW t \in Threads, Store(t) PROVE TypeOK'
  <2>1. OrderOK'
    <3>1. CASE flight[t] \notin cacheable
          BY <1>6, <3>1 DEF Store, TypeOK, OrderOK
    <3>2. CASE flight[t] \in cacheable
      <4> DEFINE E == entries \cup {key[t]}
                 R == Touched(E, key[t])
      <4>1. key[t] \in Keys
          BY <1>6 DEF Store, Asked
      <4>2. /\ entries' = Capped(E, R)
            /\ newer' = {p \in R : p[1] \in entries' /\ p[2] \in entries'}
            /\ expired' = (expired \ {key[t]}) \cap entries'
          BY <1>6, <3>2 DEF Store
      <4>3. entries' \subseteq E
          BY <4>2 DEF Capped
      <4>4. \A p \in R : p \in newer \/ (p[1] \in E /\ p[2] = key[t] /\ p[1] # key[t])
          BY DEF Touched
      <4>5. newer' \subseteq entries' \X entries'
          BY <4>2, <4>3, <4>4 DEF Touched, TypeOK, OrderOK
      <4>6. \A j, k \in E : (j # k) <=> (<<j, k>> \in R \/ <<k, j>> \in R)
          BY <4>1 DEF Touched, TypeOK, OrderOK
      <4>7. \A j, k \in E : ~ (<<j, k>> \in R /\ <<k, j>> \in R)
          BY <4>1 DEF Touched, TypeOK, OrderOK
      <4>8. \A j, k \in entries' : <<j, k>> \in newer' <=> <<j, k>> \in R
          BY <4>2
      <4>9. \A j, k \in entries' : /\ (j # k) <=> (<<j, k>> \in newer' \/ <<k, j>> \in newer')
                                   /\ ~ (<<j, k>> \in newer' /\ <<k, j>> \in newer')
          <5> HIDE DEF E, R
          <5> QED BY <4>3, <4>6, <4>7, <4>8
      <4>10. entries' \subseteq Keys /\ expired' \subseteq entries'
          BY <4>1, <4>2, <4>3 DEF TypeOK, OrderOK
      <4> HIDE DEF E, R
      <4> QED BY <4>5, <4>9, <4>10 DEF OrderOK
    <3> QED BY <3>1, <3>2
  <2> QED BY <1>6, <2>1 DEF Store, Capped, TypeOK, Asked
<1>7. ASSUME NEW t \in Threads, Pop(t) PROVE TypeOK'
  <2>1. OrderOK'
      BY <1>7 DEF Pop, TypeOK, OrderOK
  <2> QED BY <1>7, <2>1 DEF Pop, TypeOK, Asked
<1>8. ASSUME NEW t \in Threads, Set(t) PROVE TypeOK'
  <2>1. OrderOK'
      BY <1>8 DEF Set, Leave, Signals, TypeOK, OrderOK
  <2>2. TypeOK'
    <3>1. flight[t] \in 1 .. MaxFlights
          BY <1>8 DEF Set, Asked, TypeOK
    <3> QED BY <1>8, <2>1, <3>1 DEF Set, Leave, Signals, TypeOK
  <2> QED BY <2>1, <2>2 DEF TypeOK
<1>9. ASSUME NEW t \in Threads, Wake(t) PROVE TypeOK'
  <2>1. OrderOK'
      BY <1>9 DEF Wake, Leave, TypeOK, OrderOK
  <2> QED BY <1>9, <2>1 DEF Wake, Leave, TypeOK, Asked
<1>10. ASSUME NEW k \in Keys, Expire(k) PROVE TypeOK'
  <2>1. OrderOK'
      BY <1>10 DEF Expire, TypeOK, OrderOK
  <2> QED BY <1>10, <2>1 DEF Expire, TypeOK, Asked
<1>11. ASSUME NEW ids \in SUBSET (Users \cup {Shared}), Purge(ids) PROVE TypeOK'
  <2>1. OrderOK'
      BY <1>11 DEF Purge, Keep, Ordered, Bars, Running, Of, TypeOK, OrderOK
  <2> QED BY <1>11, <2>1 DEF Purge, Keep, Ordered, Bars, Running, Of, TypeOK, Asked
<1>12. ASSUME Clear PROVE TypeOK'
  <2>1. OrderOK'
      BY <1>12 DEF Clear, Keep, Ordered, TypeOK, OrderOK
  <2> QED BY <1>12, <2>1 DEF Clear, Keep, Ordered, TypeOK, Asked
<1>13. CASE UNCHANGED vars
    BY <1>13 DEF vars, TypeOK, OrderOK, Asked
<1> QED BY <1>1, <1>2, <1>3, <1>4, <1>5, <1>6, <1>7, <1>8, <1>9, <1>10, <1>11, <1>12,
       <1>13 DEF Next, Work

(* Every step keeps one owner per flight, in the table under its key. *)
LEMMA OwnerStep ==
  ASSUME IInv, [Next]_vars
  PROVE  OwnerInv'
<1> USE KeysAssumption, BoundsAssumption, NoneAssumption 
       DEF IInv, OwnerInv, PurgeInv, Flights, cache, table, events, thread, Goto
<1>1. ASSUME NEW t \in Threads, NEW k \in Keys, Hit(t, k) PROVE OwnerInv'
  <2>1. OneOwner'
      BY <1>1 DEF Hit, TypeOK, OneOwner, Owns, Leads, Asked
  <2>2. \A x \in Threads : Asked(x)' /\ Tabled(x)'
      BY <1>1 DEF Hit, TypeOK, Asked, Tabled, Leads, OneOwner, Owns
  <2> QED BY <2>1, <2>2 DEF OwnerInv
<1>2. ASSUME NEW t \in Threads, NEW k \in Keys, Join(t, k) PROVE OwnerInv'
  <2>1. OneOwner'
      BY <1>2 DEF Join, Ask, Keep, Ordered, TypeOK, OneOwner, Owns, Leads, Asked
  <2>2. \A x \in Threads : Asked(x)' /\ Tabled(x)'
    <3>1. PICK u \in Threads : Leads(u) /\ flight[u] = inflight[k]
          BY <1>2 DEF Join, LeaderPresent
    <3>2. inflight[k] \in 1 .. flights
          BY <3>1 DEF Asked, Leads
    <3> QED BY <1>2, <3>2 DEF Join, Ask, Keep, TypeOK, Asked, Tabled, Leads
  <2> QED BY <2>1, <2>2 DEF OwnerInv
<1>3. ASSUME NEW t \in Threads, NEW k \in Keys, Lead(t, k) PROVE OwnerInv'
  <2>1. OneOwner'
      BY <1>3 DEF Lead, Ask, Keep, Ordered, Vacant, TypeOK, OneOwner, Owns, Leads, Asked
  <2>2. \A x \in Threads : Asked(x)' /\ Tabled(x)'
      BY <1>3 DEF Lead, Ask, Keep, Ordered, Vacant, TypeOK, Asked, Tabled, Leads, OneOwner, Owns
  <2> QED BY <2>1, <2>2 DEF OwnerInv
<1>4. ASSUME NEW t \in Threads, Compute(t) PROVE OwnerInv'
  <2>1. OneOwner'
      BY <1>4 DEF Compute, TypeOK, OneOwner, Owns, Leads, Asked
  <2>2. \A x \in Threads : Asked(x)' /\ Tabled(x)'
      BY <1>4 DEF Compute, TypeOK, Asked, Tabled, Leads, OneOwner, Owns
  <2> QED BY <2>1, <2>2 DEF OwnerInv
<1>5. ASSUME NEW t \in Threads, Raise(t) PROVE OwnerInv'
  <2>1. OneOwner'
      BY <1>5 DEF Raise, Fails, TypeOK, OneOwner, Owns, Leads, Asked
  <2>2. \A x \in Threads : Asked(x)' /\ Tabled(x)'
      BY <1>5 DEF Raise, Fails, TypeOK, Asked, Tabled, Leads, OneOwner, Owns
  <2> QED BY <2>1, <2>2 DEF OwnerInv
<1>6. ASSUME NEW t \in Threads, Store(t) PROVE OwnerInv'
  <2>1. OneOwner'
      BY <1>6 DEF Store, Capped, TypeOK, OneOwner, Owns, Leads, Asked
  <2>2. \A x \in Threads : Asked(x)' /\ Tabled(x)'
      BY <1>6 DEF Store, Capped, TypeOK, Asked, Tabled, Leads, OneOwner, Owns
  <2> QED BY <2>1, <2>2 DEF OwnerInv
<1>7. ASSUME NEW t \in Threads, Pop(t) PROVE OwnerInv'
  <2>1. OneOwner'
      BY <1>7 DEF Pop, TypeOK, OneOwner, Owns, Leads, Asked
  <2>2. \A x \in Threads : Asked(x)' /\ Tabled(x)'
      BY <1>7 DEF Pop, TypeOK, Asked, Tabled, Leads, OneOwner, Owns
  <2> QED BY <2>1, <2>2 DEF OwnerInv
<1>8. ASSUME NEW t \in Threads, Set(t) PROVE OwnerInv'
  <2>1. OneOwner'
      BY <1>8 DEF Set, Leave, Signals, TypeOK, OneOwner, Owns, Leads, Asked
  <2>2. \A x \in Threads : Asked(x)' /\ Tabled(x)'
      BY <1>8 DEF Set, Leave, Signals, TypeOK, Asked, Tabled, Leads, OneOwner, Owns
  <2> QED BY <2>1, <2>2 DEF OwnerInv
<1>9. ASSUME NEW t \in Threads, Wake(t) PROVE OwnerInv'
  <2>1. OneOwner'
      BY <1>9 DEF Wake, Leave, TypeOK, OneOwner, Owns, Leads, Asked
  <2>2. \A x \in Threads : Asked(x)' /\ Tabled(x)'
      BY <1>9 DEF Wake, Leave, TypeOK, Asked, Tabled, Leads, OneOwner, Owns
  <2> QED BY <2>1, <2>2 DEF OwnerInv
<1>10. ASSUME NEW k \in Keys, Expire(k) PROVE OwnerInv'
  <2>1. OneOwner'
      BY <1>10 DEF Expire, TypeOK, OneOwner, Owns, Leads, Asked
  <2>2. \A x \in Threads : Asked(x)' /\ Tabled(x)'
      BY <1>10 DEF Expire, TypeOK, Asked, Tabled, Leads, OneOwner, Owns
  <2> QED BY <2>1, <2>2 DEF OwnerInv
<1>11. ASSUME NEW ids \in SUBSET (Users \cup {Shared}), Purge(ids) PROVE OwnerInv'
  <2>1. OneOwner'
      BY <1>11 DEF Purge, Keep, Ordered, Bars, Running, Of, TypeOK, OneOwner, Owns, Leads, Asked
  <2>2. \A x \in Threads : Asked(x)' /\ Tabled(x)'
      BY <1>11 DEF Purge, Keep, Ordered, Bars, Running, Of, TypeOK, Asked, Tabled, Leads,
             OneOwner, Owns
  <2> QED BY <2>1, <2>2 DEF OwnerInv
<1>12. ASSUME Clear PROVE OwnerInv'
  <2>1. OneOwner'
      BY <1>12 DEF Clear, Keep, Ordered, TypeOK, OneOwner, Owns, Leads, Asked
  <2>2. \A x \in Threads : Asked(x)' /\ Tabled(x)'
      BY <1>12 DEF Clear, Keep, Ordered, TypeOK, Asked, Tabled, Leads, OneOwner, Owns
  <2> QED BY <2>1, <2>2 DEF OwnerInv
<1>13. CASE UNCHANGED vars
    BY <1>13 DEF vars, TypeOK, OneOwner, Owns, Leads, Asked, Tabled
<1> QED BY <1>1, <1>2, <1>3, <1>4, <1>5, <1>6, <1>7, <1>8, <1>9, <1>10, <1>11, <1>12,
       <1>13 DEF Next, Work

(* Every step leaves an owner for whom somebody waits, and a leader for what is tabled. *)
LEMMA PresentStep ==
  ASSUME IInv, [Next]_vars
  PROVE  LeaderPresent'
<1> USE KeysAssumption, BoundsAssumption, NoneAssumption 
       DEF IInv, OwnerInv, PurgeInv, Flights, cache, table, events, thread, Goto
<1>1. ASSUME NEW t \in Threads, NEW k \in Keys, Hit(t, k) PROVE LeaderPresent'
    BY <1>1 DEF Hit, TypeOK, LeaderPresent, Asked, Tabled, Leads, OneOwner, Owns, Waiting
<1>2. ASSUME NEW t \in Threads, NEW k \in Keys, Join(t, k) PROVE LeaderPresent'
  <2>1. \A u \in Threads : Owns(u) => Owns(u)' /\ flight'[u] = flight[u] /\ key'[u] = key[u]
        BY <1>2 DEF Join, Ask, Owns, Leads, TypeOK
  <2>2. \A u \in Threads : Leads(u) => Leads(u)'
        BY <1>2 DEF Join, Ask, Leads, TypeOK
  <2>3. PICK u \in Threads : Leads(u) /\ flight[u] = inflight[k]
        BY <1>2 DEF Join, LeaderPresent
  <2>4. \A x \in Threads : Waiting(x)' /\ x # t => Waiting(x) /\ flight'[x] = flight[x]
        BY <1>2 DEF Join, Waiting, TypeOK
  <2>5. flight'[t] = flight[u] /\ finished' = finished /\ inflight' = inflight
        BY <1>2, <2>3 DEF Join, TypeOK
  <2>6. \A x \in Threads : Waiting(x)' /\ flight'[x] \notin finished' =>
           \E y \in Threads : Owns(y)' /\ flight'[y] = flight'[x]
        BY <2>1, <2>3, <2>4, <2>5 DEF LeaderPresent, Owns
  <2>7. \A q \in Keys : inflight'[q] # None =>
           \E y \in Threads : Leads(y)' /\ key'[y] = q /\ flight'[y] = inflight'[q]
        BY <2>1, <2>2, <2>5 DEF LeaderPresent, Owns
  <2> QED BY <2>6, <2>7 DEF LeaderPresent
<1>3. ASSUME NEW t \in Threads, NEW k \in Keys, Lead(t, k) PROVE LeaderPresent'
  <2>1. \A u \in Threads : Owns(u) => Owns(u)' /\ flight'[u] = flight[u] /\ key'[u] = key[u]
        BY <1>3 DEF Lead, Ask, Owns, Leads, TypeOK
  <2>2. \A u \in Threads : Leads(u) => Leads(u)'
        BY <1>3 DEF Lead, Ask, Leads, TypeOK
  <2>3. \A x \in Threads : Waiting(x)' => Waiting(x) /\ flight'[x] = flight[x]
        BY <1>3 DEF Lead, Waiting, TypeOK
  <2>4. Leads(t)' /\ key'[t] = k /\ flight'[t] = flights + 1 /\ inflight'[k] = flights + 1
        BY <1>3 DEF Lead, Leads, TypeOK
  <2>5. finished' = finished /\ \A q \in Keys \ {k} : inflight'[q] = inflight[q]
        BY <1>3 DEF Lead, TypeOK
  <2>6. \A x \in Threads : Waiting(x)' /\ flight'[x] \notin finished' =>
           \E y \in Threads : Owns(y)' /\ flight'[y] = flight'[x]
        BY <2>1, <2>3, <2>5 DEF LeaderPresent
  <2>7. \A q \in Keys : inflight'[q] # None =>
           \E y \in Threads : Leads(y)' /\ key'[y] = q /\ flight'[y] = inflight'[q]
        BY <2>1, <2>2, <2>4, <2>5 DEF LeaderPresent, Owns
  <2> QED BY <2>6, <2>7 DEF LeaderPresent
<1>4. ASSUME NEW t \in Threads, Compute(t) PROVE LeaderPresent'
    BY <1>4 DEF Compute, TypeOK, LeaderPresent, Asked, Tabled, Leads, OneOwner, Owns, Waiting
<1>5. ASSUME NEW t \in Threads, Raise(t) PROVE LeaderPresent'
    BY <1>5 DEF Raise, Fails, TypeOK, LeaderPresent, Asked, Tabled, Leads, OneOwner, Owns,
           Waiting
<1>6. ASSUME NEW t \in Threads, Store(t) PROVE LeaderPresent'
    BY <1>6 DEF Store, Capped, TypeOK, LeaderPresent, Asked, Tabled, Leads, OneOwner, Owns,
           Waiting
<1>7. ASSUME NEW t \in Threads, Pop(t) PROVE LeaderPresent'
    BY <1>7 DEF Pop, TypeOK, LeaderPresent, Asked, Tabled, Leads, OneOwner, Owns, Waiting
<1>8. ASSUME NEW t \in Threads, Set(t) PROVE LeaderPresent'
  <2>1. \A u \in Threads \ {t} : /\ Owns(u)' <=> Owns(u)
                                 /\ Leads(u)' <=> Leads(u)
                                 /\ Waiting(u)' <=> Waiting(u)
                                 /\ flight'[u] = flight[u] /\ key'[u] = key[u]
        BY <1>8 DEF Set, Leave, Owns, Leads, Waiting, TypeOK
  <2>2. ~ Waiting(t)' /\ ~ Leads(t) /\ inflight' = inflight /\ finished' = finished \cup {flight[t]}
        BY <1>8 DEF Set, Leave, Signals, Leads, Waiting, TypeOK
  <2>3. \A x \in Threads : Waiting(x)' /\ flight'[x] \notin finished' =>
           \E y \in Threads : Owns(y)' /\ flight'[y] = flight'[x]
    <3> SUFFICES ASSUME NEW x \in Threads, Waiting(x)', flight'[x] \notin finished'
                 PROVE  \E y \in Threads : Owns(y)' /\ flight'[y] = flight'[x]
        OBVIOUS
    <3>1. x # t /\ Waiting(x) /\ flight[x] \notin finished /\ flight[x] # flight[t]
          /\ flight'[x] = flight[x]
        BY <2>1, <2>2
    <3>2. PICK y \in Threads : Owns(y) /\ flight[y] = flight[x]
        BY <3>1 DEF LeaderPresent
    <3> QED BY <2>1, <3>1, <3>2
  <2>4. \A q \in Keys : inflight'[q] # None =>
           \E y \in Threads : Leads(y)' /\ key'[y] = q /\ flight'[y] = inflight'[q]
        BY <2>1, <2>2 DEF LeaderPresent
  <2> QED BY <2>3, <2>4 DEF LeaderPresent
<1>9. ASSUME NEW t \in Threads, Wake(t) PROVE LeaderPresent'
  <2>1. \A u \in Threads \ {t} : /\ Owns(u)' <=> Owns(u)
                                 /\ Leads(u)' <=> Leads(u)
                                 /\ Waiting(u)' <=> Waiting(u)
                                 /\ flight'[u] = flight[u] /\ key'[u] = key[u]
        BY <1>9 DEF Wake, Leave, Owns, Leads, Waiting, TypeOK
  <2>2. ~ Waiting(t)' /\ ~ Owns(t) /\ ~ Leads(t) /\ inflight' = inflight /\ finished' = finished
        BY <1>9 DEF Wake, Leave, Owns, Leads, Waiting, TypeOK
  <2>3. \A x \in Threads : Waiting(x)' /\ flight'[x] \notin finished' =>
           \E y \in Threads : Owns(y)' /\ flight'[y] = flight'[x]
    <3> SUFFICES ASSUME NEW x \in Threads, Waiting(x)', flight'[x] \notin finished'
                 PROVE  \E y \in Threads : Owns(y)' /\ flight'[y] = flight'[x]
        OBVIOUS
    <3>1. x # t /\ Waiting(x) /\ flight[x] \notin finished /\ flight'[x] = flight[x]
        BY <2>1, <2>2
    <3>2. PICK y \in Threads : Owns(y) /\ flight[y] = flight[x]
        BY <3>1 DEF LeaderPresent
    <3> QED BY <2>1, <2>2, <3>1, <3>2
  <2>4. \A q \in Keys : inflight'[q] # None =>
           \E y \in Threads : Leads(y)' /\ key'[y] = q /\ flight'[y] = inflight'[q]
        BY <2>1, <2>2 DEF LeaderPresent
  <2> QED BY <2>3, <2>4 DEF LeaderPresent
<1>10. ASSUME NEW k \in Keys, Expire(k) PROVE LeaderPresent'
    BY <1>10 DEF Expire, TypeOK, LeaderPresent, Asked, Tabled, Leads, OneOwner, Owns, Waiting
<1>11. ASSUME NEW ids \in SUBSET (Users \cup {Shared}), Purge(ids) PROVE LeaderPresent'
    BY <1>11 DEF Purge, Keep, Ordered, Bars, Running, Of, TypeOK, LeaderPresent, Asked,
           Tabled, Leads, OneOwner, Owns, Waiting
<1>12. ASSUME Clear PROVE LeaderPresent'
    BY <1>12 DEF Clear, Keep, Ordered, TypeOK, LeaderPresent, Asked, Tabled, Leads, OneOwner,
           Owns, Waiting
<1>13. CASE UNCHANGED vars
    BY <1>13 DEF vars, TypeOK, LeaderPresent, Asked, Tabled, Leads, OneOwner, Owns, Waiting
<1> QED BY <1>1, <1>2, <1>3, <1>4, <1>5, <1>6, <1>7, <1>8, <1>9, <1>10, <1>11, <1>12,
       <1>13 DEF Next, Work

(* Every step keeps what is stored, or about to be, younger than the last purge. *)
LEMMA FreshStep ==
  ASSUME IInv, [Next]_vars
  PROVE  PurgeInv'
<1> USE KeysAssumption, BoundsAssumption, NoneAssumption 
       DEF IInv, OwnerInv, PurgeInv, Flights, cache, table, events, thread, Goto
<1>1. ASSUME NEW t \in Threads, NEW k \in Keys, Hit(t, k) PROVE PurgeInv'
  <2>1. NoRefill'
      BY <1>1 DEF Hit, TypeOK, OrderOK, NoRefill, Fresh, Leads, Asked
  <2>2. \A q \in Keys : purged'[q] <= flights'
      BY <1>1 DEF Hit, TypeOK
  <2>3. \A x \in Threads : Fresh(x)'
      BY <1>1 DEF Hit, TypeOK, Fresh, Asked, Tabled, Leads, Owns
  <2> QED BY <2>1, <2>2, <2>3 DEF PurgeInv
<1>2. ASSUME NEW t \in Threads, NEW k \in Keys, Join(t, k) PROVE PurgeInv'
  <2>1. NoRefill'
      BY <1>2 DEF Join, Ask, Keep, Ordered, TypeOK, OrderOK, NoRefill, Fresh, Leads, Asked
  <2>2. \A q \in Keys : purged'[q] <= flights'
      BY <1>2 DEF Join, Ask, Keep, Ordered, TypeOK
  <2>3. \A x \in Threads : Fresh(x)'
      BY <1>2 DEF Join, Ask, Keep, Ordered, TypeOK, Fresh, Asked, Tabled, Leads, Owns
  <2> QED BY <2>1, <2>2, <2>3 DEF PurgeInv
<1>3. ASSUME NEW t \in Threads, NEW k \in Keys, Lead(t, k) PROVE PurgeInv'
  <2>1. NoRefill'
      BY <1>3 DEF Lead, Ask, Keep, Ordered, Vacant, TypeOK, OrderOK, NoRefill, Fresh, Leads, Asked
  <2>2. \A q \in Keys : purged'[q] <= flights'
      BY <1>3 DEF Lead, Ask, Keep, Ordered, Vacant, TypeOK
  <2>3. \A x \in Threads : Fresh(x)'
      BY <1>3 DEF Lead, Ask, Keep, Ordered, Vacant, TypeOK, Fresh, Asked, Tabled, Leads, Owns
  <2> QED BY <2>1, <2>2, <2>3 DEF PurgeInv
<1>4. ASSUME NEW t \in Threads, Compute(t) PROVE PurgeInv'
  <2>1. NoRefill'
      BY <1>4 DEF Compute, TypeOK, OrderOK, NoRefill, Fresh, Leads, Asked
  <2>2. \A q \in Keys : purged'[q] <= flights'
      BY <1>4 DEF Compute, TypeOK
  <2>3. \A x \in Threads : Fresh(x)'
      BY <1>4 DEF Compute, TypeOK, Fresh, Asked, Tabled, Leads, Owns
  <2> QED BY <2>1, <2>2, <2>3 DEF PurgeInv
<1>5. ASSUME NEW t \in Threads, Raise(t) PROVE PurgeInv'
  <2>1. NoRefill'
      BY <1>5 DEF Raise, Fails, TypeOK, OrderOK, NoRefill, Fresh, Leads, Asked
  <2>2. \A q \in Keys : purged'[q] <= flights'
      BY <1>5 DEF Raise, Fails, TypeOK
  <2>3. \A x \in Threads : Fresh(x)'
      BY <1>5 DEF Raise, Fails, TypeOK, Fresh, Asked, Tabled, Leads, Owns
  <2> QED BY <2>1, <2>2, <2>3 DEF PurgeInv
<1>6. ASSUME NEW t \in Threads, Store(t) PROVE PurgeInv'
  <2>1. NoRefill'
      BY <1>6 DEF Store, Capped, TypeOK, OrderOK, NoRefill, Fresh, Leads, Asked
  <2>2. \A q \in Keys : purged'[q] <= flights'
      BY <1>6 DEF Store, Capped, TypeOK
  <2>3. \A x \in Threads : Fresh(x)'
      BY <1>6 DEF Store, Capped, TypeOK, Fresh, Asked, Tabled, Leads, Owns
  <2> QED BY <2>1, <2>2, <2>3 DEF PurgeInv
<1>7. ASSUME NEW t \in Threads, Pop(t) PROVE PurgeInv'
  <2>1. NoRefill'
      BY <1>7 DEF Pop, TypeOK, OrderOK, NoRefill, Fresh, Leads, Asked
  <2>2. \A q \in Keys : purged'[q] <= flights'
      BY <1>7 DEF Pop, TypeOK
  <2>3. \A x \in Threads : Fresh(x)'
      BY <1>7 DEF Pop, TypeOK, Fresh, Asked, Tabled, Leads, Owns
  <2> QED BY <2>1, <2>2, <2>3 DEF PurgeInv
<1>8. ASSUME NEW t \in Threads, Set(t) PROVE PurgeInv'
  <2>1. NoRefill'
      BY <1>8 DEF Set, Leave, Signals, TypeOK, OrderOK, NoRefill, Fresh, Leads, Asked
  <2>2. \A q \in Keys : purged'[q] <= flights'
      BY <1>8 DEF Set, Leave, Signals, TypeOK
  <2>3. \A x \in Threads : Fresh(x)'
      BY <1>8 DEF Set, Leave, Signals, TypeOK, Fresh, Asked, Tabled, Leads, Owns
  <2> QED BY <2>1, <2>2, <2>3 DEF PurgeInv
<1>9. ASSUME NEW t \in Threads, Wake(t) PROVE PurgeInv'
  <2>1. NoRefill'
      BY <1>9 DEF Wake, Leave, TypeOK, OrderOK, NoRefill, Fresh, Leads, Asked
  <2>2. \A q \in Keys : purged'[q] <= flights'
      BY <1>9 DEF Wake, Leave, TypeOK
  <2>3. \A x \in Threads : Fresh(x)'
      BY <1>9 DEF Wake, Leave, TypeOK, Fresh, Asked, Tabled, Leads, Owns
  <2> QED BY <2>1, <2>2, <2>3 DEF PurgeInv
<1>10. ASSUME NEW k \in Keys, Expire(k) PROVE PurgeInv'
  <2>1. NoRefill'
      BY <1>10 DEF Expire, TypeOK, OrderOK, NoRefill, Fresh, Leads, Asked
  <2>2. \A q \in Keys : purged'[q] <= flights'
      BY <1>10 DEF Expire, TypeOK
  <2>3. \A x \in Threads : Fresh(x)'
      BY <1>10 DEF Expire, TypeOK, Fresh, Asked, Tabled, Leads, Owns
  <2> QED BY <2>1, <2>2, <2>3 DEF PurgeInv
<1>11. ASSUME NEW ids \in SUBSET (Users \cup {Shared}), Purge(ids) PROVE PurgeInv'
  <2>1. NoRefill'
      BY <1>11 DEF Purge, Keep, Ordered, Bars, Running, Of, TypeOK, OrderOK, NoRefill, Fresh,
             Leads, Asked
  <2>2. \A q \in Keys : purged'[q] <= flights'
      BY <1>11 DEF Purge, Keep, Ordered, Bars, Running, Of, TypeOK
  <2>3. \A x \in Threads : Fresh(x)'
      BY <1>11 DEF Purge, Keep, Ordered, Bars, Running, Of, TypeOK, Fresh, Asked, Tabled, Leads,
             Owns
  <2> QED BY <2>1, <2>2, <2>3 DEF PurgeInv
<1>12. ASSUME Clear PROVE PurgeInv'
  <2>1. NoRefill'
      BY <1>12 DEF Clear, Keep, Ordered, TypeOK, OrderOK, NoRefill, Fresh, Leads, Asked
  <2>2. \A q \in Keys : purged'[q] <= flights'
      BY <1>12 DEF Clear, Keep, Ordered, TypeOK
  <2>3. \A x \in Threads : Fresh(x)'
      BY <1>12 DEF Clear, Keep, Ordered, TypeOK, Fresh, Asked, Tabled, Leads, Owns
  <2> QED BY <2>1, <2>2, <2>3 DEF PurgeInv
<1>13. CASE UNCHANGED vars
    BY <1>13 DEF vars, TypeOK, OrderOK, NoRefill, Fresh, Leads, Asked, Tabled, Owns
<1> QED BY <1>1, <1>2, <1>3, <1>4, <1>5, <1>6, <1>7, <1>8, <1>9, <1>10, <1>11, <1>12,
       <1>13 DEF Next, Work

(* The invariant of get_or_compute and purge_callers is inductive. *)
THEOREM Inductive == Spec => []IInv
<1>1. Init => IInv
    BY KeysAssumption, BoundsAssumption, NoneAssumption
    DEF Init, IInv, OwnerInv, PurgeInv, TypeOK, OrderOK, OneOwner, Owns, Leads, Asked, Tabled,
           Fresh, LeaderPresent,
        Waiting, NoRefill, Flights
<1>2. IInv /\ [Next]_vars => IInv'
    BY TypeStep, OwnerStep, PresentStep, FreshStep DEF IInv
<1> QED BY <1>1, <1>2, PTL DEF Spec

(* The entries, the table of flights and the threads stay well formed. *)
THEOREM TypeCorrect == Spec => []TypeOK
<1>1. IInv => TypeOK BY DEF IInv
<1> QED BY <1>1, Inductive, PTL

(* No two threads ever compute, store or unlist one key at the same time. *)
THEOREM OneComputation == Spec => []SingleFlight
<1>1. IInv => SingleFlight
    BY DEF IInv, OwnerInv, SingleFlight, OneOwner, Tabled, Owns
<1> QED BY <1>1, Inductive, PTL

(* A result computed from inputs read before a purge is never stored after it. *)
THEOREM PurgesHold == Spec => []NoRefill
<1>1. IInv => NoRefill BY DEF IInv, PurgeInv
<1> QED BY <1>1, Inductive, PTL

(* Whoever waits, waits for a flight some thread still carries; what is tabled is led. *)
THEOREM NobodyAbandoned == Spec => []LeaderPresent
<1>1. IInv => LeaderPresent BY DEF IInv
<1> QED BY <1>1, Inductive, PTL

-----------------------------------------------------------------------------
(* The cap.  Every non-empty set of entries has an oldest one, so there is   *)
(* one to evict when a store goes over the cap.                              *)
HasOldest(E, R) == \A S \in (SUBSET E) \ {{}} : \E k \in S : \A j \in S \ {k} : <<k, j>> \in R
CapInv ==
    /\ HasOldest(entries, newer)
    /\ IsFiniteSet(entries)
    /\ Cardinality(entries) <= MaxEntries

(* popitem(last=False) evicts an entry there is.                             *)
LEMMA OldestIsThere ==
  ASSUME NEW E, NEW R, HasOldest(E, R), E # {}
  PROVE  Oldest(E, R) \in E /\ \A j \in E \ {Oldest(E, R)} : <<Oldest(E, R), j>> \in R
<1>1. \E k \in E : \A j \in E \ {k} : <<k, j>> \in R
    BY DEF HasOldest
<1> QED BY <1>1 DEF Oldest

(* What leaves the cache leaves the order of the others alone.               *)
LEMMA LeavingKeepsOrder ==
  ASSUME NEW E, NEW R, HasOldest(E, R), NEW F \in SUBSET E
  PROVE  HasOldest(F, {p \in R : p[1] \in F /\ p[2] \in F})
<1> SUFFICES ASSUME NEW S \in (SUBSET F) \ {{}}
             PROVE  \E k \in S : \A j \in S \ {k} : <<k, j>> \in {p \in R : p[1] \in F /\ p[2] \in F}
    BY DEF HasOldest
<1>1. PICK k \in S : \A j \in S \ {k} : <<k, j>> \in R
    BY DEF HasOldest
<1>2. \A j \in S \ {k} : <<k, j>> \in {p \in R : p[1] \in F /\ p[2] \in F}
    BY <1>1
<1> QED BY <1>2

(* move_to_end makes an entry the newest and leaves the order of the others. *)
LEMMA TouchingKeepsOrder ==
  ASSUME NEW E, NEW k, HasOldest(E \ {k}, newer)
  PROVE  HasOldest(E, Touched(E, k))
<1> SUFFICES ASSUME NEW S \in (SUBSET E) \ {{}}
             PROVE  \E m \in S : \A j \in S \ {m} : <<m, j>> \in Touched(E, k)
    BY DEF HasOldest
<1>1. CASE S \ {k} = {}
  <2>1. S # {}
      OBVIOUS
  <2>2. PICK m : m \in S
      BY <2>1
  <2>3. S = {m}
      BY <1>1, <2>2
  <2> QED BY <2>3
<1>2. CASE S \ {k} # {}
  <2>1. PICK m \in S \ {k} : \A j \in (S \ {k}) \ {m} : <<m, j>> \in newer
      BY <1>2 DEF HasOldest
  <2>2. \A j \in S \ {m} : <<m, j>> \in Touched(E, k)
      BY <2>1 DEF Touched
  <2> QED BY <2>1, <2>2
<1> QED BY <1>1, <1>2

(* A store over the cap evicts one entry, and not the one it has stored.     *)
LEMMA StoreEvicts ==
  ASSUME TypeOK, CapInv, NEW k \in Keys, NEW E, E = entries \cup {k},
         NEW R, R = Touched(E, k)
  PROVE  /\ HasOldest(E, R) /\ Capped(E, R) \subseteq E /\ k \in Capped(E, R)
         /\ IsFiniteSet(Capped(E, R)) /\ Cardinality(Capped(E, R)) <= MaxEntries
<1>1. IsFiniteSet(E) /\ Cardinality(E) \in Nat /\ Cardinality(E) <= MaxEntries + 1
  <2>1. Cardinality(entries) \in Nat /\ Cardinality(entries) <= MaxEntries
      BY FS_CardinalityType DEF CapInv
  <2>2. /\ IsFiniteSet(E)
        /\ Cardinality(E) = IF k \in entries THEN Cardinality(entries) ELSE Cardinality(entries) + 1
      BY FS_AddElement DEF CapInv
  <2> QED BY <2>1, <2>2, BoundsAssumption
<1>2. HasOldest(E, R)
  <2>1. entries \ {k} = E \ {k} /\ E \ {k} \in SUBSET entries
      OBVIOUS
  <2>2. HasOldest(E \ {k}, newer)
      BY <2>1 DEF CapInv, HasOldest
  <2> QED BY <2>2, TouchingKeepsOrder
<1>3. CASE Cardinality(E) > MaxEntries
  <2>1. PICK x : x = Oldest(E, R)
      OBVIOUS
  <2>2. x \in E /\ \A j \in E \ {x} : <<x, j>> \in R
      BY <1>2, <2>1, OldestIsThere
  <2>3. Capped(E, R) = E \ {x}
      BY <1>3, <2>1 DEF Capped
  <2>4. IsFiniteSet(E \ {x}) /\ Cardinality(E \ {x}) = Cardinality(E) - 1
      BY <1>1, <2>2, FS_RemoveElement
  <2>5. x # k
    <3> SUFFICES ASSUME x = k PROVE FALSE
        OBVIOUS
    <3>1. E = {k}
      <4> SUFFICES ASSUME NEW j \in E, j # k PROVE FALSE
          BY <2>2
      <4>1. <<k, j>> \in R
          BY <2>2
      <4> QED BY <4>1 DEF Touched
    <3>2. Cardinality(E) = 1
        BY <3>1, FS_Singleton
    <3> QED BY <1>3, <3>2, BoundsAssumption
  <2>6. Cardinality(E \ {x}) <= MaxEntries
      BY <1>1, <2>4, BoundsAssumption
  <2> QED BY <1>2, <2>3, <2>4, <2>5, <2>6
<1>4. CASE ~ (Cardinality(E) > MaxEntries)
    BY <1>1, <1>2, <1>4, BoundsAssumption DEF Capped
<1> QED BY <1>3, <1>4

LEMMA CapStep ==
  ASSUME IInv, CapInv, [Next]_vars
  PROVE  CapInv'
<1> USE DEF cache, CapInv
<1>1. ASSUME entries' = entries, newer' = newer PROVE CapInv'
    BY <1>1 DEF HasOldest
<1>2. ASSUME NEW F, Keep(F), F \subseteq entries PROVE CapInv'
  <2>1. entries' = F /\ newer' = {p \in newer : p[1] \in F /\ p[2] \in F}
      BY <1>2 DEF Keep, Ordered
  <2>2. HasOldest(entries', newer')
      BY <1>2, <2>1, LeavingKeepsOrder
  <2>3. /\ IsFiniteSet(F) /\ Cardinality(F) <= Cardinality(entries)
        /\ Cardinality(F) \in Nat /\ Cardinality(entries) \in Nat
      BY <1>2, FS_Subset, FS_CardinalityType
  <2> QED BY <2>1, <2>2, <2>3, BoundsAssumption
<1>3. ASSUME NEW t \in Threads, NEW k \in Keys, Hit(t, k) PROVE CapInv'
  <2>1. HasOldest(entries \ {k}, newer)
      BY DEF HasOldest
  <2>2. entries' = entries /\ newer' = Touched(entries, k)
      BY <1>3 DEF Hit
  <2>3. HasOldest(entries', newer')
      BY <2>1, <2>2, TouchingKeepsOrder
  <2> QED BY <2>2, <2>3
<1>4. ASSUME NEW t \in Threads, Store(t) PROVE CapInv'
  <2>1. CASE flight[t] \notin cacheable
      BY <1>1, <1>4, <2>1 DEF Store
  <2>2. CASE flight[t] \in cacheable
    <3>1. PICK E, R : E = entries \cup {key[t]} /\ R = Touched(E, key[t])
        OBVIOUS
    <3>2. /\ entries' = Capped(E, R)
          /\ newer' = {p \in R : p[1] \in entries' /\ p[2] \in entries'}
        BY <1>4, <2>2, <3>1 DEF Store
    <3>3. key[t] \in Keys
        BY <1>4 DEF Store, IInv, OwnerInv, Asked
    <3>4. /\ HasOldest(E, R) /\ Capped(E, R) \subseteq E
          /\ IsFiniteSet(Capped(E, R)) /\ Cardinality(Capped(E, R)) <= MaxEntries
        BY <3>1, <3>3, StoreEvicts DEF IInv
    <3>5. HasOldest(entries', newer')
        BY <3>2, <3>4, LeavingKeepsOrder
    <3> QED BY <3>2, <3>4, <3>5
  <2> QED BY <2>1, <2>2
<1>5. ASSUME NEW t \in Threads, NEW k \in Keys, Ask(t, k) PROVE CapInv'
    BY <1>2, <1>5 DEF Ask
<1>6. ASSUME NEW ids, Purge(ids) PROVE CapInv'
    BY <1>2, <1>6 DEF Purge
<1>7. CASE Clear
    BY <1>2, <1>7 DEF Clear
<1>8. ASSUME NEW t \in Threads, Work(t) PROVE CapInv'
    BY <1>1, <1>4, <1>8 DEF Work, Compute, Raise, Fails, Pop, Set, Wake
<1> QED BY <1>1, <1>3, <1>5, <1>6, <1>7, <1>8 DEF Next, Join, Lead, Expire, vars

LEMMA InitCap == Init => CapInv
<1> SUFFICES ASSUME entries = {} PROVE CapInv
    BY DEF Init
<1>1. HasOldest(entries, newer)
  <2> SUFFICES ASSUME NEW S \in (SUBSET entries) \ {{}} PROVE FALSE
      BY DEF HasOldest
  <2>1. S # {} /\ S \subseteq {}
      OBVIOUS
  <2> QED BY <2>1
<1> QED BY <1>1, FS_EmptySet, BoundsAssumption DEF CapInv

(* The cache never holds more than MAX_ENTRIES results between two sections  *)
(* under its lock, and each eviction finds its oldest entry.                 *)
THEOREM CacheBounded == Spec => []Bounded
<1> DEFINE J == IInv /\ CapInv
<1>1. Init => CapInv
    BY InitCap
<1>2. J /\ [Next]_vars => J'
    BY TypeStep, OwnerStep, PresentStep, FreshStep, CapStep DEF IInv
<1>3. CapInv => Bounded
    BY DEF CapInv, Bounded
<1> QED BY <1>1, <1>2, <1>3, Inductive, PTL DEF Spec

(* A store never evicts what it has just stored: of a result that may be     *)
(* stored, the caller's next lookup finds the entry.                         *)
Retains == \A t \in Threads : Store(t) /\ flight[t] \in cacheable => key[t] \in entries'
THEOREM StoredResultsStay == Spec => [][Retains]_vars
<1> DEFINE J == IInv /\ CapInv
<1>1. Init => CapInv
    BY InitCap
<1>2. J /\ [Next]_vars => J'
    BY TypeStep, OwnerStep, PresentStep, FreshStep, CapStep DEF IInv
<1>3. J => Retains
  <2> SUFFICES ASSUME J, NEW t \in Threads, Store(t), flight[t] \in cacheable
               PROVE  key[t] \in entries'
      BY DEF Retains
  <2>1. PICK E, R : E = entries \cup {key[t]} /\ R = Touched(E, key[t])
      OBVIOUS
  <2>2. entries' = Capped(E, R) /\ key[t] \in Keys
      BY <2>1 DEF Store, IInv, OwnerInv, Asked
  <2> QED BY <2>1, <2>2, StoreEvicts DEF IInv
<1> QED BY <1>1, <1>2, <1>3, Inductive, PTL DEF Spec
=============================================================================
