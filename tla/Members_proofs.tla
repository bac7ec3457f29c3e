------------------------------ MODULE Members_proofs ------------------------------
(***************************************************************************)
(* Who is in which channel.  The tables of a server that runs are compared *)
(* with the sessions of its clients: a channel lists a user once, and only *)
(* users who are logged in and take themselves to be in it; and if nobody  *)
(* logs out, all of these.                                                 *)
(***************************************************************************)
EXTENDS Subscriptions_proofs

NoRepeats(q) == \A i, j \in 1 .. Len(q) : q[i] = q[j] => i = j

\* No two users share a name.
OwnNames == \A c, d \in Clients : Username[c] = Username[d] => c = d

--------------------------------------------------------------------------------
(* Lists without repetitions *)

\* One element more, at the end.
LEMMA Appended ==
  ASSUME NEW S, NEW q \in Seq(S), NEW x \in S
  PROVE  /\ Range(Append(q, x)) = Range(q) \cup {x}
         /\ NoRepeats(q) /\ x \notin Range(q) => NoRepeats(Append(q, x))
<1> DEFINE r == Append(q, x)
<1>1. /\ Len(q) \in Nat /\ DOMAIN q = 1 .. Len(q) /\ Len(r) = Len(q) + 1
      /\ DOMAIN r = 1 .. Len(q) + 1 /\ r[Len(q) + 1] = x
      /\ \A k \in 1 .. Len(q) : r[k] = q[k]
  OBVIOUS
<1> HIDE DEF r
<1>2. Range(r) = Range(q) \cup {x}
  BY <1>1 DEF Range
<1>3. ASSUME NoRepeats(q), x \notin Range(q) PROVE NoRepeats(r)
  <2> SUFFICES ASSUME NEW i \in 1 .. Len(q) + 1, NEW j \in 1 .. Len(q) + 1, r[i] = r[j]
               PROVE  i = j
    BY <1>1 DEF NoRepeats
  <2>1. \A k \in 1 .. Len(q) : q[k] # x
    BY <1>1, <1>3 DEF Range
  <2> QED
    BY <1>1, <1>3, <2>1 DEF NoRepeats
<1> QED
  BY <1>2, <1>3 DEF r

\* One element less, at any position.
LEMMA Removed ==
  ASSUME NEW S, NEW q \in Seq(S), NEW i \in 1 .. Len(q), NoRepeats(q)
  PROVE  /\ NoRepeats(RemoveAt(q, i))
         /\ Range(RemoveAt(q, i)) = Range(q) \ {q[i]}
<1> DEFINE r == RemoveAt(q, i)
           n == Len(q)
<1>1. /\ r \in Seq(S) /\ Len(r) = n - 1 /\ n \in Nat /\ DOMAIN q = 1 .. n /\ i \in 1 .. n
      /\ \A k \in 1 .. n - 1 : r[k] = q[IF k < i THEN k ELSE k + 1]
  BY RemovedAt
<1>2. DOMAIN r = 1 .. n - 1
  BY <1>1
<1>3. \A j, k \in 1 .. n : q[j] = q[k] => j = k
  BY DEF NoRepeats
<1> HIDE DEF r, n
<1>4. NoRepeats(r)
  <2> SUFFICES ASSUME NEW j \in 1 .. n - 1, NEW k \in 1 .. n - 1, r[j] = r[k] PROVE j = k
    BY <1>1 DEF NoRepeats
  <2>1. /\ (IF j < i THEN j ELSE j + 1) \in 1 .. n
        /\ (IF k < i THEN k ELSE k + 1) \in 1 .. n
    BY <1>1
  <2>2. (IF j < i THEN j ELSE j + 1) = (IF k < i THEN k ELSE k + 1)
    BY <1>1, <1>3, <2>1
  <2> QED
    BY <1>1, <2>2
<1>5. Range(r) = Range(q) \ {q[i]}
  <2>1. ASSUME NEW k \in 1 .. n - 1 PROVE r[k] \in Range(q) \ {q[i]}
    <3>1. (IF k < i THEN k ELSE k + 1) \in 1 .. n /\ (IF k < i THEN k ELSE k + 1) # i
      BY <1>1
    <3> QED
      BY <1>1, <1>3, <3>1 DEF Range
  <2>2. ASSUME NEW j \in 1 .. n, j # i PROVE \E k \in 1 .. n - 1 : r[k] = q[j]
    <3>1. CASE j < i
      <4>1. j \in 1 .. n - 1 /\ r[j] = q[j]
        BY <1>1, <3>1
      <4> QED
        BY <4>1
    <3>2. CASE j > i
      <4>1. j - 1 \in 1 .. n - 1 /\ ~(j - 1 < i) /\ (j - 1) + 1 = j
        BY <1>1, <3>2
      <4>2. r[j - 1] = q[j]
        BY <1>1, <4>1
      <4> QED
        BY <4>1, <4>2
    <3> QED
      BY <1>1, <2>2, <3>1, <3>2
  <2>3. \A x \in Range(q) \ {q[i]} : \E j \in 1 .. n : j # i /\ x = q[j]
    BY <1>1 DEF Range
  <2> QED
    BY <1>2, <2>1, <2>2, <2>3 DEF Range
<1> QED
  BY <1>4, <1>5 DEF r

\* The last element gone.
LEMMA Shortened ==
  ASSUME NEW S, NEW q \in Seq(S), q # <<>>, NoRepeats(q)
  PROVE  NoRepeats(Front(q)) /\ Range(Front(q)) \subseteq Range(q)
<1> DEFINE n == Len(q)
<1>1. n \in Nat \ {0} /\ DOMAIN q = 1 .. n
  OBVIOUS
<1>2. Front(q) = SubSeq(q, 1, n - 1)
  BY DEF Front
<1>3. Len(Front(q)) = n - 1 /\ DOMAIN Front(q) = 1 .. n - 1
  BY <1>1, <1>2
<1>4. \A k \in 1 .. n - 1 : Front(q)[k] = q[k]
  BY <1>1, <1>2
<1>5. \A i, j \in 1 .. n : q[i] = q[j] => i = j
  BY DEF NoRepeats
<1> HIDE DEF n
<1> QED
  BY <1>1, <1>3, <1>4, <1>5 DEF NoRepeats, Range

--------------------------------------------------------------------------------
(* The users of a channel *)

\* The users of a channel are clients, and nobody is listed twice.
ProperList(us) == GoodUsers(us) /\ us.items \in Seq(Clients) /\ NoRepeats(us.items)

\* The scan for the name of c finds c and nobody else.
LEMMA FindUser ==
  ASSUME OwnNames, NEW us, ProperList(us), NEW c \in Clients, NEW fr, c \notin fr
  PROVE  LET i == FirstNamed(us, Username[c], fr)
         IN  /\ i \in 0 .. Len(us.items)
             /\ i # 0 => i \in 1 .. Len(us.items) /\ us.items[i] = c
             /\ c \in Range(us.items) => i # 0
<1> DEFINE I == {i \in 1 .. Len(us.items) : IsNamed(us.items[i], Username[c], fr)}
<1>1. us.items \in Seq(Clients) /\ Len(us.items) \in Nat /\ DOMAIN us.items = 1 .. Len(us.items)
      /\ \A i \in 1 .. Len(us.items) : us.items[i] \in Clients
  BY DEF ProperList
<1>2. I \in SUBSET (1 .. Len(us.items))
  OBVIOUS
<1>3. FirstNamed(us, Username[c], fr) = IF I # {} THEN Min(I) ELSE 0
  BY DEF FirstNamed, SelectInSeq
<1>4. I # {} => Min(I) \in I
  BY <1>1, <1>2, MinOfPositions
<1>5. \A i \in I : us.items[i] = c
  BY <1>1 DEF OwnNames, IsNamed
<1>6. c \in Range(us.items) => I # {}
  BY <1>1, ChannelsAssumption DEF Range, IsNamed
<1> HIDE DEF I
<1>7. CASE I = {}
  BY <1>1, <1>3, <1>6, <1>7
<1>8. CASE I # {}
  <2>1. Min(I) \in 1 .. Len(us.items) /\ us.items[Min(I)] = c
    BY <1>2, <1>4, <1>5, <1>8
  <2>2. Min(I) # 0 /\ Min(I) \in 0 .. Len(us.items)
    BY <1>1, <2>1
  <2> QED
    BY <1>3, <1>8, <2>1, <2>2
<1> QED
  BY <1>7, <1>8

\* Whoever remove_user takes out, c is not in the list afterwards; and it takes out c
\* alone if he was in it.
LEMMA RemoveUser ==
  ASSUME OwnNames, NEW us, ProperList(us), NEW c \in Clients, NEW fr, c \notin fr
  PROVE  LET after == remove_user(us, Username[c], fr)
         IN  /\ ProperList(after)
             /\ Range(after.items) \subseteq Range(us.items) \ {c}
             /\ c \in Range(us.items) =>
                  Range(after.items) = Range(us.items) \ {c} /\ after.debt = us.debt
<1> DEFINE i == FirstNamed(us, Username[c], fr)
           after == remove_user(us, Username[c], fr)
<1>1. /\ i # 0 => i \in 1 .. Len(us.items) /\ us.items[i] = c
      /\ c \in Range(us.items) => i # 0
  BY FindUser
<1>2. us \in CountedArrays(Pointers) /\ us.items \in Seq(Clients) /\ NoRepeats(us.items)
      /\ GoodUsers(after)
  BY RemoveUserGood DEF ProperList, GoodUsers
<1>3. after = IF i = 0 THEN DropLast(us) ELSE RemoveIndex(us, i)
  BY DEF remove_user
<1> HIDE DEF i, after
<1>4. CASE i # 0
  <2>1. after.items = RemoveAt(us.items, i) /\ after.debt = us.debt
    BY <1>2, <1>3, <1>4 DEF RemoveIndex, CountedArrays
  <2>2. RemoveAt(us.items, i) \in Seq(Clients)
    BY <1>1, <1>2, <1>4, RemovedAt
  <2>3. NoRepeats(after.items) /\ Range(after.items) = Range(us.items) \ {us.items[i]}
    BY <1>1, <1>2, <1>4, <2>1, Removed
  <2> QED
    BY <1>1, <1>2, <1>4, <2>1, <2>2, <2>3 DEF ProperList, after
<1>5. CASE i = 0 /\ us.items = <<>>
  <2>1. after.items = us.items
    BY <1>2, <1>3, <1>5 DEF DropLast, CountedArrays
  <2> QED
    BY <1>1, <1>2, <1>5, <2>1 DEF ProperList, after
<1>6. CASE i = 0 /\ us.items # <<>>
  <2>1. after.items = Front(us.items)
    BY <1>2, <1>3, <1>6 DEF DropLast, CountedArrays
  <2>2. Front(us.items) \in Seq(Clients)
    BY <1>2, <1>6 DEF Front
  <2>3. NoRepeats(after.items) /\ Range(after.items) \subseteq Range(us.items)
    BY <1>2, <1>6, <2>1, Shortened
  <2> QED
    BY <1>1, <1>2, <1>6, <2>1, <2>2, <2>3 DEF ProperList, after
<1> QED
  BY <1>4, <1>5, <1>6

\* JOIN of a user who is not in the list.
LEMMA AddUser ==
  ASSUME NEW us, ProperList(us), NEW c \in Clients, c \notin Range(us.items)
  PROVE  /\ ProperList(add_user(us, c))
         /\ Range(add_user(us, c).items) \subseteq Range(us.items) \cup {c}
         /\ us.debt = 0 => /\ Range(add_user(us, c).items) = Range(us.items) \cup {c}
                           /\ add_user(us, c).debt = 0
<1> DEFINE after == add_user(us, c)
<1>1. us \in CountedArrays(Pointers) /\ us.items \in Seq(Clients) /\ NoRepeats(us.items)
      /\ GoodUsers(after)
  BY StoreGood DEF ProperList, GoodUsers, add_user, Pointers
<1>2. CASE us.debt > 0
  <2>1. after.items = us.items /\ us.debt # 0
    BY <1>1, <1>2 DEF add_user, Store, CountedArrays
  <2> HIDE DEF after
  <2> QED
    BY <1>1, <2>1 DEF ProperList, after
<1>3. CASE ~(us.debt > 0)
  <2>1. after.items = Append(us.items, c) /\ after.debt = us.debt
    BY <1>1, <1>3 DEF add_user, Store, CountedArrays
  <2> HIDE DEF after
  <2>2. Append(us.items, c) \in Seq(Clients)
    BY <1>1
  <2>3. NoRepeats(after.items) /\ Range(after.items) = Range(us.items) \cup {c}
    BY <1>1, <2>1, Appended
  <2> QED
    BY <1>1, <2>1, <2>2, <2>3 DEF ProperList, after
<1> QED
  BY <1>2, <1>3

\* LOGIN of a user who is not in the list takes out again whom it put in.
LEMMA LoginLeavesCommon ==
  ASSUME OwnNames, NEW us, ProperList(us), NEW c \in Clients, c \notin Range(us.items),
         NEW fr, c \notin fr
  PROVE  LoginCommon(us, c, fr).items = us.items /\ LoginCommon(us, c, fr).debt = us.debt
<1> DEFINE st == Store(us, c)
           i == FirstNamed(st, Username[c], fr)
           after == LoginCommon(us, c, fr)
<1>1. us \in CountedArrays(Pointers) /\ us.items \in Seq(Clients) /\ WellCounted(us)
      /\ Len(us.items) \in Nat /\ DOMAIN us.items = 1 .. Len(us.items)
  BY DEF ProperList, GoodUsers
<1>2. ProperList(st)
  BY AddUser DEF add_user
<1>3. /\ i # 0 => i \in 1 .. Len(st.items) /\ st.items[i] = c
      /\ c \in Range(st.items) => i # 0
  BY <1>2, FindUser
<1>4. after = IF i = 0 THEN DropLast(st) ELSE RemoveIndex(st, i)
  BY DEF remove_user, LoginCommon
<1> HIDE DEF after, i
<1>5. CASE us.debt > 0
  <2>1. us.items = <<>> /\ st = [us EXCEPT !.debt = us.debt - 1]
    BY <1>1, <1>5 DEF WellCounted, Store
  <2>2. st.items = <<>> /\ st.debt = us.debt - 1
    BY <1>1, <2>1 DEF CountedArrays
  <2>3. i = 0
    BY <1>3, <2>2
  <2>4. after = [st EXCEPT !.debt = st.debt + 1]
    BY <1>4, <2>2, <2>3 DEF DropLast
  <2>5. after.items = st.items /\ after.debt = st.debt + 1
    BY <1>1, <2>1, <2>4 DEF CountedArrays
  <2>6. us.debt \in Nat
    BY <1>1 DEF CountedArrays
  <2> QED
    BY <2>1, <2>2, <2>5, <2>6 DEF after
<1>6. CASE ~(us.debt > 0)
  <2> DEFINE q == Append(us.items, c)
  <2>1. st = [us EXCEPT !.items = q]
    BY <1>6 DEF Store
  <2>2. st.items = q /\ st.debt = us.debt
    BY <1>1, <2>1 DEF CountedArrays
  <2>3. /\ Len(q) = Len(us.items) + 1 /\ q[Len(us.items) + 1] = c /\ q \in Seq(Clients)
        /\ \A k \in 1 .. Len(us.items) : q[k] = us.items[k] /\ q[k] # c
    BY <1>1 DEF Range
  <2>4. Len(us.items) + 1 \in DOMAIN q
    BY <1>1
  <2> HIDE DEF q, st
  <2>5. i = Len(us.items) + 1
    <3>1. c \in Range(st.items)
      BY <2>2, <2>3, <2>4 DEF Range
    <3>2. i \in 1 .. Len(us.items) + 1 /\ q[i] = c
      BY <1>3, <2>2, <2>3, <3>1
    <3> QED
      BY <1>1, <2>3, <3>2
  <2>6. after = [st EXCEPT !.items = RemoveAt(q, Len(us.items) + 1)]
    <3>1. i # 0
      BY <1>1, <2>5
    <3> QED
      BY <1>4, <2>2, <2>5, <3>1 DEF RemoveIndex
  <2>7. after.items = RemoveAt(q, Len(us.items) + 1) /\ after.debt = us.debt
    BY <1>1, <2>1, <2>2, <2>6 DEF CountedArrays
  <2>8. RemoveAt(q, Len(us.items) + 1) = us.items
    <3> DEFINE r == RemoveAt(q, Len(us.items) + 1)
               n == Len(us.items)
    <3>1. n + 1 \in 1 .. Len(q) /\ n \in Nat
      BY <1>1, <2>3
    <3>2. r \in Seq(Clients) /\ Len(r) = n
          /\ \A k \in 1 .. n : r[k] = q[IF k < n + 1 THEN k ELSE k + 1]
      <4>1. /\ RemoveAt(q, n + 1) \in Seq(Clients)
            /\ Len(RemoveAt(q, n + 1)) = Len(q) - 1
            /\ \A k \in 1 .. Len(q) - 1 : RemoveAt(q, n + 1)[k] = q[IF k < n + 1 THEN k ELSE k + 1]
        BY <2>3, <3>1, RemovedAt
      <4>2. Len(q) - 1 = n
        BY <2>3, <3>1
      <4> QED
        BY <4>1, <4>2
    <3>3. \A k \in 1 .. n : r[k] = us.items[k]
      BY <2>3, <3>1, <3>2
    <3> HIDE DEF r
    <3>4. r = us.items
      BY <1>1, <3>2, <3>3
    <3> QED
      BY <3>4 DEF r
  <2> QED
    BY <2>7, <2>8 DEF after
<1> QED
  BY <1>5, <1>6

--------------------------------------------------------------------------------
(* The channels of a server *)

\* The same channels with the same users.
SameUsers(cs, ds) ==
  /\ Len(ds) = Len(cs)
  /\ \A k \in 1 .. Len(cs) : ds[k].name = cs[k].name /\ ds[k].users = cs[k].users

\* A new table of users for channel i.
LEMMA SetUsers ==
  ASSUME NEW cs, GoodChannels(cs), NEW i \in 1 .. Len(cs), NEW us
  PROVE  LET ds == [cs EXCEPT ![i].users = us]
         IN  /\ Len(ds) = Len(cs)
             /\ \A k \in 1 .. Len(cs) :
                  ds[k].name = cs[k].name /\ ds[k].users = IF k = i THEN us ELSE cs[k].users
<1>1. cs \in Seq(Channel) /\ Len(cs) \in Nat /\ DOMAIN cs = 1 .. Len(cs)
  BY DEF GoodChannels
<1>2. [cs[i] EXCEPT !.users = us].name = cs[i].name /\ [cs[i] EXCEPT !.users = us].users = us
  BY <1>1 DEF Channel
<1> DEFINE f == [cs EXCEPT ![i].users = us]
<1>3. DOMAIN f = 1 .. Len(cs) /\ f[i] = [cs[i] EXCEPT !.users = us]
      /\ \A k \in 1 .. Len(cs) : k # i => f[k] = cs[k]
  BY <1>1
<1>4. Len(f) = Len(cs)
  BY <1>1
<1> HIDE DEF f
<1>5. \A k \in 1 .. Len(cs) : f[k].name = cs[k].name /\ f[k].users = IF k = i THEN us ELSE cs[k].users
  BY <1>2, <1>3
<1> QED
  BY <1>4, <1>5 DEF f

\* New tables for all channels.
LEMMA MapUsers ==
  ASSUME NEW cs, GoodChannels(cs), NEW us
  PROVE  LET ds == [i \in DOMAIN cs |-> [cs[i] EXCEPT !.users = us[i]]]
         IN  /\ Len(ds) = Len(cs)
             /\ \A k \in 1 .. Len(cs) : ds[k].name = cs[k].name /\ ds[k].users = us[k]
<1>1. cs \in Seq(Channel) /\ Len(cs) \in Nat /\ DOMAIN cs = 1 .. Len(cs)
  BY DEF GoodChannels
<1>2. \A k \in 1 .. Len(cs) : /\ [cs[k] EXCEPT !.users = us[k]].name = cs[k].name
                              /\ [cs[k] EXCEPT !.users = us[k]].users = us[k]
  BY <1>1 DEF Channel
<1> DEFINE f == [i \in DOMAIN cs |-> [cs[i] EXCEPT !.users = us[i]]]
<1>3. DOMAIN f = 1 .. Len(cs) /\ \A k \in 1 .. Len(cs) : f[k] = [cs[k] EXCEPT !.users = us[k]]
  BY <1>1
<1>4. Len(f) = Len(cs)
  BY <1>1, <1>3
<1> HIDE DEF f
<1>5. \A k \in 1 .. Len(cs) : f[k].name = cs[k].name /\ f[k].users = us[k]
  BY <1>2, <1>3
<1> QED
  BY <1>4, <1>5 DEF f

\* The renewals and the clock touch no table of users.
LEMMA ClocksOnly ==
  ASSUME NEW cs, GoodChannels(cs)
  PROVE  SameUsers(cs, cs) /\ SameUsers(cs, Renewed(cs)) /\ SameUsers(cs, AgedChannels(cs))
<1>1. cs \in Seq(Channel) /\ Len(cs) \in Nat /\ DOMAIN cs = 1 .. Len(cs)
  BY DEF GoodChannels
<1>2. \A k \in 1 .. Len(cs) : \A n : /\ [cs[k] EXCEPT !.tm = n].name = cs[k].name
                                     /\ [cs[k] EXCEPT !.tm = n].users = cs[k].users
  BY <1>1 DEF Channel
<1>3. SameUsers(cs, Renewed(cs))
  <2> DEFINE f == Renewed(cs)
  <2>1. \A k \in 1 .. Len(cs) : f[k] = IF k \in Due(cs) THEN [cs[k] EXCEPT !.tm = 0] ELSE cs[k]
    BY <1>1 DEF Renewed
  <2>2. Len(f) = Len(cs)
    BY <1>1 DEF Renewed
  <2> HIDE DEF f
  <2>3. ASSUME NEW k \in 1 .. Len(cs)
        PROVE  f[k].name = cs[k].name /\ f[k].users = cs[k].users
    <3>1. f[k] = cs[k] \/ f[k] = [cs[k] EXCEPT !.tm = 0]
      BY <2>1
    <3>2. [cs[k] EXCEPT !.tm = 0].name = cs[k].name /\ [cs[k] EXCEPT !.tm = 0].users = cs[k].users
      BY <1>2
    <3> QED
      BY <3>1, <3>2
  <2>4. SameUsers(cs, f)
    BY <2>2, <2>3 DEF SameUsers
  <2> QED
    BY <2>4 DEF f
<1>4. SameUsers(cs, AgedChannels(cs))
  <2> DEFINE f == AgedChannels(cs)
  <2>1. \A k \in 1 .. Len(cs) :
          f[k] = [cs[k] EXCEPT !.tm = IF cs[k].tm > Min1 THEN cs[k].tm ELSE cs[k].tm + 1]
    BY <1>1 DEF AgedChannels
  <2>2. Len(f) = Len(cs)
    BY <1>1 DEF AgedChannels
  <2> HIDE DEF f
  <2>3. ASSUME NEW k \in 1 .. Len(cs)
        PROVE  f[k].name = cs[k].name /\ f[k].users = cs[k].users
    <3> DEFINE n == IF cs[k].tm > Min1 THEN cs[k].tm ELSE cs[k].tm + 1
    <3>1. f[k] = [cs[k] EXCEPT !.tm = n]
      BY <2>1
    <3> HIDE DEF n
    <3> QED
      BY <1>2, <3>1
  <2>4. SameUsers(cs, f)
    BY <2>2, <2>3 DEF SameUsers
  <2> QED
    BY <2>4 DEF f
<1> QED
  BY <1>3, <1>4 DEF SameUsers

--------------------------------------------------------------------------------
(* The tables of a server and the sessions ss of its clients *)

\* The users us of channel ch of server s.
Listed(s, ch, us, ss) ==
  /\ ProperList(us)
  /\ \A c \in Range(us.items) :
       Home[c] = s /\ ss[c].phase = "on" /\ ch \in Range(ss[c].joined)

Lists(s, cs, ss) == \A i \in 1 .. Len(cs) : Listed(s, cs[i].name, cs[i].users, ss)

\* All who are in, and no decrement that hit nobody.
EveryoneIn(s, cs, ss) ==
  /\ \A i \in 1 .. Len(cs) : cs[i].users.debt = 0
  /\ \A c \in Clients : Home[c] = s /\ ss[c].phase = "on" =>
       \A ch \in Range(ss[c].joined) :
         \E i \in 1 .. Len(cs) : cs[i].name = ch /\ c \in Range(cs[i].users.items)

\* The users logged in at s, and those whose chunk was freed.
Logins(s, au, fr, ss) ==
  /\ au.debt = 0 /\ NoRepeats(au.items)
  /\ \A c \in Clients :
       c \in Range(au.items) <=> Home[c] = s /\ ss[c].phase \in {"login", "on"}
  /\ \A c \in fr : Home[c] = s /\ ss[c].phase = "out"

\* No client of s has logged out.
NobodyOut(s, ss) ==
  \/ "logout" \notin Commands
  \/ \A c \in Clients : Home[c] = s => ss[c].phase # "out"

Accounts(s, cs, au, fr, ss) ==
  /\ Lists(s, cs, ss)
  /\ Logins(s, au, fr, ss)
  /\ NobodyOut(s, ss) => EveryoneIn(s, cs, ss)

\* The invariant.  A process that has died keeps no tables.
Members == \A s \in Servers : alive[s] => Accounts(s, chans[s], all_users[s], freed[s], sess)

Sessions ==
  \A c \in Clients :
    /\ sess[c].phase \in {"off", "login"} => sess[c].joined = <<Common>>
    /\ NoRepeats(sess[c].joined)

\* Channels with the same users are accounted for in the same way.
LEMMA SameAccounts ==
  ASSUME NEW s, NEW cs, NEW ds, SameUsers(cs, ds), NEW au, NEW fr, NEW ss, Accounts(s, cs, au, fr, ss)
  PROVE  Accounts(s, ds, au, fr, ss)
<1>1. Lists(s, ds, ss)
  BY DEF SameUsers, Accounts, Lists
<1>2. ASSUME EveryoneIn(s, cs, ss) PROVE EveryoneIn(s, ds, ss)
  <2>1. \A i \in 1 .. Len(ds) : ds[i].users.debt = 0
    BY <1>2 DEF SameUsers, EveryoneIn
  <2>2. ASSUME NEW c \in Clients, Home[c] = s, ss[c].phase = "on", NEW ch \in Range(ss[c].joined)
        PROVE  \E i \in 1 .. Len(ds) : ds[i].name = ch /\ c \in Range(ds[i].users.items)
    <3>1. PICK i \in 1 .. Len(cs) : cs[i].name = ch /\ c \in Range(cs[i].users.items)
      BY <1>2, <2>2 DEF EveryoneIn
    <3>2. i \in 1 .. Len(ds) /\ ds[i].name = cs[i].name /\ ds[i].users = cs[i].users
      BY DEF SameUsers
    <3> QED
      BY <3>1, <3>2
  <2> QED
    BY <2>1, <2>2 DEF EveryoneIn
<1> QED
  BY <1>1, <1>2 DEF Accounts

\* Only the sessions of its own clients matter to a server, and of these the phase and
\* the channels.
LEMMA SameSessions ==
  ASSUME NEW s, NEW cs, GoodChannels(cs), NEW au \in CountedArrays(Clients), NEW fr \in SUBSET Clients,
         NEW ss, NEW rr,
         \A c \in Clients : Home[c] = s => rr[c].phase = ss[c].phase /\ rr[c].joined = ss[c].joined,
         Accounts(s, cs, au, fr, ss)
  PROVE  Accounts(s, cs, au, fr, rr)
<1>1. Lists(s, cs, rr)
  <2> SUFFICES ASSUME NEW i \in 1 .. Len(cs), NEW c \in Range(cs[i].users.items)
               PROVE  Home[c] = s /\ rr[c].phase = "on" /\ cs[i].name \in Range(rr[c].joined)
    BY DEF Accounts, Lists, Listed
  <2>1. ProperList(cs[i].users) /\ Home[c] = s /\ ss[c].phase = "on" /\ cs[i].name \in Range(ss[c].joined)
    BY DEF Accounts, Lists, Listed
  <2>2. c \in Clients
    BY <2>1 DEF ProperList, Range
  <2> QED
    BY <2>1, <2>2
<1>2. Logins(s, au, fr, rr)
  BY DEF Accounts, Logins
<1>3. EveryoneIn(s, cs, ss) => EveryoneIn(s, cs, rr)
  BY DEF EveryoneIn
<1>4. NobodyOut(s, rr) => NobodyOut(s, ss)
  BY DEF NobodyOut
<1> QED
  BY <1>1, <1>2, <1>3, <1>4 DEF Accounts

--------------------------------------------------------------------------------
(* What an iteration leaves *)

\* An iteration of s leaves channels with the names and users of cs, and the tables
\* au and fr, if s lives on; the other servers keep what they have.
Yields(s, cs, au, fr) ==
  /\ \A r \in Servers : alive'[r] => alive[r]
  /\ \A r \in Servers \ {s} :
       chans'[r] = chans[r] /\ all_users'[r] = all_users[r] /\ freed'[r] = freed[r]
  /\ alive'[s] => SameUsers(cs, chans'[s]) /\ all_users'[s] = au /\ freed'[s] = fr

\* A server that dies yields anything.
LEMMA DiesYields ==
  ASSUME ServerOK, NEW s \in Servers, Dies(s), NEW cs, NEW au, NEW fr
  PROVE  Yields(s, cs, au, fr)
BY DEF Dies, Yields, ServerOK, LoopOK

\* The end of an iteration yields the tables it was given.
LEMMA ResubYields ==
  ASSUME ServerOK, NEW s \in Servers, NEW nw, NEW cs, GoodChannels(cs), NEW sb, NEW told, NEW out,
         Record(s, nw, cs, sb, told, out) \/ Resub(s, nw, cs, sb, told, out),
         NEW au, NEW fr,
         all_users' = [all_users EXCEPT ![s] = au], freed' = [freed EXCEPT ![s] = fr]
  PROVE  Yields(s, cs, au, fr)
<1>1. all_users'[s] = au /\ freed'[s] = fr
      /\ \A r \in Servers \ {s} : all_users'[r] = all_users[r] /\ freed'[r] = freed[r]
  BY DEF ServerOK, UsersOK
<1>2. ASSUME NEW ds, NEW o, Record(s, nw, ds, sb, told, o), SameUsers(cs, ds)
      PROVE  Yields(s, cs, au, fr)
  <2>1. alive' = alive /\ chans'[s] = ds /\ \A p \in Servers : p # s => chans'[p] = chans[p]
    BY <1>2, Recorded
  <2> QED
    BY <1>1, <1>2, <2>1 DEF Yields
<1>3. ASSUME alive' = [alive EXCEPT ![s] = FALSE], UNCHANGED chans
      PROVE  Yields(s, cs, au, fr)
  BY <1>1, <1>3 DEF Yields, ServerOK, LoopOK
<1>4. SameUsers(cs, cs) /\ SameUsers(cs, Renewed(cs))
  BY ClocksOnly
<1>5. \/ Record(s, nw, cs, sb, told, out)
      \/ \E o : Record(s, nw, Renewed(cs), sb, told, o)
      \/ alive' = [alive EXCEPT ![s] = FALSE] /\ UNCHANGED chans
  BY DEF Resub
<1> QED
  BY <1>2, <1>3, <1>4, <1>5

\* An iteration that leaves the tables of users alone.
LEMMA PlainYields ==
  ASSUME ServerOK, NEW s \in Servers, NEW nw, NEW cs, GoodChannels(cs), NEW sb, NEW told, NEW out,
         Record(s, nw, cs, sb, told, out) \/ Resub(s, nw, cs, sb, told, out),
         UNCHANGED <<all_users, freed>>
  PROVE  Yields(s, cs, all_users[s], freed[s])
<1>1. /\ all_users' = [all_users EXCEPT ![s] = all_users[s]]
      /\ freed' = [freed EXCEPT ![s] = freed[s]]
  BY DEF ServerOK, UsersOK
<1> QED
  BY <1>1, ResubYields

\* The other servers' clients do nothing meanwhile.
LEMMA YieldsMembers ==
  ASSUME ServerOK, Members, NEW s \in Servers, NEW cs, NEW au, NEW fr, Yields(s, cs, au, fr),
         \A c \in Clients : Home[c] # s => sess'[c] = sess[c],
         alive'[s] => Accounts(s, cs, au, fr, sess')
  PROVE  Members'
<1> SUFFICES ASSUME NEW r \in Servers, alive'[r]
             PROVE  Accounts(r, chans'[r], all_users'[r], freed'[r], sess')
  BY DEF Members
<1>1. CASE r = s
  BY <1>1, SameAccounts DEF Yields
<1>2. CASE r # s
  <2>1. alive[r] /\ chans'[r] = chans[r] /\ all_users'[r] = all_users[r] /\ freed'[r] = freed[r]
    BY <1>2 DEF Yields
  <2>2. Accounts(r, chans[r], all_users[r], freed[r], sess)
    BY <2>1 DEF Members
  <2>3. GoodChannels(chans[r]) /\ all_users[r] \in CountedArrays(Clients) /\ freed[r] \in SUBSET Clients
    BY DEF ServerOK, LoopOK, UsersOK
  <2>4. Accounts(r, chans[r], all_users[r], freed[r], sess')
    BY <1>2, <2>2, <2>3, SameSessions
  <2> QED
    BY <2>1, <2>4
<1> QED
  BY <1>1, <1>2

--------------------------------------------------------------------------------
(* What the requests do to the accounts *)

\* In ss and rr the sessions of all clients but c are the same.
OnlyOf(c, ss, rr) == \A d \in Clients : d # c => rr[d] = ss[d]

\* LOGIN: a user more, in no channel yet.
LEMMA LoginAccounts ==
  ASSUME NEW s, NEW cs, NEW au \in CountedArrays(Clients), NEW fr \in SUBSET Clients, NEW ss, NEW rr,
         NEW c \in Clients, Home[c] = s, Accounts(s, cs, au, fr, ss),
         ss[c].phase = "off", rr[c].phase = "login", OnlyOf(c, ss, rr), NEW old
  PROVE  Accounts(s, cs, Store(au, c), fr \ {old}, rr)
<1>1. Lists(s, cs, rr)
  <2> SUFFICES ASSUME NEW i \in 1 .. Len(cs), NEW d \in Range(cs[i].users.items)
               PROVE  Home[d] = s /\ rr[d].phase = "on" /\ cs[i].name \in Range(rr[d].joined)
    BY DEF Accounts, Lists, Listed
  <2>1. ProperList(cs[i].users) /\ Home[d] = s /\ ss[d].phase = "on" /\ cs[i].name \in Range(ss[d].joined)
    BY DEF Accounts, Lists, Listed
  <2>2. d \in Clients /\ d # c
    BY <2>1 DEF ProperList, Range
  <2> QED
    BY <2>1, <2>2 DEF OnlyOf
<1>2. Logins(s, Store(au, c), fr \ {old}, rr)
  <2>1. au.debt = 0 /\ NoRepeats(au.items) /\ au.items \in Seq(Clients) /\ c \notin Range(au.items)
    BY DEF Accounts, Logins, CountedArrays
  <2>2. Store(au, c).debt = 0 /\ Store(au, c).items = Append(au.items, c)
    BY <2>1 DEF Store, CountedArrays
  <2>3. NoRepeats(Append(au.items, c)) /\ Range(Append(au.items, c)) = Range(au.items) \cup {c}
    BY <2>1, Appended
  <2>4. ASSUME NEW d \in Clients
        PROVE  d \in Range(au.items) \cup {c} <=> Home[d] = s /\ rr[d].phase \in {"login", "on"}
    BY DEF Accounts, Logins, OnlyOf
  <2>5. \A d \in fr \ {old} : Home[d] = s /\ rr[d].phase = "out"
    BY DEF Accounts, Logins, OnlyOf
  <2> QED
    BY <2>2, <2>3, <2>4, <2>5 DEF Logins
<1>3. EveryoneIn(s, cs, ss) => EveryoneIn(s, cs, rr)
  BY DEF EveryoneIn, OnlyOf
<1>4. NobodyOut(s, rr) => NobodyOut(s, ss)
  BY DEF NobodyOut, OnlyOf
<1> QED
  BY <1>1, <1>2, <1>3, <1>4 DEF Accounts

\* The first channel has the users it had, and a chunk that is handed out again had
\* no pointer left to it.
LEMMA LoginChannels ==
  ASSUME OwnNames, NEW s, NEW cs, GoodChannels(cs), NEW au, NEW fr \in SUBSET Clients, NEW ss,
         NEW c \in Clients, Accounts(s, cs, au, fr, ss), ss[c].phase = "off",
         NEW old \in fr \cup {Null}
  PROVE  LET cs0 == IF old = Null THEN cs ELSE Reused(cs, old, c)
             cs1 == IF cs0 = <<>> THEN cs0
                    ELSE [cs0 EXCEPT ![1].users = LoginCommon(@, c, fr \ {old})]
         IN  SameUsers(cs, cs1) /\ GoodChannels(cs1)
<1> DEFINE cs0 == IF old = Null THEN cs ELSE Reused(cs, old, c)
           cs1 == IF cs0 = <<>> THEN cs0
                  ELSE [cs0 EXCEPT ![1].users = LoginCommon(@, c, fr \ {old})]
<1>1. cs \in Seq(Channel) /\ Len(cs) \in Nat /\ DOMAIN cs = 1 .. Len(cs)
  BY DEF GoodChannels
<1>2. ASSUME NEW k \in 1 .. Len(cs)
      PROVE  /\ ProperList(cs[k].users)
             /\ c \notin Range(cs[k].users.items) /\ (old # Null => old \notin Range(cs[k].users.items))
  BY DEF Accounts, Lists, Listed, Logins
<1>3. SameUsers(cs, cs0) /\ GoodChannels(cs0)
  <2>1. CASE old = Null
    BY <2>1, ClocksOnly
  <2>2. CASE old # Null
    <3> DEFINE Swap(us) == [us EXCEPT !.items =
                              [k \in DOMAIN us.items |-> IF us.items[k] = old THEN c ELSE us.items[k]]]
               f == Reused(cs, old, c)
    <3>1. ASSUME NEW k \in 1 .. Len(cs) PROVE Swap(cs[k].users) = cs[k].users
      <4> DEFINE us == cs[k].users
      <4>1. us \in CountedArrays(Pointers) /\ \A i \in DOMAIN us.items : us.items[i] # old
        BY <1>2, <2>2 DEF ProperList, GoodUsers, Range
      <4>2. us.items \in Seq(Pointers)
        BY <4>1 DEF CountedArrays
      <4>3. us.items = [i \in DOMAIN us.items |-> us.items[i]]
        BY <4>2
      <4> HIDE DEF us
      <4>4. [i \in DOMAIN us.items |-> IF us.items[i] = old THEN c ELSE us.items[i]] = us.items
        BY <4>1, <4>3
      <4>5. Swap(us) = us
        BY <4>1, <4>4 DEF CountedArrays
      <4> QED
        BY <4>5 DEF us
    <3>2. \A k \in 1 .. Len(cs) : f[k] = [cs[k] EXCEPT !.users = Swap(cs[k].users)]
      BY <1>1 DEF Reused
    <3>3. Len(f) = Len(cs)
      BY <1>1 DEF Reused
    <3> HIDE DEF f, Swap
    <3>4. ASSUME NEW k \in 1 .. Len(cs) PROVE f[k].name = cs[k].name /\ f[k].users = cs[k].users
      <4>1. cs[k] \in Channel
        BY <1>1
      <4>2. f[k] = [cs[k] EXCEPT !.users = cs[k].users]
        BY <3>1, <3>2
      <4> QED
        BY <4>1, <4>2 DEF Channel
    <3>5. SameUsers(cs, f)
      BY <3>3, <3>4 DEF SameUsers
    <3> QED
      BY <2>2, <3>5, ReusedGood DEF f
  <2> QED
    BY <2>1, <2>2
<1>4. cs1 = IF cs0 = <<>> THEN cs0
            ELSE [cs0 EXCEPT ![1].users = LoginCommon(@, c, fr \ {old})]
  OBVIOUS
<1> HIDE DEF cs0, cs1
<1>5. ASSUME cs0 = <<>> PROVE SameUsers(cs, cs1) /\ GoodChannels(cs1)
  BY <1>3, <1>4, <1>5
<1>6. ASSUME cs0 # <<>> PROVE SameUsers(cs, cs1) /\ GoodChannels(cs1)
  <2> DEFINE us == cs0[1].users
             vs == LoginCommon(us, c, fr \ {old})
  <2>1. cs0 \in Seq(Channel) /\ 1 \in 1 .. Len(cs0) /\ Len(cs0) = Len(cs)
    BY <1>3, <1>6 DEF GoodChannels, SameUsers
  <2>2. us = cs[1].users /\ 1 \in 1 .. Len(cs)
    BY <1>3, <2>1 DEF SameUsers
  <2>3. ProperList(us) /\ c \notin Range(us.items) /\ c \notin fr \ {old}
    BY <1>2, <2>2 DEF Accounts, Logins
  <2>4. vs.items = us.items /\ vs.debt = us.debt
    BY <2>3, LoginLeavesCommon
  <2>5. vs \in CountedArrays(Pointers) /\ us \in CountedArrays(Pointers)
    BY <2>3, LoginCommonGood DEF ProperList, GoodUsers
  <2> HIDE DEF vs
  <2>6. vs = us
    BY <2>4, <2>5 DEF CountedArrays
  <2>7. cs1 = [cs0 EXCEPT ![1].users = vs]
    BY <1>4, <1>6, <2>1 DEF vs
  <2>8. Len(cs1) = Len(cs0) /\ \A k \in 1 .. Len(cs0) :
           cs1[k].name = cs0[k].name /\ cs1[k].users = IF k = 1 THEN vs ELSE cs0[k].users
    BY <1>3, <2>1, <2>7, SetUsers
  <2>9. GoodChannels(cs1)
    <3>1. GoodUsers(vs)
      BY <2>3, <2>6 DEF ProperList
    <3> QED
      BY <1>3, <2>1, <2>7, <3>1, SetUsersGood
  <2> QED
    BY <1>3, <2>6, <2>8, <2>9 DEF SameUsers
<1>7. SameUsers(cs, cs1) /\ GoodChannels(cs1)
  BY <1>5, <1>6
<1> QED
  BY <1>7 DEF cs0, cs1

\* An empty channel more.
LEMMA AddedAccounts ==
  ASSUME NEW s, NEW cs, GoodChannels(cs), NEW ch \in ChannelNames, NEW au, NEW fr, NEW ss,
         Accounts(s, cs, au, fr, ss)
  PROVE  Accounts(s, add_chnl(cs, ch), au, fr, ss)
<1> DEFINE ds == add_chnl(cs, ch)
           n == Len(cs)
<1>1. n \in Nat /\ Len(ds) = n + 1 /\ (\A k \in 1 .. n : ds[k] = cs[k])
      /\ ds[n + 1] = create_channel(ch)
  BY DEF GoodChannels, add_chnl
<1>2. ds[n + 1].users = EmptyArray /\ EmptyArray.items = <<>> /\ EmptyArray.debt = 0
  BY <1>1 DEF create_channel, EmptyArray
<1>3. ProperList(EmptyArray) /\ Range(EmptyArray.items) = {}
  BY <1>2 DEF ProperList, GoodUsers, EmptyArray, CountedArrays, WellCounted, NoRepeats, Range
<1> HIDE DEF ds, n
<1>4. \A k \in 1 .. Len(ds) : k \in 1 .. n \/ k = n + 1
  BY <1>1
<1>5. Lists(s, cs, ss)
  BY DEF Accounts
<1>6. Lists(s, ds, ss)
  <2> SUFFICES ASSUME NEW k \in 1 .. Len(ds) PROVE Listed(s, ds[k].name, ds[k].users, ss)
    BY DEF Lists
  <2>1. CASE k \in 1 .. n
    BY <1>1, <1>5, <2>1 DEF Lists, n
  <2>2. CASE k = n + 1
    BY <1>2, <1>3, <2>2 DEF Listed
  <2> QED
    BY <1>4, <2>1, <2>2
<1>7. ASSUME EveryoneIn(s, cs, ss) PROVE EveryoneIn(s, ds, ss)
  <2>1. \A k \in 1 .. Len(ds) : ds[k].users.debt = 0
    BY <1>1, <1>2, <1>4, <1>7 DEF EveryoneIn, n
  <2>2. \A k \in 1 .. n : k \in 1 .. Len(ds) /\ ds[k] = cs[k]
    BY <1>1
  <2>3. ASSUME NEW d \in Clients, Home[d] = s, ss[d].phase = "on", NEW name \in Range(ss[d].joined)
        PROVE  \E k \in 1 .. Len(ds) : ds[k].name = name /\ d \in Range(ds[k].users.items)
    <3>1. PICK k \in 1 .. n : cs[k].name = name /\ d \in Range(cs[k].users.items)
      BY <1>7, <2>3 DEF EveryoneIn, n
    <3> QED
      BY <2>2, <3>1
  <2> QED
    BY <2>1, <2>3 DEF EveryoneIn
<1> QED
  BY <1>6, <1>7 DEF Accounts, ds

\* JOIN: c is put in channel i, which has the name ch.
LEMMA JoinAccounts ==
  ASSUME NEW s, NEW cs, GoodChannels(cs), NEW au, NEW fr, NEW ss, NEW rr,
         NEW c \in Clients, Home[c] = s, Accounts(s, cs, au, fr, ss),
         NEW i \in 1 .. Len(cs),
         fr \in SUBSET Clients, ss[c].phase \in {"login", "on"}, rr[c].phase = "on", OnlyOf(c, ss, rr),
         ss[c].phase = "on" => cs[i].name \notin Range(ss[c].joined),
         ss[c].phase = "login" => Range(ss[c].joined) = {cs[i].name},
         Range(rr[c].joined) = Range(ss[c].joined) \cup {cs[i].name}
  PROVE  Accounts(s, [cs EXCEPT ![i].users = add_user(@, c)], au, fr, rr)
<1> DEFINE us == add_user(cs[i].users, c)
           ds == [cs EXCEPT ![i].users = us]
<1>0. cs \in Seq(Channel) /\ i \in DOMAIN cs
  BY DEF GoodChannels
<1>1. [cs EXCEPT ![i].users = add_user(@, c)] = ds
  BY <1>0
<1>2. Lists(s, cs, ss)
  BY DEF Accounts
<1>3. ProperList(cs[i].users) /\ c \notin Range(cs[i].users.items)
  BY <1>2 DEF Lists, Listed
<1>4. /\ ProperList(us)
      /\ Range(us.items) \subseteq Range(cs[i].users.items) \cup {c}
      /\ cs[i].users.debt = 0 => Range(us.items) = Range(cs[i].users.items) \cup {c} /\ us.debt = 0
  BY <1>3, AddUser
<1>5. Len(ds) = Len(cs)
  BY SetUsers
<1>6. \A k \in 1 .. Len(cs) : ds[k].name = cs[k].name
  BY SetUsers
<1>7. \A k \in 1 .. Len(cs) : k # i => ds[k].users = cs[k].users
  BY SetUsers
<1>8. ds[i].users = us
  BY SetUsers
<1> HIDE DEF ds, us
<1>9. ASSUME NEW k \in 1 .. Len(cs), NEW d \in Range(cs[k].users.items)
      PROVE  d \in Clients /\ Home[d] = s /\ rr[d].phase = "on" /\ cs[k].name \in Range(rr[d].joined)
  <2>1. ProperList(cs[k].users) /\ Home[d] = s /\ ss[d].phase = "on" /\ cs[k].name \in Range(ss[d].joined)
    BY <1>2 DEF Lists, Listed
  <2>2. d \in Clients
    BY <2>1 DEF ProperList, Range
  <2> QED
    BY <2>1, <2>2 DEF OnlyOf
<1>10. Lists(s, ds, rr)
  <2> SUFFICES ASSUME NEW k \in 1 .. Len(cs) PROVE Listed(s, cs[k].name, ds[k].users, rr)
    BY <1>5, <1>6 DEF Lists
  <2>1. CASE k # i
    <3>1. ds[k].users = cs[k].users /\ ProperList(cs[k].users)
      BY <1>2, <1>7, <2>1 DEF Lists, Listed
    <3> QED
      BY <1>9, <3>1 DEF Listed
  <2>2. CASE k = i
    <3>1. c \in Clients /\ Home[c] = s /\ rr[c].phase = "on" /\ cs[k].name \in Range(rr[c].joined)
      BY <2>2
    <3>2. ds[k].users = us
      BY <1>8, <2>2
    <3> QED
      BY <1>4, <1>9, <2>2, <3>1, <3>2 DEF Listed
  <2> QED
    BY <2>1, <2>2
<1>11. Logins(s, au, fr, rr)
  <2>1. Logins(s, au, fr, ss)
    BY DEF Accounts
  <2>2. ASSUME NEW d \in Clients
        PROVE  ss[d].phase \in {"login", "on"} <=> rr[d].phase \in {"login", "on"}
    BY DEF OnlyOf
  <2>3. \A d \in Clients : d \in Range(au.items) <=> Home[d] = s /\ rr[d].phase \in {"login", "on"}
    BY <2>1, <2>2 DEF Logins
  <2>4. \A d \in fr : Home[d] = s /\ rr[d].phase = "out"
    BY <2>1 DEF Logins, OnlyOf
  <2> QED
    BY <2>1, <2>3, <2>4 DEF Logins
<1>12. ASSUME EveryoneIn(s, cs, ss) PROVE EveryoneIn(s, ds, rr)
  <2>1. \A k \in 1 .. Len(cs) : cs[k].users.debt = 0
    BY <1>12 DEF EveryoneIn
  <2>2. ASSUME NEW k \in 1 .. Len(cs)
        PROVE  ds[k].users.debt = 0 /\ Range(cs[k].users.items) \subseteq Range(ds[k].users.items)
    BY <1>4, <1>7, <1>8, <2>1
  <2>3. c \in Range(ds[i].users.items)
    BY <1>4, <1>8, <2>1
  <2>4. ASSUME NEW d \in Clients, Home[d] = s, rr[d].phase = "on", NEW ch \in Range(rr[d].joined)
        PROVE  \E k \in 1 .. Len(cs) : ds[k].name = ch /\ d \in Range(ds[k].users.items)
    <3>1. CASE d = c /\ ch = cs[i].name
      BY <1>6, <2>3, <3>1
    <3>2. CASE ~(d = c /\ ch = cs[i].name)
      <4>1. ss[d].phase = "on" /\ ch \in Range(ss[d].joined)
        BY <2>4, <3>2 DEF OnlyOf
      <4>2. PICK k \in 1 .. Len(cs) : cs[k].name = ch /\ d \in Range(cs[k].users.items)
        BY <1>12, <2>4, <4>1 DEF EveryoneIn
      <4> QED
        BY <1>6, <2>2, <4>2
    <3> QED
      BY <3>1, <3>2
  <2>5. \A k \in 1 .. Len(ds) : ds[k].users.debt = 0
    BY <1>5, <2>2
  <2>6. \A d \in Clients : Home[d] = s /\ rr[d].phase = "on" =>
          \A ch \in Range(rr[d].joined) :
            \E k \in 1 .. Len(ds) : ds[k].name = ch /\ d \in Range(ds[k].users.items)
    BY <1>5, <2>4
  <2> QED
    BY <2>5, <2>6 DEF EveryoneIn
<1>13. NobodyOut(s, rr) => NobodyOut(s, ss)
  BY DEF NobodyOut, OnlyOf
<1> QED
  BY <1>1, <1>10, <1>11, <1>12, <1>13 DEF Accounts

\* LEAVE: of the channels, the one with the name ch, which is at i if there is one, has the
\* users us; or it is gone if nobody is left.  The channels ds are what remains.
Remains(cs, i, us, ds) ==
  /\ \A k \in 1 .. Len(ds) : \E j \in 1 .. Len(cs) :
       ds[k].name = cs[j].name /\ ds[k].users = IF j = i THEN us ELSE cs[j].users
  /\ \A j \in 1 .. Len(cs) :
       \/ j = i /\ us.items = <<>>
       \/ \E k \in 1 .. Len(ds) :
            ds[k].name = cs[j].name /\ ds[k].users = IF j = i THEN us ELSE cs[j].users

\* A client who leaves a channel is no longer listed in it, and all others are.
LEMMA LeaveAccounts ==
  ASSUME OwnNames, NEW s, NEW cs, GoodChannels(cs), NEW au, NEW fr \in SUBSET Clients, NEW ss, NEW rr,
         NEW c \in Clients, Home[c] = s, Accounts(s, cs, au, fr, ss), NEW ch, NEW i \in 0 .. Len(cs),
         \A j \in 1 .. Len(cs) : cs[j].name = ch <=> j = i,
         ss[c].phase = "on", rr[c].phase = "on", OnlyOf(c, ss, rr),
         ch \in Range(ss[c].joined), Range(rr[c].joined) = Range(ss[c].joined) \ {ch},
         NEW ds, Remains(cs, i, remove_user(cs[i].users, Username[c], fr), ds)
  PROVE  Accounts(s, ds, au, fr, rr)
<1> DEFINE us == remove_user(cs[i].users, Username[c], fr)
<1>1. Lists(s, cs, ss) /\ Logins(s, au, fr, ss) /\ (NobodyOut(s, ss) => EveryoneIn(s, cs, ss))
      /\ Remains(cs, i, us, ds)
  BY DEF Accounts
<1>2. c \notin fr
  BY <1>1 DEF Logins
<1>3. ASSUME i \in 1 .. Len(cs)
      PROVE  /\ ProperList(us)
             /\ Range(us.items) \subseteq Range(cs[i].users.items) \ {c}
             /\ c \in Range(cs[i].users.items) =>
                  Range(us.items) = Range(cs[i].users.items) \ {c} /\ us.debt = cs[i].users.debt
  <2>1. ProperList(cs[i].users)
    BY <1>1, <1>3 DEF Lists, Listed
  <2> DEFINE before == cs[i].users
  <2> HIDE DEF before
  <2>2. /\ ProperList(remove_user(before, Username[c], fr))
        /\ Range(remove_user(before, Username[c], fr).items) \subseteq Range(before.items) \ {c}
        /\ c \in Range(before.items) =>
             /\ Range(remove_user(before, Username[c], fr).items) = Range(before.items) \ {c}
             /\ remove_user(before, Username[c], fr).debt = before.debt
    BY ONLY OwnNames, c \in Clients, <1>2, <2>1, RemoveUser DEF before
  <2> QED
    BY <2>2 DEF before
<1> HIDE DEF us
\* Who is in a channel after the step takes himself to be in it.
<1>4. ASSUME NEW j \in 1 .. Len(cs), NEW d \in Range(cs[j].users.items), ~(d = c /\ j = i)
      PROVE  d \in Clients /\ Home[d] = s /\ rr[d].phase = "on" /\ cs[j].name \in Range(rr[d].joined)
  <2>1. ProperList(cs[j].users) /\ Home[d] = s /\ ss[d].phase = "on" /\ cs[j].name \in Range(ss[d].joined)
    BY <1>1 DEF Lists, Listed
  <2>2. d \in Clients
    BY <2>1 DEF ProperList, Range
  <2>3. CASE d # c
    BY <2>1, <2>2, <2>3 DEF OnlyOf
  <2>4. CASE d = c
    <3>1. cs[j].name # ch
      BY <1>4, <2>4
    <3> QED
      BY <2>1, <2>2, <2>4, <3>1
  <2> QED
    BY <2>3, <2>4
<1>5. Lists(s, ds, rr)
  <2> SUFFICES ASSUME NEW k \in 1 .. Len(ds) PROVE Listed(s, ds[k].name, ds[k].users, rr)
    BY DEF Lists
  <2>1. PICK j \in 1 .. Len(cs) :
          ds[k].name = cs[j].name /\ ds[k].users = IF j = i THEN us ELSE cs[j].users
    BY <1>1 DEF Remains
  <2>2. CASE j # i
    <3>1. ds[k].users = cs[j].users /\ ProperList(cs[j].users)
      BY <1>1, <2>1, <2>2 DEF Lists, Listed
    <3> QED
      BY <1>4, <2>1, <2>2, <3>1 DEF Listed
  <2>3. CASE j = i
    <3>1. ds[k].users = us /\ i \in 1 .. Len(cs) /\ ds[k].name = cs[i].name
      BY <2>1, <2>3
    <3>2. \A d \in Range(us.items) : d \in Range(cs[i].users.items) /\ d # c
      BY <1>3, <3>1
    <3>3. \A d \in Range(us.items) :
            Home[d] = s /\ rr[d].phase = "on" /\ cs[i].name \in Range(rr[d].joined)
      BY <1>4, <3>1, <3>2
    <3> QED
      BY <1>3, <3>1, <3>3 DEF Listed
  <2> QED
    BY <2>2, <2>3
<1>6. Logins(s, au, fr, rr)
  <2>1. ASSUME NEW d \in Clients PROVE ss[d].phase = rr[d].phase
    BY DEF OnlyOf
  <2> QED
    BY <1>1, <2>1 DEF Logins
<1>7. ASSUME EveryoneIn(s, cs, ss) PROVE EveryoneIn(s, ds, rr)
  <2>1. \A j \in 1 .. Len(cs) : cs[j].users.debt = 0
    BY <1>7 DEF EveryoneIn
  <2>2. PICK n \in 1 .. Len(cs) : cs[n].name = ch /\ c \in Range(cs[n].users.items)
    BY <1>7 DEF EveryoneIn
  <2>3. i \in 1 .. Len(cs) /\ c \in Range(cs[i].users.items)
    BY <2>2
  <2>4. us.debt = 0 /\ Range(us.items) = Range(cs[i].users.items) \ {c}
    BY <1>3, <2>1, <2>3
  <2>5. ASSUME NEW k \in 1 .. Len(ds) PROVE ds[k].users.debt = 0
    <3>1. PICK j \in 1 .. Len(cs) :
            ds[k].name = cs[j].name /\ ds[k].users = IF j = i THEN us ELSE cs[j].users
      BY <1>1 DEF Remains
    <3> QED
      BY <2>1, <2>4, <3>1
  <2>6. ASSUME NEW d \in Clients, Home[d] = s, rr[d].phase = "on", NEW name \in Range(rr[d].joined)
        PROVE  \E k \in 1 .. Len(ds) : ds[k].name = name /\ d \in Range(ds[k].users.items)
    <3>1. ss[d].phase = "on" /\ name \in Range(ss[d].joined) /\ (d = c => name # ch)
      BY <2>6 DEF OnlyOf
    <3>2. PICK j \in 1 .. Len(cs) : cs[j].name = name /\ d \in Range(cs[j].users.items)
      BY <1>7, <2>6, <3>1 DEF EveryoneIn
    <3>3. d \in Range((IF j = i THEN us ELSE cs[j].users).items)
      BY <2>4, <3>1, <3>2
    <3>4. ~(j = i /\ us.items = <<>>)
      BY <3>3 DEF Range
    <3> QED
      BY <1>1, <3>2, <3>3, <3>4 DEF Remains
  <2> QED
    BY <2>5, <2>6 DEF EveryoneIn
<1>8. NobodyOut(s, rr) => NobodyOut(s, ss)
  BY DEF NobodyOut, OnlyOf
<1> QED
  BY <1>1, <1>5, <1>6, <1>7, <1>8 DEF Accounts

\* LOGOUT: c is taken out of all channels and of the users logged in.
LEMMA LogoutAccounts ==
  ASSUME OwnNames, "logout" \in Commands,
         NEW s, NEW cs, GoodChannels(cs), NEW au \in CountedArrays(Clients), NEW fr \in SUBSET Clients,
         NEW ss, NEW rr, NEW c \in Clients, Home[c] = s, Accounts(s, cs, au, fr, ss),
         ss[c].phase = "on", rr[c].phase = "out", OnlyOf(c, ss, rr),
         NEW p \in 1 .. Len(au.items), au.items[p] = c,
         NEW ds, Len(ds) = Len(cs),
         \A k \in 1 .. Len(cs) : /\ ds[k].name = cs[k].name
                                 /\ ds[k].users = remove_user(cs[k].users, Username[c], fr)
  PROVE  Accounts(s, ds, RemoveIndex(au, p), fr \cup {c}, rr)
<1>1. Lists(s, cs, ss) /\ Logins(s, au, fr, ss) /\ au.items \in Seq(Clients)
  BY DEF Accounts, CountedArrays
<1>2. c \notin fr
  BY <1>1 DEF Logins
<1>3. Lists(s, ds, rr)
  <2> SUFFICES ASSUME NEW k \in 1 .. Len(cs) PROVE Listed(s, cs[k].name, ds[k].users, rr)
    BY DEF Lists
  <2>1. Listed(s, cs[k].name, cs[k].users, ss)
    BY <1>1 DEF Lists
  <2>2. /\ ProperList(ds[k].users)
        /\ Range(ds[k].users.items) \subseteq Range(cs[k].users.items) \ {c}
    <3> DEFINE before == cs[k].users
    <3>1. ProperList(before)
      BY <2>1 DEF Listed
    <3> HIDE DEF before
    <3>2. /\ ProperList(remove_user(before, Username[c], fr))
          /\ Range(remove_user(before, Username[c], fr).items) \subseteq Range(before.items) \ {c}
      BY <1>2, <3>1, RemoveUser
    <3> QED
      BY <3>2 DEF before
  <2>3. Range(ds[k].users.items) \subseteq Clients
    BY <2>2 DEF ProperList, Range
  <2> QED
    BY <2>1, <2>2, <2>3 DEF Listed, OnlyOf
<1>4. Logins(s, RemoveIndex(au, p), fr \cup {c}, rr)
  <2>1. RemoveIndex(au, p).debt = 0 /\ RemoveIndex(au, p).items = RemoveAt(au.items, p)
    BY <1>1 DEF Logins, RemoveIndex, CountedArrays
  <2>2. NoRepeats(RemoveAt(au.items, p)) /\ Range(RemoveAt(au.items, p)) = Range(au.items) \ {c}
    BY <1>1, Removed DEF Logins
  <2>3. ASSUME NEW d \in Clients
        PROVE  d \in Range(au.items) \ {c} <=> Home[d] = s /\ rr[d].phase \in {"login", "on"}
    <3>1. CASE d = c
      BY <3>1
    <3>2. CASE d # c
      BY <1>1, <3>2 DEF Logins, OnlyOf
    <3> QED
      BY <3>1, <3>2
  <2>4. \A d \in fr \cup {c} : Home[d] = s /\ rr[d].phase = "out"
    BY <1>1, <1>2 DEF Logins, OnlyOf
  <2> QED
    BY <2>1, <2>2, <2>3, <2>4 DEF Logins
<1>5. ~NobodyOut(s, rr)
  BY DEF NobodyOut
<1> QED
  BY <1>3, <1>4, <1>5 DEF Accounts

--------------------------------------------------------------------------------
(* Client steps *)

\* Client c is in phase ph and in the channels js after the step, the others are as they were.
Turns(c, ph, js) ==
  OnlyOf(c, sess, sess') /\ sess'[c].phase = ph /\ sess'[c].joined = js

\* Such a step keeps the sessions in order.
LEMMA TurnsSessions ==
  ASSUME Sessions, NEW c \in Clients, NEW ph, NEW js, Turns(c, ph, js),
         ph \in {"off", "login"} => js = <<Common>>, NoRepeats(js)
  PROVE  Sessions'
<1> SUFFICES ASSUME NEW d \in Clients
             PROVE  /\ sess'[d].phase \in {"off", "login"} => sess'[d].joined = <<Common>>
                    /\ NoRepeats(sess'[d].joined)
  BY DEF Sessions
<1>1. CASE d = c
  BY <1>1 DEF Turns
<1>2. CASE d # c
  BY <1>2 DEF Turns, OnlyOf, Sessions
<1> QED
  BY <1>1, <1>2

\* A server that has died, or dies over the request, has no accounts to keep.
LEMMA DeadMembers ==
  ASSUME ServerOK, Members, NEW s \in Servers, Dies(s) \/ (~alive[s] /\ UNCHANGED serverVars),
         \A d \in Clients : Home[d] # s => sess'[d] = sess[d]
  PROVE  Members'
<1>1. ~alive'[s]
  BY DEF Dies, ServerOK, LoopOK, serverVars
<1>2. CASE Dies(s)
  <2>1. Yields(s, chans[s], all_users[s], freed[s])
    BY <1>2, DiesYields
  <2> QED
    BY <1>1, <2>1, YieldsMembers
<1>3. CASE ~alive[s] /\ UNCHANGED serverVars
  <2>1. Yields(s, chans[s], all_users[s], freed[s])
    BY <1>3 DEF Yields, serverVars
  <2> QED
    BY <1>1, <2>1, YieldsMembers
<1> QED
  BY <1>2, <1>3

\* What is assumed of the users and of the way to their servers.
Careful == OwnNames /\ ~Rejoin /\ "lostRequest" \notin Faults

\* The types, and the invariant with what it rests on.
Booked == ServerOK /\ SessOK /\ NamesDistinct /\ Members /\ Sessions

\* A login.
LEMMA LoginMembers ==
  ASSUME Careful, Booked, NEW c \in Clients, Login(c)
  PROVE  Members' /\ Sessions'
<1> DEFINE s == Home[c]
<1>1. s \in Servers /\ sess[c] \in Session /\ sess[c].phase = "off"
      /\ ServerOK /\ SessOK /\ Members /\ Sessions
  BY ChatSystemAssumption DEF Booked, SessOK, Login
<1>2. Turns(c, "login", sess[c].joined)
  BY <1>1 DEF Login, Turns, OnlyOf, SessOK, Session
<1>3. Sessions'
  BY <1>1, <1>2, TurnsSessions DEF Sessions
<1>4. IF alive[s] THEN LoginRequest(s, c) ELSE UNCHANGED serverVars
  BY DEF Login, Handled, LostRequest, Careful
<1>5. \A d \in Clients : Home[d] # s => sess'[d] = sess[d]
  BY <1>2 DEF Turns, OnlyOf
<1> HIDE DEF s
<1>6. CASE Dies(s) \/ ~alive[s]
  BY <1>1, <1>3, <1>4, <1>5, <1>6, DeadMembers DEF ServerOK, LoopOK
<1>7. CASE ~Dies(s) /\ alive[s]
  <2>1. PICK old \in freed[s] \cup {Null} :
          LET cs0 == IF old = Null THEN chans[s] ELSE Reused(chans[s], old, c)
              cs1 == IF cs0 = <<>> THEN cs0
                     ELSE [cs0 EXCEPT ![1].users = LoginCommon(@, c, freed[s] \ {old})]
          IN  /\ all_users' = [all_users EXCEPT ![s] = Store(all_users[s], c)]
              /\ freed' = [freed EXCEPT ![s] = freed[s] \ {old}]
              /\ Resub(s, net, cs1, SweptSubs(s), NoneTold, Nothing)
    BY <1>4, <1>7 DEF LoginRequest
  <2> DEFINE cs0 == IF old = Null THEN chans[s] ELSE Reused(chans[s], old, c)
             cs1 == IF cs0 = <<>> THEN cs0
                    ELSE [cs0 EXCEPT ![1].users = LoginCommon(@, c, freed[s] \ {old})]
  <2>2. GoodChannels(chans[s]) /\ freed[s] \in SUBSET Clients /\ all_users[s] \in CountedArrays(Clients)
    BY <1>1 DEF ServerOK, LoopOK, UsersOK
  <2>3. Accounts(s, chans[s], all_users[s], freed[s], sess)
    BY <1>1, <1>7 DEF Members
  <2>4. SameUsers(chans[s], cs1) /\ GoodChannels(cs1)
    BY <1>1, <2>2, <2>3, LoginChannels DEF Careful
  <2>5. Accounts(s, chans[s], Store(all_users[s], c), freed[s] \ {old}, sess')
    BY <1>1, <1>2, <2>2, <2>3, LoginAccounts DEF Turns, s
  <2>6. Accounts(s, cs1, Store(all_users[s], c), freed[s] \ {old}, sess')
    BY <2>4, <2>5, SameAccounts
  <2>7. Yields(s, cs1, Store(all_users[s], c), freed[s] \ {old})
    BY <1>1, <2>1, <2>4, ResubYields
  <2> QED
    BY <1>1, <1>3, <1>5, <2>6, <2>7, YieldsMembers
<1> QED
  BY <1>6, <1>7

\* A Join of a user who is not in the channel; the server may have to create it.
LEMMA JoinMembers ==
  ASSUME Careful, Booked, NEW c \in Clients, NEW ch \in ChannelNames, NEW js, Turns(c, "on", js),
         Range(js) = Range(sess[c].joined) \cup {ch},
         sess[c].phase \in {"login", "on"},
         sess[c].phase = "on" => ch \notin Range(sess[c].joined),
         sess[c].phase = "login" => Range(sess[c].joined) = {ch},
         IF alive[Home[c]] THEN JoinRequest(Home[c], c, ch) ELSE UNCHANGED serverVars
  PROVE  Members'
<1> DEFINE s == Home[c]
<1>1. s \in Servers /\ ServerOK /\ Members
  BY ChatSystemAssumption DEF Booked
<1>2. \A d \in Clients : Home[d] # s => sess'[d] = sess[d]
  BY DEF Turns, OnlyOf
<1>3. IF alive[s] THEN JoinRequest(s, c, ch) ELSE UNCHANGED serverVars
  OBVIOUS
<1> HIDE DEF s
<1>4. CASE ~alive[s]
  BY <1>1, <1>2, <1>3, <1>4, DeadMembers
<1>5. CASE alive[s]
  <2> DEFINE cs == IF HasChannel(chans[s], ch) THEN chans[s] ELSE add_chnl(chans[s], ch)
             usr == IF LoggedIn(s, c) THEN c ELSE Null
             i == find_channel(cs, ch)
             ds == [cs EXCEPT ![i].users = add_user(@, usr)]
             out == ToEach(Neighbours[s], Join(ch))
  <2>1. GoodChannels(chans[s]) /\ freed[s] \in SUBSET Clients /\ all_users[s] \in CountedArrays(Clients)
    BY <1>1 DEF ServerOK, LoopOK, UsersOK
  <2>2. Accounts(s, chans[s], all_users[s], freed[s], sess)
    BY <1>1, <1>5 DEF Members
  <2>3. Resub(s, net, ds, SweptSubs(s), NoneTold, out) /\ UNCHANGED <<all_users, freed>>
    BY <1>3, <1>5 DEF JoinRequest
  <2>4. usr = c
    <3>1. c \in Range(all_users[s].items)
      BY <2>2 DEF Accounts, Logins, s
    <3> QED
      BY <3>1 DEF LoggedIn, Range
  <2>5. GoodChannels(cs) /\ Accounts(s, cs, all_users[s], freed[s], sess)
    BY <2>1, <2>2, AddChannelGood, AddedAccounts
  <2>6. HasChannel(cs, ch) /\ cs \in Seq(Channel)
    BY <2>1, <2>5, AddedIsThere DEF GoodChannels
  <2> HIDE DEF cs, usr
  <2>7. i \in 1 .. Len(cs) /\ cs[i].name = ch
    BY <2>6, FindChannel
  <2> HIDE DEF i
  <2>8. Accounts(s, [cs EXCEPT ![i].users = add_user(@, c)], all_users[s], freed[s], sess')
    BY <1>1, <2>1, <2>5, <2>7, JoinAccounts DEF Turns, s
  <2>9. ds = [cs EXCEPT ![i].users = add_user(@, c)]
    BY <2>4
  <2>10. GoodChannels(ds)
    <3>1. GoodUsers(cs[i].users)
      BY <2>5, <2>7, ChannelUsers
    <3>2. GoodUsers(add_user(cs[i].users, c))
      BY <3>1, StoreGood DEF GoodUsers, add_user, Pointers
    <3>3. ds = [cs EXCEPT ![i].users = add_user(cs[i].users, c)]
      BY <2>4, <2>6, <2>7
    <3> QED
      BY <2>5, <2>7, <3>2, <3>3, SetUsersGood
  <2> HIDE DEF ds
  <2>11. Yields(s, ds, all_users[s], freed[s])
    BY <1>1, <2>3, <2>10, PlainYields
  <2>12. Accounts(s, ds, all_users[s], freed[s], sess')
    BY <2>8, <2>9
  <2> QED
    BY <1>1, <1>2, <2>11, <2>12, YieldsMembers
<1> QED
  BY <1>4, <1>5

\* A join, of Common after the login or of any channel.
LEMMA JoinStepsMembers ==
  ASSUME Careful, Booked, NEW c \in Clients, JoinCommon(c) \/ \E ch \in ChannelNames : JoinCommand(c, ch)
  PROVE  Members' /\ Sessions'
<1>1. sess[c] \in Session /\ sess[c].joined \in Seq(ChannelNames) /\ SessOK /\ Sessions
  BY DEF Booked, SessOK, Session
<1>2. CASE JoinCommon(c)
  <2>1. sess[c].joined = <<Common>> /\ sess[c].phase = "login"
    BY <1>1, <1>2 DEF JoinCommon, Sessions
  <2>2. Turns(c, "on", <<Common>>)
    BY <1>1, <1>2, <2>1 DEF JoinCommon, Turns, OnlyOf, SessOK, Session
  <2>3. Range(<<Common>>) = {Common} /\ NoRepeats(<<Common>>) /\ Common \in ChannelNames
    BY ChannelsAssumption DEF Range, NoRepeats
  <2>4. IF alive[Home[c]] THEN JoinRequest(Home[c], c, Common) ELSE UNCHANGED serverVars
    BY <1>2 DEF JoinCommon, Handled, LostRequest, Careful
  <2>5. Members'
    BY <2>1, <2>2, <2>3, <2>4, JoinMembers
  <2>6. Sessions'
    BY <1>1, <2>2, <2>3, TurnsSessions
  <2> QED
    BY <2>5, <2>6
<1>3. ASSUME NEW ch \in ChannelNames, JoinCommand(c, ch) PROVE Members' /\ Sessions'
  <2> DEFINE js == Append(sess[c].joined, ch)
  <2>1. sess[c].phase = "on" /\ ch \notin Range(sess[c].joined)
    BY <1>3 DEF JoinCommand, Types, Careful
  <2>2. Turns(c, "on", js)
    BY <1>1, <1>3, <2>1 DEF JoinCommand, Turns, OnlyOf, SessOK, Session
  <2>3. Range(js) = Range(sess[c].joined) \cup {ch} /\ NoRepeats(js)
    BY <1>1, <2>1, Appended DEF Sessions
  <2>4. IF alive[Home[c]] THEN JoinRequest(Home[c], c, ch) ELSE UNCHANGED serverVars
    BY <1>3 DEF JoinCommand, Handled, LostRequest, Careful
  <2> HIDE DEF js
  <2>5. Members'
    BY <2>1, <2>2, <2>3, <2>4, JoinMembers
  <2>6. Sessions'
    BY <1>1, <2>2, <2>3, TurnsSessions
  <2> QED
    BY <2>5, <2>6
<1> QED
  BY <1>2, <1>3

\* The one channel with a name is found.
LEMMA FoundOnce ==
  ASSUME NEW cs, GoodChannels(cs), DistinctNames(cs), NEW ch
  PROVE  /\ find_channel(cs, ch) \in 0 .. Len(cs)
         /\ HasChannel(cs, ch) => find_channel(cs, ch) \in 1 .. Len(cs)
         /\ \A j \in 1 .. Len(cs) : cs[j].name = ch <=> j = find_channel(cs, ch)
<1>1. cs \in Seq(Channel) /\ Len(cs) \in Nat /\ DOMAIN cs = 1 .. Len(cs)
  BY DEF GoodChannels
<1>2. CASE HasChannel(cs, ch)
  <2>1. find_channel(cs, ch) \in 1 .. Len(cs) /\ cs[find_channel(cs, ch)].name = ch
    BY <1>1, <1>2, FindChannel
  <2>2. \A j \in 1 .. Len(cs) : cs[j].name = ch => j = find_channel(cs, ch)
    BY <2>1 DEF DistinctNames
  <2>3. find_channel(cs, ch) \in 0 .. Len(cs)
    BY <1>1, <2>1
  <2> QED
    BY <2>1, <2>2, <2>3
<1>3. CASE ~HasChannel(cs, ch)
  <2>1. find_channel(cs, ch) = 0
    BY <1>3 DEF HasChannel
  <2>2. \A j \in 1 .. Len(cs) : cs[j].name # ch
    BY <1>1, <1>3, NoChannel DEF Names
  <2> QED
    BY <1>1, <1>3, <2>1, <2>2
<1> QED
  BY <1>2, <1>3

\* What is left of the channels, whether or not the channel goes.
LEMMA SetRemains ==
  ASSUME NEW cs, GoodChannels(cs), NEW i \in 1 .. Len(cs), NEW us
  PROVE  /\ Remains(cs, i, us, [cs EXCEPT ![i].users = us])
         /\ us.items = <<>> => Remains(cs, i, us, remove_chnl(cs, i))
<1>1. cs \in Seq(Channel) /\ Len(cs) \in Nat
  BY DEF GoodChannels
<1>2. Remains(cs, i, us, [cs EXCEPT ![i].users = us])
  <2> DEFINE ds == [cs EXCEPT ![i].users = us]
  <2>1. /\ Len(ds) = Len(cs)
        /\ \A k \in 1 .. Len(cs) :
             ds[k].name = cs[k].name /\ ds[k].users = IF k = i THEN us ELSE cs[k].users
    BY SetUsers
  <2> HIDE DEF ds
  <2>2. Remains(cs, i, us, ds)
    BY <2>1 DEF Remains
  <2> QED
    BY <2>2 DEF ds
<1>3. ASSUME us.items = <<>> PROVE Remains(cs, i, us, remove_chnl(cs, i))
  <2> DEFINE ds == remove_chnl(cs, i)
             n == Len(cs)
  <2>1. Len(ds) = n - 1 /\ \A k \in 1 .. n - 1 : ds[k] = cs[IF k < i THEN k ELSE k + 1]
    BY <1>1, RemovedAt DEF remove_chnl
  <2>2. n \in Nat /\ i \in 1 .. n
    BY <1>1
  <2> HIDE DEF ds, n
  <2>3. ASSUME NEW k \in 1 .. n - 1
        PROVE  \E j \in 1 .. n : ds[k].name = cs[j].name /\ ds[k].users = IF j = i THEN us ELSE cs[j].users
    <3> DEFINE j == IF k < i THEN k ELSE k + 1
    <3>1. j \in 1 .. n /\ j # i /\ ds[k] = cs[j]
      BY <2>1, <2>2
    <3> QED
      BY <3>1
  <2>4. ASSUME NEW j \in 1 .. n, j # i
        PROVE  \E k \in 1 .. n - 1 : ds[k] = cs[j]
    <3>1. CASE j < i
      <4>1. j \in 1 .. n - 1 /\ ds[j] = cs[j]
        BY <2>1, <2>2, <3>1
      <4> QED
        BY <4>1
    <3>2. CASE j > i
      <4>1. j - 1 \in 1 .. n - 1 /\ ~(j - 1 < i) /\ (j - 1) + 1 = j
        BY <2>2, <3>2
      <4>2. ds[j - 1] = cs[j]
        BY <2>1, <4>1
      <4> QED
        BY <4>1, <4>2
    <3> QED
      BY <2>2, <2>4, <3>1, <3>2
  <2>5. \A j \in 1 .. n :
          \/ j = i /\ us.items = <<>>
          \/ \E k \in 1 .. Len(ds) :
               ds[k].name = cs[j].name /\ ds[k].users = IF j = i THEN us ELSE cs[j].users
    BY <1>3, <2>1, <2>4
  <2>6. \A k \in 1 .. Len(ds) :
          \E j \in 1 .. n : ds[k].name = cs[j].name /\ ds[k].users = IF j = i THEN us ELSE cs[j].users
    BY <2>1, <2>3
  <2>7. Remains(cs, i, us, ds)
    BY <2>5, <2>6 DEF Remains, n
  <2> QED
    BY <2>7 DEF ds
<1> QED
  BY <1>2, <1>3

\* A Leave of a channel the user is in; the channel goes with its last user.
LEMMA LeaveMembers ==
  ASSUME Careful, Booked, NEW c \in Clients, NEW ch \in ChannelNames, NEW js, Turns(c, "on", js),
         sess[c].phase = "on", ch \in Range(sess[c].joined), Range(js) = Range(sess[c].joined) \ {ch},
         IF alive[Home[c]] THEN LeaveRequest(Home[c], c, ch) ELSE UNCHANGED serverVars
  PROVE  Members'
<1> DEFINE s == Home[c]
           cs == chans[s]
           i == find_channel(cs, ch)
           us == remove_user(cs[i].users, Username[c], freed[s])
<1>1. s \in Servers /\ ServerOK /\ Members /\ NamesDistinct
  BY ChatSystemAssumption DEF Booked
<1>2. \A d \in Clients : Home[d] # s => sess'[d] = sess[d]
  BY DEF Turns, OnlyOf
<1>3. IF alive[s] THEN LeaveRequest(s, c, ch) ELSE UNCHANGED serverVars
  OBVIOUS
<1>4. GoodChannels(cs) /\ freed[s] \in SUBSET Clients /\ all_users[s] \in CountedArrays(Clients)
  BY <1>1 DEF ServerOK, LoopOK, UsersOK
<1>5. /\ i \in 0 .. Len(cs)
      /\ HasChannel(cs, ch) => i \in 1 .. Len(cs)
      /\ \A j \in 1 .. Len(cs) : cs[j].name = ch <=> j = i
  BY <1>1, <1>4, FoundOnce DEF NamesDistinct
<1>6. CASE Dies(s) \/ ~alive[s]
  BY <1>1, <1>2, <1>3, <1>6, DeadMembers DEF ServerOK, LoopOK
<1>7. CASE ~Dies(s) /\ alive[s]
  <2>1. Accounts(s, cs, all_users[s], freed[s], sess)
    BY <1>1, <1>7 DEF Members
  <2>2. LoggedIn(s, c)
    <3>1. c \in Range(all_users[s].items)
      BY <2>1 DEF Accounts, Logins
    <3> QED
      BY <3>1 DEF LoggedIn, Range
  <2>3. UsersOf(s, ch) = IF HasChannel(cs, ch) THEN cs[i].users ELSE EmptyArray
    BY DEF UsersOf
  <2>4. HasChannel(cs, ch) => AfterLeave(s, c, UsersOf(s, ch)) = us
    BY <2>2, <2>3 DEF AfterLeave
  <2>5. ASSUME NEW ds, Remains(cs, i, us, ds) PROVE Accounts(s, ds, all_users[s], freed[s], sess')
    <3>1. Accounts(s, cs, all_users[s], freed[s], sess) /\ Home[c] = s /\ sess[c].phase = "on"
          /\ sess'[c].phase = "on" /\ OnlyOf(c, sess, sess') /\ ch \in Range(sess[c].joined)
          /\ Range(sess'[c].joined) = Range(sess[c].joined) \ {ch} /\ OwnNames
      BY <2>1 DEF Turns, Careful
    <3> HIDE DEF i, s, cs
    <3> QED
      BY <1>4, <1>5, <2>5, <3>1, LeaveAccounts DEF cs
  <2>6. ASSUME NEW ds, Remains(cs, i, us, ds), GoodChannels(ds), NEW out,
               \/ Record(s, net, ds, SweptSubs(s), NoneTold, out)
               \/ Resub(s, net, ds, SweptSubs(s), NoneTold, out),
               UNCHANGED <<all_users, freed>>
        PROVE  Members'
    <3>1. Yields(s, ds, all_users[s], freed[s])
      BY <1>1, <2>6, PlainYields
    <3>2. Accounts(s, ds, all_users[s], freed[s], sess')
      BY <2>5, <2>6
    <3> QED
      BY <1>1, <1>2, <3>1, <3>2, YieldsMembers
  <2>7. CASE ~HasChannel(cs, ch)
    <3>1. Record(s, net, cs, SweptSubs(s), NoneTold, Nothing) /\ UNCHANGED <<all_users, freed>>
      BY <1>3, <1>7, <2>7 DEF LeaveRequest
    <3>2. i = 0
      BY <2>7 DEF HasChannel
    <3> HIDE DEF i, us
    <3>3. Remains(cs, i, us, cs)
      BY <1>4, <3>2 DEF Remains, GoodChannels
    <3> QED
      BY <1>4, <2>6, <3>1, <3>3
  <2>8. CASE HasChannel(cs, ch)
    <3>1. UNCHANGED <<all_users, freed>>
          /\ IF Count(us) = 0
             THEN Resub(s, net, remove_chnl(cs, i), SweptSubs(s), NoneTold, ToEach(Neighbours[s], Leave(ch)))
             ELSE Resub(s, net, [cs EXCEPT ![i].users = us], SweptSubs(s), NoneTold, Nothing)
      BY <1>3, <1>7, <2>4, <2>8 DEF LeaveRequest
    <3>2. i \in 1 .. Len(cs) /\ GoodUsers(us)
      BY <1>4, <1>5, <2>8, ChannelUsers, RemoveUserGood
    <3>3. Count(us) = 0 => us.items = <<>>
      <4>1. us.items \in Seq(Pointers) /\ us.debt \in Nat /\ (us.debt > 0 => us.items = <<>>)
        BY <3>2 DEF GoodUsers, CountedArrays, WellCounted
      <4> HIDE DEF us
      <4>2. Len(us.items) = 0 => us.items = <<>>
        BY <4>1
      <4> QED
        BY <4>1, <4>2 DEF Count
    <3> HIDE DEF us, i
    <3>4. /\ Remains(cs, i, us, [cs EXCEPT ![i].users = us])
          /\ us.items = <<>> => Remains(cs, i, us, remove_chnl(cs, i))
      BY <1>4, <3>2, SetRemains
    <3>5. GoodChannels([cs EXCEPT ![i].users = us]) /\ GoodChannels(remove_chnl(cs, i))
      BY <1>4, <3>2, SetUsersGood, RemoveChannelGood
    <3> QED
      BY <2>6, <3>1, <3>3, <3>4, <3>5
  <2> QED
    BY <2>7, <2>8
<1> QED
  BY <1>6, <1>7

\* A leave, of the first entry of that name in the client's list.
LEMMA LeaveStepsMembers ==
  ASSUME Careful, Booked, NEW c \in Clients, NEW ch \in ChannelNames, LeaveCommand(c, ch)
  PROVE  Members' /\ Sessions'
<1> DEFINE q == sess[c].joined
           i == SelectInSeq(q, LAMBDA name : name = ch)
           I == {k \in 1 .. Len(q) : q[k] = ch}
           js == RemoveAt(q, i)
<1>1. sess[c] \in Session /\ q \in Seq(ChannelNames) /\ SessOK /\ Sessions
  BY DEF Booked, SessOK, Session
<1>2. sess[c].phase = "on" /\ i # 0
  BY DEF LeaveCommand, Types
<1>3. i = IF I # {} THEN Min(I) ELSE 0
  BY DEF SelectInSeq
<1>4. I \in SUBSET (1 .. Len(q)) /\ Len(q) \in Nat /\ DOMAIN q = 1 .. Len(q)
  BY <1>1
<1>5. i \in 1 .. Len(q) /\ q[i] = ch
  BY <1>2, <1>3, <1>4, MinOfPositions
<1>6. Turns(c, "on", js)
  BY <1>1, <1>2 DEF LeaveCommand, Turns, OnlyOf, SessOK, Session
<1>7. IF alive[Home[c]] THEN LeaveRequest(Home[c], c, ch) ELSE UNCHANGED serverVars
  BY DEF LeaveCommand, Handled, LostRequest, Careful
<1> HIDE DEF i, I
<1>8. NoRepeats(q)
  BY <1>1 DEF Sessions
<1> HIDE DEF q
<1>9. NoRepeats(js) /\ Range(js) = Range(q) \ {ch}
  BY <1>1, <1>5, <1>8, Removed
<1>10. ch \in Range(q)
  BY <1>4, <1>5 DEF Range
<1> HIDE DEF js
<1>11. Members'
  BY <1>2, <1>6, <1>7, <1>9, <1>10, LeaveMembers DEF q
<1>12. Sessions'
  BY <1>1, <1>6, <1>9, TurnsSessions
<1> QED
  BY <1>11, <1>12

\* A logout.
LEMMA LogoutMembers ==
  ASSUME Careful, Booked, NEW c \in Clients, LogoutCommand(c)
  PROVE  Members' /\ Sessions'
<1> DEFINE s == Home[c]
           cs == chans[s]
<1>1. s \in Servers /\ ServerOK /\ Members /\ Sessions /\ SessOK /\ sess[c] \in Session
  BY ChatSystemAssumption DEF Booked, SessOK
<1>2. sess[c].phase = "on" /\ "logout" \in Commands
  BY DEF LogoutCommand
<1>3. Turns(c, "out", sess[c].joined)
  BY <1>1 DEF LogoutCommand, Turns, OnlyOf, SessOK, Session
<1>4. Sessions'
  BY <1>1, <1>3, TurnsSessions DEF Sessions
<1>5. IF alive[s] THEN LogoutRequest(s, c) ELSE UNCHANGED serverVars
  BY DEF LogoutCommand, Handled, LostRequest, Careful
<1>6. \A d \in Clients : Home[d] # s => sess'[d] = sess[d]
  BY <1>3 DEF Turns, OnlyOf
<1>7. CASE Dies(s) \/ ~alive[s]
  BY <1>1, <1>4, <1>5, <1>6, <1>7, DeadMembers DEF ServerOK, LoopOK
<1>8. CASE ~Dies(s) /\ alive[s]
  <2>1. Accounts(s, cs, all_users[s], freed[s], sess)
    BY <1>1, <1>8 DEF Members
  <2>2. LoggedIn(s, c)
    <3>1. c \in Range(all_users[s].items)
      BY <1>2, <2>1 DEF Accounts, Logins
    <3> QED
      BY <3>1 DEF LoggedIn, Range
  <2> DEFINE p == u_pos(s, c)
             ds == AfterLogout(s, c)
  <2>3. /\ Resub(s, net, ds, SweptSubs(s), NoneTold, Nothing)
        /\ all_users' = [all_users EXCEPT ![s] = RemoveIndex(all_users[s], p)]
        /\ freed' = [freed EXCEPT ![s] = freed[s] \cup {c}]
    BY <1>5, <1>8, <2>2 DEF LogoutRequest, LogoutKnown
  <2>4. GoodChannels(cs) /\ freed[s] \in SUBSET Clients /\ all_users[s] \in CountedArrays(Clients)
    BY <1>1 DEF ServerOK, LoopOK, UsersOK
  <2>5. p \in 1 .. Len(all_users[s].items) /\ all_users[s].items[p] = c
    BY <1>1, <2>2, LoggedInPosition DEF ServerOK
  <2> HIDE DEF p
  <2>6. /\ Len(ds) = Len(cs)
        /\ \A k \in 1 .. Len(cs) :
             /\ ds[k].name = cs[k].name
             /\ ds[k].users = remove_user(cs[k].users, Username[c], freed[s])
    <3> DEFINE vs == [k \in DOMAIN cs |-> remove_user(cs[k].users, Username[c], freed[s])]
               es == [k \in DOMAIN cs |-> [cs[k] EXCEPT !.users = vs[k]]]
    <3>1. Len(es) = Len(cs) /\ \A k \in 1 .. Len(cs) : es[k].name = cs[k].name /\ es[k].users = vs[k]
      BY <2>4, MapUsers
    <3>2. DOMAIN cs = 1 .. Len(cs)
      BY <2>4 DEF GoodChannels
    <3>3. es = ds
      BY DEF AfterLogout
    <3> HIDE DEF es, ds
    <3> QED
      BY <3>1, <3>2, <3>3
  <2>7. GoodChannels(ds)
    BY <1>1, AfterLogoutGood DEF ServerOK
  <2> HIDE DEF ds
  <2>8. Accounts(s, ds, RemoveIndex(all_users[s], p), freed[s] \cup {c}, sess')
    <3>1. OwnNames /\ Home[c] = s /\ sess'[c].phase = "out" /\ OnlyOf(c, sess, sess')
      BY <1>3 DEF Careful, Turns
    <3> HIDE DEF s
    <3> QED
      BY <1>2, <2>1, <2>4, <2>5, <2>6, <3>1, LogoutAccounts
  <2>9. Yields(s, ds, RemoveIndex(all_users[s], p), freed[s] \cup {c})
    BY <1>1, <2>3, <2>7, ResubYields
  <2> QED
    BY <1>1, <1>4, <1>6, <2>8, <2>9, YieldsMembers
<1> QED
  BY <1>7, <1>8

\* Requests that change no table of users.
LEMMA RequestYields ==
  ASSUME ServerOK, NEW s \in Servers, NEW c, NEW ch, NEW id,
         SayRequest(s, c, ch, id) \/ WhoRequest(s, ch) \/ ListRequest(s) \/ Idle(s)
  PROVE  Yields(s, chans[s], all_users[s], freed[s])
<1>1. GoodChannels(chans[s])
  BY DEF ServerOK, LoopOK
<1>2. ASSUME NEW out,
             \/ Record(s, net, chans[s], SweptSubs(s), NoneTold, out)
             \/ Resub(s, net, chans[s], SweptSubs(s), NoneTold, out),
             UNCHANGED <<all_users, freed>>
      PROVE  Yields(s, chans[s], all_users[s], freed[s])
  BY <1>1, <1>2, PlainYields
<1>3. CASE Dies(s)
  BY <1>3, DiesYields
<1>4. CASE ~Dies(s) /\ SayRequest(s, c, ch, id)
  <2>1. /\ Resub(s, net, chans[s], SweptSubs(s), NoneTold,
                 ToEach(SubscribersIn(SweptSubs(s), s, ch), Say(ch, id)))
        /\ UNCHANGED <<all_users, freed>>
    BY <1>4 DEF SayRequest
  <2> QED
    BY <1>2, <2>1
<1>5. CASE ~Dies(s) /\ WhoRequest(s, ch)
  <2>1. /\ \/ Record(s, net, chans[s], SweptSubs(s), NoneTold, Nothing)
           \/ Resub(s, net, chans[s], SweptSubs(s), NoneTold, Nothing)
        /\ UNCHANGED <<all_users, freed>>
    BY <1>5 DEF WhoRequest
  <2> QED
    BY <1>2, <2>1
<1>6. CASE ListRequest(s) \/ Idle(s)
  BY <1>2, <1>6 DEF ListRequest, Idle
<1> QED
  BY <1>3, <1>4, <1>5, <1>6

\* A message of a neighbour may bring a channel that nobody here is in.
LEMMA ReceiveYields ==
  ASSUME ServerOK, NEW s \in Servers, NEW t \in Servers, Receive(s, t)
  PROVE  \/ Yields(s, chans[s], all_users[s], freed[s])
         \/ \E ch \in ChannelNames : Yields(s, add_chnl(chans[s], ch), all_users[s], freed[s])
<1> DEFINE m == Head(net[t][s])
           nw == [net EXCEPT ![t][s] = Tail(@)]
<1>1. GoodChannels(chans[s]) /\ m \in Message
  BY ReadTypes DEF ServerOK, LoopOK, Receive
<1>2. ASSUME NEW cs, GoodChannels(cs), NEW sb, NEW told, NEW out,
             \/ Record(s, nw, cs, sb, told, out)
             \/ Resub(s, nw, cs, sb, told, out),
             UNCHANGED <<all_users, freed>>
      PROVE  Yields(s, cs, all_users[s], freed[s])
  BY <1>2, PlainYields
<1>3. \/ m.type = "join" /\ ServJoin(s, t, nw, m.chan)
      \/ ServLeave(s, t, nw)
      \/ m.type = "say" /\ ServSay(s, t, nw, m.chan, m.id)
  BY DEF Receive
<1> HIDE DEF m, nw
<1>4. CASE Dies(s)
  BY <1>4, DiesYields
<1>5. CASE m.type = "join" /\ ServJoin(s, t, nw, m.chan)
  <2> DEFINE ch == m.chan
             cs == IF HasChannel(chans[s], ch) THEN chans[s] ELSE add_chnl(chans[s], ch)
  <2>1. ch \in ChannelNames
    BY <1>1, <1>5 DEF Message
  <2>2. /\ Resub(s, nw, cs, [SweptSubs(s) EXCEPT ![t] = Resubscribe(@, ch)],
                 [NoneTold EXCEPT ![t] = {ch}], Announce(s, t, ch))
        /\ UNCHANGED <<all_users, freed>>
    BY <1>5 DEF ServJoin
  <2> HIDE DEF ch
  <2>3. GoodChannels(cs)
    BY <1>1, <2>1, AddChannelGood
  <2>4. Yields(s, cs, all_users[s], freed[s])
    BY <1>2, <2>2, <2>3
  <2> QED
    BY <2>1, <2>4
<1>6. CASE ~Dies(s) /\ ServLeave(s, t, nw)
  <2>1. /\ Resub(s, nw, chans[s], [SweptSubs(s) EXCEPT ![t] = remove_adj_channel(@)], NoneTold, Nothing)
        /\ UNCHANGED <<all_users, freed>>
    BY <1>6 DEF ServLeave
  <2> QED
    BY <1>1, <1>2, <2>1
<1>7. CASE ~Dies(s) /\ ServSay(s, t, nw, m.chan, m.id)
  <2>1. /\ UNCHANGED <<all_users, freed>>
        /\ \/ Resub(s, nw, chans[s], SweptSubs(s), NoneTold, ToEach({t}, Leave(m.chan)))
           \/ Resub(s, nw, chans[s], SweptSubs(s), NoneTold,
                    ToEach(ForwardTo(SweptSubs(s), s, t, m.chan), Say(m.chan, m.id)))
    BY <1>7 DEF ServSay
  <2> QED
    BY <1>1, <1>2, <2>1
<1> QED
  BY <1>3, <1>4, <1>5, <1>6, <1>7

\* Iterations that leave the users of s alone, while the sessions keep their phases and
\* channels.
LEMMA YieldsPlainly ==
  ASSUME ServerOK, Members, NEW s \in Servers,
         \/ Yields(s, chans[s], all_users[s], freed[s])
         \/ \E ch \in ChannelNames : Yields(s, add_chnl(chans[s], ch), all_users[s], freed[s]),
         \A c \in Clients : Home[c] # s => sess'[c] = sess[c],
         \A c \in Clients : sess'[c].phase = sess[c].phase /\ sess'[c].joined = sess[c].joined
  PROVE  Members'
<1>1. GoodChannels(chans[s]) /\ freed[s] \in SUBSET Clients /\ all_users[s] \in CountedArrays(Clients)
  BY DEF ServerOK, LoopOK, UsersOK
<1>2. alive'[s] => Accounts(s, chans[s], all_users[s], freed[s], sess)
  BY DEF Yields, Members
<1>3. alive'[s] => Accounts(s, chans[s], all_users[s], freed[s], sess')
  BY <1>1, <1>2, SameSessions
<1>4. \A ch \in ChannelNames :
        alive'[s] => Accounts(s, add_chnl(chans[s], ch), all_users[s], freed[s], sess')
  BY <1>1, <1>3, AddedAccounts
<1> QED
  BY <1>3, <1>4, YieldsMembers

\* Commands that change neither phase nor channels.
LEMMA OtherCommandsMembers ==
  ASSUME Careful, Booked, NEW c \in Clients,
         \/ \E ch \in ChannelNames : SwitchCommand(c, ch) \/ WhoCommand(c, ch)
         \/ \E id \in Ids : SayCommand(c, id)
         \/ ListCommand(c)
  PROVE  Members' /\ Sessions'
<1> DEFINE s == Home[c]
<1>1. s \in Servers /\ ServerOK /\ Members /\ Sessions /\ SessOK /\ sess[c] \in Session
  BY ChatSystemAssumption DEF Booked, SessOK
<1>2. Turns(c, sess[c].phase, sess[c].joined)
  <2>1. ASSUME NEW ch \in ChannelNames, SwitchCommand(c, ch)
        PROVE  Turns(c, sess[c].phase, sess[c].joined)
    BY <1>1, <2>1 DEF SwitchCommand, Turns, OnlyOf, SessOK, Session
  <2>2. ASSUME sess' = [sess EXCEPT ![c].typed = Typed(c)]
        PROVE  Turns(c, sess[c].phase, sess[c].joined)
    BY <1>1, <2>2 DEF Turns, OnlyOf, SessOK, Session
  <2> QED
    BY <2>1, <2>2 DEF WhoCommand, SayCommand, ListCommand
<1>3. Sessions'
  BY <1>1, <1>2, TurnsSessions DEF Sessions
<1>4. /\ \A d \in Clients : Home[d] # s => sess'[d] = sess[d]
      /\ \A d \in Clients : sess'[d].phase = sess[d].phase /\ sess'[d].joined = sess[d].joined
  BY <1>2 DEF Turns, OnlyOf
<1>5. \/ UNCHANGED serverVars
      \/ \E ch \in ChannelNames : WhoRequest(s, ch)
      \/ \E id \in Ids : SayRequest(s, c, sess[c].active, id)
      \/ ListRequest(s)
  BY DEF SwitchCommand, WhoCommand, SayCommand, ListCommand, Handled, LostRequest
<1> HIDE DEF s
<1>6. CASE UNCHANGED serverVars
  <2>1. Yields(s, chans[s], all_users[s], freed[s])
    <3>1. GoodChannels(chans[s])
      BY <1>1 DEF ServerOK, LoopOK
    <3>2. SameUsers(chans[s], chans[s])
      BY <3>1, ClocksOnly
    <3> QED
      BY <1>6, <3>2 DEF Yields, serverVars
  <2> QED
    BY <1>1, <1>3, <1>4, <2>1, YieldsPlainly
<1>7. CASE ~UNCHANGED serverVars
  <2>1. Yields(s, chans[s], all_users[s], freed[s])
    BY <1>1, <1>5, <1>7, RequestYields
  <2> QED
    BY <1>1, <1>3, <1>4, <2>1, YieldsPlainly
<1> QED
  BY <1>6, <1>7

\* Time passes for all servers.
LEMMA TickMembers ==
  ASSUME ServerOK, Members, Tick, UNCHANGED sess
  PROVE  Members'
<1> SUFFICES ASSUME NEW s \in Servers, alive'[s]
             PROVE  Accounts(s, chans'[s], all_users'[s], freed'[s], sess')
  BY DEF Members
<1>1. /\ alive[s] /\ chans'[s] = AgedChannels(chans[s])
      /\ all_users'[s] = all_users[s] /\ freed'[s] = freed[s] /\ sess' = sess
  BY DEF Tick
<1>2. Accounts(s, chans[s], all_users[s], freed[s], sess) /\ GoodChannels(chans[s])
  BY <1>1 DEF Members, ServerOK, LoopOK
<1>3. Accounts(s, AgedChannels(chans[s]), all_users[s], freed[s], sess)
  BY <1>2, ClocksOnly, SameAccounts
<1> QED
  BY <1>1, <1>3

\* Every step.
LEMMA NextMembers ==
  ASSUME Careful, Booked, [Next]_vars
  PROVE  Members' /\ Sessions'
<1>1. ServerOK /\ SessOK /\ Members /\ Sessions
  BY DEF Booked
<1>2. UNCHANGED sess => Sessions'
  BY <1>1 DEF Sessions
<1>3. ASSUME UNCHANGED <<alive, chans, all_users, freed, sess>> PROVE Members' /\ Sessions'
  BY <1>1, <1>2, <1>3 DEF Members
<1>4. ASSUME NEW s \in Servers, UNCHANGED sess,
             \/ Yields(s, chans[s], all_users[s], freed[s])
             \/ \E ch \in ChannelNames : Yields(s, add_chnl(chans[s], ch), all_users[s], freed[s])
      PROVE  Members' /\ Sessions'
  BY <1>1, <1>2, <1>4, YieldsPlainly
<1>5. ASSUME NEW c \in Clients, ClientStep(c) PROVE Members' /\ Sessions'
  BY <1>5, LoginMembers, JoinStepsMembers, LeaveStepsMembers, LogoutMembers, OtherCommandsMembers
     DEF ClientStep
<1>6. ASSUME NEW s \in Servers, NEW t \in Servers, ServerReceive(s, t) PROVE Members' /\ Sessions'
  BY <1>1, <1>4, <1>6, ReceiveYields DEF ServerReceive
<1>7. ASSUME NEW s \in Servers, ServerIdle(s) \/ ServerKilled(s) PROVE Members' /\ Sessions'
  <2>1. UNCHANGED sess /\ (Idle(s) \/ Dies(s))
    BY <1>7 DEF ServerIdle, ServerKilled, Kill, Fault
  <2>2. Yields(s, chans[s], all_users[s], freed[s])
    BY <1>1, <2>1, RequestYields, DiesYields
  <2> QED
    BY <1>4, <2>1, <2>2
<1>8. ASSUME NEW s \in Servers, NEW t \in Servers,
             DatagramLost(s, t) \/ DatagramDuplicated(s, t) \/ DatagramOvertaken(s, t)
      PROVE  Members' /\ Sessions'
  <2>1. UNCHANGED <<alive, chans, all_users, freed, sess>>
    BY <1>8 DEF DatagramLost, DatagramDuplicated, DatagramOvertaken, Fault, Lose, Duplicate, Overtake
  <2> QED
    BY <1>3, <2>1
<1>9. CASE TimePasses
  BY <1>1, <1>2, <1>9, TickMembers DEF TimePasses
<1>10. CASE UNCHANGED vars
  BY <1>3, <1>10 DEF vars, serverVars
<1> QED
  BY <1>5, <1>6, <1>7, <1>8, <1>9, <1>10 DEF Next

\* Nobody is logged in at the start.
LEMMA InitMembers == Init => Members /\ Sessions
<1> SUFFICES ASSUME Init PROVE Members /\ Sessions
  OBVIOUS
<1>1. /\ \A s \in Servers : /\ chans[s] = <<create_channel(Common)>>
                            /\ all_users[s] = EmptyArray /\ freed[s] = {}
      /\ \A c \in Clients : sess[c].phase = "off" /\ sess[c].joined = <<Common>>
  BY DEF Init, ServerInit
<1>2. EmptyArray.items = <<>> /\ EmptyArray.debt = 0 /\ Range(EmptyArray.items) = {}
      /\ NoRepeats(EmptyArray.items) /\ ProperList(EmptyArray)
  BY DEF EmptyArray, Range, NoRepeats, ProperList, GoodUsers, CountedArrays, WellCounted
<1>3. ASSUME NEW s \in Servers PROVE Accounts(s, chans[s], all_users[s], freed[s], sess)
  <2> DEFINE cs == chans[s]
  <2>1. Len(cs) = 1 /\ cs[1].users = EmptyArray
    BY <1>1 DEF create_channel
  <2> HIDE DEF cs
  <2>2. \A k \in 1 .. Len(cs) : k = 1 /\ cs[k].users = EmptyArray
    BY <2>1
  <2>3. Lists(s, cs, sess)
    BY <1>2, <2>2 DEF Lists, Listed
  <2>4. EveryoneIn(s, cs, sess)
    <3>1. \A k \in 1 .. Len(cs) : cs[k].users.debt = 0
      BY <1>2, <2>2
    <3>2. \A c \in Clients : sess[c].phase # "on"
      BY <1>1
    <3> QED
      BY <3>1, <3>2 DEF EveryoneIn
  <2>5. Logins(s, all_users[s], freed[s], sess)
    BY <1>1, <1>2 DEF Logins
  <2> QED
    BY <2>3, <2>4, <2>5 DEF Accounts, cs
<1>4. NoRepeats(<<Common>>)
  BY DEF NoRepeats
<1> QED
  BY <1>1, <1>3, <1>4 DEF Members, Sessions

\* So the accounts are right in every state.
LEMMA BookedAlways ==
  ASSUME Careful
  PROVE  Spec => []Booked
<1> DEFINE Inv == Booked /\ faults \in 0 .. MaxFaults
<1>1. Init => Inv
  <2> SUFFICES ASSUME Init PROVE Inv
    OBVIOUS
  <2>1. ServerOK /\ SessOK /\ faults \in 0 .. MaxFaults
    BY InitOK
  <2>2. NamesDistinct
    BY InitDistinct
  <2> QED
    BY <2>1, <2>2, InitMembers DEF Booked
<1>2. Inv /\ [Next]_vars => Inv'
  <2> SUFFICES ASSUME Inv, [Next]_vars PROVE Inv'
    OBVIOUS
  <2>1. ServerOK' /\ SessOK' /\ faults' \in 0 .. MaxFaults
    BY NextOK DEF Booked
  <2>2. NamesDistinct'
    BY NextDistinct DEF Booked
  <2> QED
    BY <2>1, <2>2, NextMembers DEF Booked
<1> QED
  BY <1>1, <1>2, PTL DEF Spec

--------------------------------------------------------------------------------
(* What the invariant says of the tables *)

\* A list without repetitions is no longer than one that has all its elements.
LEMMA Fits ==
  ASSUME NEW S, NEW q \in Seq(S), NEW r \in Seq(S), NoRepeats(q), Range(q) \subseteq Range(r)
  PROVE  Len(q) <= Len(r)
<1> DEFINE m == Len(q)
           n == Len(r)
           f == [k \in 1 .. m |-> CHOOSE j \in 1 .. n : r[j] = q[k]]
<1>1. m \in Nat /\ n \in Nat /\ DOMAIN q = 1 .. m /\ DOMAIN r = 1 .. n
  OBVIOUS
<1>2. \A i, j \in 1 .. m : q[i] = q[j] => i = j
  BY DEF NoRepeats
<1> HIDE DEF m, n
<1>3. \A k \in 1 .. m : \E j \in 1 .. n : r[j] = q[k]
  BY <1>1 DEF Range
<1>4. f \in [1 .. m -> 1 .. n] /\ \A k \in 1 .. m : r[f[k]] = q[k]
  BY <1>3
<1> HIDE DEF f
<1>5. /\ IsFiniteSet(1 .. m) /\ Cardinality(1 .. m) = m
      /\ IsFiniteSet(1 .. n) /\ Cardinality(1 .. n) = n
  BY <1>1, FS_Interval
<1>6. ~(n < m)
  <2> SUFFICES ASSUME n < m PROVE FALSE
    OBVIOUS
  <2> DEFINE A == 1 .. m
             B == 1 .. n
  <2>1. /\ IsFiniteSet(A) /\ IsFiniteSet(B) /\ f \in [A -> B]
        /\ Cardinality(B) < Cardinality(A)
    BY <1>4, <1>5
  <2>2. \E x, y \in A : x # y /\ f[x] = f[y]
    <3> HIDE DEF A, B
    <3> QED
      BY ONLY <2>1, FS_PigeonHole
  <2>3. PICK x, y \in 1 .. m : x # y /\ f[x] = f[y]
    BY <2>2
  <2> QED
    BY <1>2, <1>4, <2>3
<1>7. m <= n
  BY <1>1, <1>6
<1> QED
  BY <1>7 DEF m, n

\* The users of any channel are logged in, and their chunks in use.
LEMMA ListedAreIn ==
  ASSUME NEW s, NEW cs, NEW au, NEW fr, NEW ss, Accounts(s, cs, au, fr, ss), NEW i \in 1 .. Len(cs)
  PROVE  /\ ProperList(cs[i].users)
         /\ Range(cs[i].users.items) \subseteq Range(au.items) \ fr
<1>1. Listed(s, cs[i].name, cs[i].users, ss) /\ Logins(s, au, fr, ss)
  BY DEF Accounts, Lists
<1>2. ASSUME NEW c \in Range(cs[i].users.items) PROVE c \in Range(au.items) \ fr
  <2>1. c \in Clients
    BY <1>1 DEF Listed, ProperList, Range
  <2>2. Home[c] = s /\ ss[c].phase = "on"
    BY <1>1 DEF Listed
  <2> QED
    BY <1>1, <2>1, <2>2 DEF Logins
<1> QED
  BY <1>1, <1>2 DEF Listed

\* If nobody joins a channel twice, no two users share a name and every request arrives,
\* then no logout or removal leaves a pointer to a freed User, or to none, in a channel
\* of a server that runs: with any faults between the servers and at any time.
THEOREM NoDanglingUsers ==
  ASSUME OwnNames, ~Rejoin, "lostRequest" \notin Faults
  PROVE  Spec => []PointersAreLive
<1>1. Booked => PointersAreLive
  <2> SUFFICES ASSUME Booked, NEW s \in Servers, alive[s], NEW i \in DOMAIN chans[s]
               PROVE  Range(chans[s][i].users.items) \subseteq Range(all_users[s].items) \ freed[s]
    BY DEF PointersAreLive
  <2>1. Accounts(s, chans[s], all_users[s], freed[s], sess)
    BY DEF Booked, Members
  <2>2. i \in 1 .. Len(chans[s])
    BY DEF Booked, ServerOK, LoopOK, GoodChannels
  <2> QED
    BY <2>1, <2>2, ListedAreIn
<1>2. Spec => []Booked
  BY BookedAlways DEF Careful
<1> QED
  BY <1>1, <1>2, PTL

\* So the answer to WHO has room for them.
LEMMA BookedFits == Booked => WhoFits
<1> SUFFICES ASSUME Booked, NEW s \in Servers, alive[s], NEW i \in DOMAIN chans[s]
             PROVE  Len(chans[s][i].users.items) <= Count(all_users[s])
  BY DEF WhoFits
<1>1. Accounts(s, chans[s], all_users[s], freed[s], sess)
  BY DEF Booked, Members
<1>2. i \in 1 .. Len(chans[s]) /\ all_users[s].items \in Seq(Clients)
  BY DEF Booked, ServerOK, LoopOK, UsersOK, GoodChannels, CountedArrays
<1>3. ProperList(chans[s][i].users)
      /\ Range(chans[s][i].users.items) \subseteq Range(all_users[s].items)
  BY <1>1, <1>2, ListedAreIn
<1>4. Len(chans[s][i].users.items) <= Len(all_users[s].items)
  BY <1>2, <1>3, Fits DEF ProperList
<1>5. Count(all_users[s]) = Len(all_users[s].items)
  BY <1>1, <1>2 DEF Count, Accounts, Logins
<1> QED
  BY <1>4, <1>5

\* Under the same assumptions the answer to WHO, which server.c:205 lays out for the
\* users logged in, has room for the users of any channel.
THEOREM WhoHasRoom ==
  ASSUME OwnNames, ~Rejoin, "lostRequest" \notin Faults
  PROVE  Spec => []WhoFits
<1>1. Spec => []Booked
  BY BookedAlways DEF Careful
<1> QED
  BY <1>1, BookedFits, PTL

\* And as long as no user of a server has logged out, the server and its clients agree on
\* the channels they are in, through channels that come and go with their users and
\* with the Joins of other servers.
THEOREM ClientAndServerAgree ==
  ASSUME OwnNames, ~Rejoin, "lostRequest" \notin Faults
  PROVE  Spec => []MembersAgree
<1>1. Booked => MembersAgree
  <2> SUFFICES ASSUME Booked, NEW c \in Clients, alive[Home[c]], sess[c].phase = "on",
                      NobodyLeft(Home[c]), NEW ch \in ChannelNames
               PROVE  c \in Range(UsersOf(Home[c], ch).items) <=> ch \in Range(sess[c].joined)
    BY DEF MembersAgree
  <2> DEFINE s == Home[c]
             cs == chans[s]
             i == find_channel(cs, ch)
  <2>1. s \in Servers /\ ServerOK /\ NamesDistinct /\ Members
    BY ChatSystemAssumption DEF Booked
  <2>2. Accounts(s, cs, all_users[s], freed[s], sess) /\ EveryoneIn(s, cs, sess)
    BY <2>1 DEF Members, Accounts, NobodyLeft, NobodyOut
  <2>3. GoodChannels(cs) /\ DistinctNames(cs)
    BY <2>1 DEF ServerOK, LoopOK, NamesDistinct
  <2>4. /\ HasChannel(cs, ch) => i \in 1 .. Len(cs)
        /\ \A j \in 1 .. Len(cs) : cs[j].name = ch <=> j = i
    BY <2>3, FoundOnce
  <2>5. UsersOf(s, ch) = IF HasChannel(cs, ch) THEN cs[i].users ELSE EmptyArray
    BY DEF UsersOf
  <2>6. HasChannel(cs, ch) <=> i # 0
    BY DEF HasChannel
  <2>7. ASSUME c \in Range(UsersOf(s, ch).items) PROVE ch \in Range(sess[c].joined)
    <3>1. HasChannel(cs, ch)
      BY <2>5, <2>7 DEF EmptyArray, Range
    <3>2. Listed(s, ch, UsersOf(s, ch), sess)
      BY <2>2, <2>4, <2>5, <3>1 DEF Accounts, Lists
    <3> QED
      BY <2>7, <3>2 DEF Listed
  <2>8. ASSUME ch \in Range(sess[c].joined) PROVE c \in Range(UsersOf(s, ch).items)
    <3>1. PICK j \in 1 .. Len(cs) : cs[j].name = ch /\ c \in Range(cs[j].users.items)
      BY <2>2, <2>8 DEF EveryoneIn
    <3>2. j = i /\ j # 0
      BY <2>4, <3>1
    <3> QED
      BY <2>5, <2>6, <3>1, <3>2
  <2> QED
    BY <2>7, <2>8
<1>2. Spec => []Booked
  BY BookedAlways DEF Careful
<1> QED
  BY <1>1, <1>2, PTL

--------------------------------------------------------------------------------
(* Who is shown a Say *)

\* The receivers of a text of server s: clients of s, none of them twice.
Receivers(s, to) == to \in Seq(Clients) /\ NoRepeats(to) /\ \A c \in Range(to) : Home[c] = s

\* A step of a server takes in no Say, or one whose id is new to it and that it
\* shows to its own clients.
ShowStep(s) ==
  \/ log'[s] = log[s]
  \/ \E e \in LogEntry :
       /\ log'[s] = Append(log[s], e)
       /\ Receivers(s, e.to)
       /\ (FreshIds => e.id \notin Generated) \/ e.id \notin RecentIds(s)

\* No two Says that s accepted have the same id.
IdsApart(s) == \A i, j \in 1 .. Len(log[s]) : log[s][i].id = log[s][j].id => i = j

\* The invariant, for a server that never overran recent_ids.
ShownApart(s) ==
  /\ IdsApart(s)
  /\ \A i \in 1 .. Len(log[s]) : Receivers(s, log[s][i].to)

\* A text goes to the users of its channel.
LEMMA UsersReceive ==
  ASSUME Booked, NEW s \in Servers, alive[s], NEW ch \in ChannelNames
  PROVE  Receivers(s, UsersOf(s, ch).items) /\ Receivers(s, <<>>)
<1>1. Receivers(s, <<>>)
  BY DEF Receivers, NoRepeats, Range
<1>2. CASE HasChannel(chans[s], ch)
  <2> DEFINE i == find_channel(chans[s], ch)
  <2>1. GoodChannels(chans[s]) /\ DistinctNames(chans[s])
    BY DEF Booked, ServerOK, LoopOK, NamesDistinct
  <2>2. i \in 1 .. Len(chans[s])
    BY <1>2, <2>1, FoundOnce
  <2>3. Listed(s, chans[s][i].name, chans[s][i].users, sess)
    BY <2>2 DEF Booked, Members, Accounts, Lists
  <2>4. UsersOf(s, ch) = chans[s][i].users
    BY <1>2 DEF UsersOf
  <2> HIDE DEF i
  <2> QED
    BY <1>1, <2>3, <2>4 DEF Listed, ProperList, Receivers
<1>3. CASE ~HasChannel(chans[s], ch)
  BY <1>1, <1>3 DEF UsersOf, EmptyArray
<1> QED
  BY <1>2, <1>3

\* One entry more.
LEMMA AppendShows ==
  ASSUME LogOK, NEW s \in Servers, NEW p \in Servers, NEW e \in LogEntry,
         log' = [log EXCEPT ![s] = Append(log[s], e)], Receivers(s, e.to),
         (FreshIds => e.id \notin Generated) \/ e.id \notin RecentIds(s)
  PROVE  ShowStep(p)
BY DEF LogOK, ShowStep

\* The Say of a client.
LEMMA SayShows ==
  ASSUME Booked, NEW s \in Servers, alive[s], NEW c \in Clients, NEW ch \in ChannelNames,
         NEW id \in Ids, SayRequest(s, c, ch, id), NEW p \in Servers
  PROVE  ShowStep(p)
<1> DEFINE fwd == SubscribersIn(SweptSubs(s), s, ch)
           entry == [id |-> id, chan |-> ch, own |-> TRUE, fwd |-> fwd,
                     to |-> UsersOf(s, ch).items]
<1>1. CASE Dies(s)
  BY <1>1 DEF Dies, ShowStep
<1>2. CASE ~Dies(s)
  <2>1. log' = [log EXCEPT ![s] = Append(log[s], entry)] /\ (FreshIds => id \notin Generated)
    BY <1>2 DEF SayRequest
  <2>2. fwd \in SUBSET Servers
    BY ChatServerAssumption DEF SubscribersIn
  <2>3. UsersOf(s, ch).items \in Seq(Pointers)
    BY UsersOfGood DEF Booked, ServerOK, GoodUsers, CountedArrays
  <2>4. entry \in LogEntry /\ entry.id = id /\ entry.to = UsersOf(s, ch).items
    BY <2>2, <2>3 DEF LogEntry
  <2> HIDE DEF entry
  <2> QED
    BY <2>1, <2>4, UsersReceive, AppendShows DEF Booked, ServerOK
<1> QED
  BY <1>1, <1>2

\* The Say of a neighbour.
LEMMA ServSayShows ==
  ASSUME Booked, NEW s \in Servers, alive[s], NEW t \in Servers, NEW nw, NEW ch \in ChannelNames,
         NEW id \in Ids, ServSay(s, t, nw, ch, id), NEW p \in Servers
  PROVE  ShowStep(p)
<1> DEFINE fwd == ForwardTo(SweptSubs(s), s, t, ch)
           Entry(to, servers) == [id |-> id, chan |-> ch, own |-> FALSE, to |-> to, fwd |-> servers]
<1>1. CASE UNCHANGED log
  BY <1>1 DEF ShowStep
<1>2. ASSUME NEW to \in Seq(Pointers), NEW servers \in SUBSET Servers, id \notin RecentIds(s),
             Receivers(s, to), log' = [log EXCEPT ![s] = Append(log[s], Entry(to, servers))]
      PROVE  ShowStep(p)
  <2>1. Entry(to, servers) \in LogEntry /\ Entry(to, servers).id = id /\ Entry(to, servers).to = to
    BY DEF LogEntry
  <2> HIDE DEF Entry
  <2> QED
    BY <1>2, <2>1, AppendShows DEF Booked, ServerOK
<1>3. UsersOf(s, ch).items \in Seq(Pointers) /\ <<>> \in Seq(Pointers)
  BY UsersOfGood DEF Booked, ServerOK, GoodUsers, CountedArrays
<1>4. fwd \in SUBSET Servers /\ {} \in SUBSET Servers
  BY ChatServerAssumption DEF ForwardTo, SubscribersIn
<1>5. Receivers(s, UsersOf(s, ch).items) /\ Receivers(s, <<>>)
  BY UsersReceive
<1>6. \/ UNCHANGED log
      \/ /\ id \notin RecentIds(s)
         /\ \/ log' = [log EXCEPT ![s] = Append(log[s], Entry(<<>>, {}))]
            \/ log' = [log EXCEPT ![s] = Append(log[s], Entry(UsersOf(s, ch).items, fwd))]
  BY DEF ServSay, Dies, MayMissId
<1> HIDE DEF fwd, Entry
<1> QED
  BY <1>1, <1>2, <1>3, <1>4, <1>5, <1>6

\* Every step.
LEMMA NextShows ==
  ASSUME Booked, [Next]_vars, NEW p \in Servers
  PROVE  ShowStep(p)
<1>1. CASE UNCHANGED log
  BY <1>1 DEF ShowStep
<1>2. ASSUME NEW c \in Clients, NEW id \in Ids, SayCommand(c, id) PROVE ShowStep(p)
  <2>1. sess[c].active \in ChannelNames /\ Home[c] \in Servers
    BY SessionTypes, ChatSystemAssumption DEF Session, Booked
  <2>2. UNCHANGED log \/ (alive[Home[c]] /\ SayRequest(Home[c], c, sess[c].active, id))
    BY <1>2 DEF SayCommand, Handled, LostRequest, serverVars
  <2> QED
    BY <1>1, <2>1, <2>2, SayShows
<1>3. ASSUME NEW s \in Servers, NEW t \in Servers, ServerReceive(s, t) PROVE ShowStep(p)
  <2> DEFINE m == Head(net[t][s])
             nw == [net EXCEPT ![t][s] = Tail(@)]
  <2>1. m \in Message
    BY <1>3, ReadTypes DEF ServerReceive, Receive, Booked
  <2>2. m.chan \in ChannelNames /\ (m.type = "say" => m.id \in Ids)
    BY <2>1 DEF Message
  <2>3. alive[s] /\ (UNCHANGED log \/ (m.type = "say" /\ ServSay(s, t, nw, m.chan, m.id)))
    BY <1>3 DEF ServerReceive, Receive, ServJoin, ServLeave, Dies
  <2> HIDE DEF m, nw
  <2> QED
    BY <1>1, <2>2, <2>3, ServSayShows
<1>4. ASSUME NEW c \in Clients, ClientStep(c), ~\E id \in Ids : SayCommand(c, id) PROVE UNCHANGED log
  BY <1>4 DEF ClientStep, Login, JoinCommon, JoinCommand, LeaveCommand, SwitchCommand, WhoCommand,
              ListCommand, LogoutCommand, Handled, LostRequest, LoginRequest, JoinRequest,
              LeaveRequest, WhoRequest, ListRequest, LogoutRequest, LogoutKnown, LogoutUnknown,
              Dies, serverVars
<1>5. ASSUME NEW s \in Servers, NEW t \in Servers,
             \/ ServerIdle(s) \/ ServerKilled(s) \/ DatagramLost(s, t)
             \/ DatagramDuplicated(s, t) \/ DatagramOvertaken(s, t) \/ TimePasses
      PROVE  UNCHANGED log
  BY <1>5 DEF ServerIdle, Idle, ServerKilled, Kill, Dies, DatagramLost, Lose, DatagramDuplicated,
              Duplicate, DatagramOvertaken, Overtake, TimePasses, Tick
<1>6. CASE UNCHANGED vars
  BY <1>1, <1>6 DEF vars, serverVars
<1>7. CASE Next
  BY <1>1, <1>2, <1>3, <1>4, <1>5, <1>7 DEF Next
<1> QED
  BY <1>6, <1>7

\* The invariant is kept for as long as recent_ids has room: the ids of a server's
\* own clients are new everywhere, and has_id finds any other it has seen.
LEMMA StaysApart ==
  ASSUME LogOK, FreshIds, NEW s \in Servers, ShowStep(s), ~OverRuns(s), ShownApart(s)
  PROVE  ShownApart(s)'
<1> DEFINE n == Len(log[s])
<1>1. log[s] \in Seq(LogEntry) /\ n \in Nat /\ DOMAIN log[s] = 1 .. n
  BY DEF LogOK
<1>2. \A i \in 1 .. n : log[s][i].id \in RecentIds(s) /\ log[s][i].id \in Generated
  <2>1. n <= MaxIds
    BY <1>1, ChatServerAssumption DEF OverRuns
  <2> QED
    BY <1>1, <2>1 DEF RecentIds, IdsOf, Generated
<1>3. CASE log'[s] = log[s]
  BY <1>3 DEF ShownApart, IdsApart
<1>4. ASSUME NEW e \in LogEntry, log'[s] = Append(log[s], e), Receivers(s, e.to),
             (FreshIds => e.id \notin Generated) \/ e.id \notin RecentIds(s)
      PROVE  ShownApart(s)'
  <2>1. /\ Len(log'[s]) = n + 1 /\ log'[s][n + 1] = e
        /\ \A i \in 1 .. n : log'[s][i] = log[s][i]
    BY <1>1, <1>4
  <2>2. \A i \in 1 .. n : log[s][i].id # e.id
    BY <1>2, <1>4
  <2>3. /\ \A i, j \in 1 .. n : log[s][i].id = log[s][j].id => i = j
        /\ \A i \in 1 .. n : Receivers(s, log[s][i].to)
    BY DEF ShownApart, IdsApart
  <2> HIDE DEF n
  <2>4. ASSUME NEW i \in 1 .. n + 1, NEW j \in 1 .. n + 1, log'[s][i].id = log'[s][j].id
        PROVE  i = j
    <3>1. n \in Nat
      BY <1>1
    <3>2. CASE i \in 1 .. n /\ j \in 1 .. n
      BY <2>1, <2>3, <2>4, <3>2
    <3>3. CASE i = n + 1 /\ j \in 1 .. n
      BY <2>1, <2>2, <2>4, <3>3
    <3>4. CASE j = n + 1 /\ i \in 1 .. n
      BY <2>1, <2>2, <2>4, <3>4
    <3> QED
      BY ONLY <3>1, <3>2, <3>3, <3>4, i \in 1 .. n + 1, j \in 1 .. n + 1
  <2>5. ASSUME NEW i \in 1 .. n + 1 PROVE Receivers(s, log'[s][i].to)
    BY <1>1, <1>4, <2>1, <2>3
  <2> QED
    BY <2>1, <2>4, <2>5 DEF ShownApart, IdsApart, Receivers
<1> QED
  BY <1>3, <1>4 DEF ShowStep

\* A log that is longer than recent_ids does not get shorter.
LEMMA OverRunsForGood ==
  ASSUME LogOK, NEW s \in Servers, ShowStep(s), OverRuns(s)
  PROVE  OverRuns(s)'
<1>1. log[s] \in Seq(LogEntry) /\ Len(log[s]) \in Nat /\ MaxIds \in Nat
  BY ChatServerAssumption DEF LogOK
<1>2. ASSUME NEW e \in LogEntry, log'[s] = Append(log[s], e) PROVE Len(log'[s]) > MaxIds
  <2>1. Len(log'[s]) = Len(log[s]) + 1
    BY <1>1, <1>2
  <2> QED
    BY <1>1, <2>1 DEF OverRuns
<1> QED
  BY <1>2 DEF ShowStep, OverRuns

\* A log is no longer than there are ids.
LEMMA LogFits ==
  ASSUME LogOK, IsFiniteSet(Ids), NEW s \in Servers, IdsApart(s)
  PROVE  /\ Len(log[s]) \in Nat /\ Cardinality(Ids) \in Nat
         /\ Len(log[s]) <= Cardinality(Ids)
<1> DEFINE n == Len(log[s])
           A == 1 .. n
           f == [k \in A |-> log[s][k].id]
<1>1. log[s] \in Seq(LogEntry) /\ n \in Nat /\ DOMAIN log[s] = 1 .. n
  BY DEF LogOK
<1>2. f \in [A -> Ids]
  <2>1. \A k \in A : log[s][k] \in LogEntry
    BY <1>1
  <2>2. \A k \in A : log[s][k].id \in Ids
    BY <2>1 DEF LogEntry
  <2> QED
    BY <2>2
<1>3. IsFiniteSet(A) /\ Cardinality(A) = n
  BY <1>1, FS_Interval
<1>4. \A i, j \in A : f[i] = f[j] => i = j
  BY DEF IdsApart
<1>5. Cardinality(Ids) \in Nat
  BY FS_CardinalityType
<1> HIDE DEF n, A, f
<1>6. ~(Cardinality(Ids) < Cardinality(A))
  <2> SUFFICES ASSUME Cardinality(Ids) < Cardinality(A) PROVE FALSE
    OBVIOUS
  <2>1. IsFiniteSet(Ids)
    OBVIOUS
  <2>2. \E i, j \in A : i # j /\ f[i] = f[j]
    BY ONLY <1>2, <1>3, <2>1, FS_PigeonHole, Cardinality(Ids) < Cardinality(A)
  <2> QED
    BY <1>4, <2>2
<1>7. n <= Cardinality(Ids)
  BY <1>1, <1>3, <1>5, <1>6
<1> QED
  BY <1>1, <1>5, <1>7 DEF n

\* No more ids than recent_ids has room for.
LEMMA FewIds ==
  ASSUME LogOK, IsFiniteSet(Ids), Cardinality(Ids) <= MaxIds, NEW s \in Servers, IdsApart(s)
  PROVE  ~OverRuns(s)
<1>1. Len(log[s]) \in Nat /\ Cardinality(Ids) \in Nat /\ Len(log[s]) <= Cardinality(Ids)
  BY LogFits
<1>2. MaxIds \in Nat
  BY ChatServerAssumption
<1> QED
  BY <1>1, <1>2 DEF OverRuns

\* A set whose elements are equal has at most one.
LEMMA AllEqual ==
  ASSUME NEW S, \A x, y \in S : x = y
  PROVE  Cardinality(S) <= 1
<1>1. CASE S = {}
  BY <1>1, FS_EmptySet
<1>2. ASSUME NEW x \in S PROVE Cardinality(S) <= 1
  <2>1. S = {x}
    OBVIOUS
  <2> QED
    BY <2>1, FS_Singleton
<1> QED
  BY <1>1, <1>2

\* Only the server of c shows c a text, and as long as it tells ids apart, once.
LEMMA ApartOnce ==
  ASSUME LogOK, \A s \in Servers : \A i \in 1 .. Len(log[s]) : Receivers(s, log[s][i].to),
         NEW c \in Clients, NEW id \in Ids, ShownApart(Home[c])
  PROVE  TextsTo(c, id) <= 1
<1> DEFINE A == 1 .. Cardinality(Ids)
           B == 1 .. 2 * Cardinality(Clients)
           Shows(s, i, k) == /\ i \in DOMAIN log[s] /\ log[s][i].id = id
                             /\ k \in DOMAIN log[s][i].to /\ log[s][i].to[k] = c
           T == {x \in Servers \X A \X B : Shows(x[1], x[2], x[3])}
<1>1. ASSUME NEW s \in Servers, NEW i, NEW k, Shows(s, i, k)
      PROVE  /\ s = Home[c] /\ i \in 1 .. Len(log[s]) /\ Receivers(s, log[s][i].to)
             /\ k \in 1 .. Len(log[s][i].to)
  <2>1. log[s] \in Seq(LogEntry) /\ DOMAIN log[s] = 1 .. Len(log[s])
    BY DEF LogOK
  <2>2. i \in 1 .. Len(log[s]) /\ Receivers(s, log[s][i].to)
    BY <1>1, <2>1
  <2>3. log[s][i].to \in Seq(Clients)
    BY <2>2 DEF Receivers
  <2>4. DOMAIN log[s][i].to = 1 .. Len(log[s][i].to)
    BY <2>3
  <2>5. c \in Range(log[s][i].to)
    BY <1>1 DEF Range
  <2> QED
    BY <1>1, <2>2, <2>4, <2>5 DEF Receivers
<1>2. ASSUME NEW s \in Servers, NEW i, NEW k, NEW t \in Servers, NEW j, NEW m,
             Shows(s, i, k), Shows(t, j, m)
      PROVE  s = t /\ i = j /\ k = m
  <2>1. /\ s = Home[c] /\ i \in 1 .. Len(log[s]) /\ Receivers(s, log[s][i].to)
        /\ k \in 1 .. Len(log[s][i].to)
    BY <1>1, <1>2
  <2>2. t = Home[c] /\ j \in 1 .. Len(log[t]) /\ m \in 1 .. Len(log[t][j].to)
    BY <1>1, <1>2
  <2>3. s = t /\ i = j
    BY <1>2, <2>1, <2>2 DEF ShownApart, IdsApart
  <2>4. log[s][i].to[k] = log[s][i].to[m]
    BY <1>2, <2>3
  <2> QED
    BY <2>1, <2>2, <2>3, <2>4 DEF Receivers, NoRepeats
<1> HIDE DEF A, B, Shows
<1>3. ASSUME NEW x \in T, NEW y \in T PROVE x = y
  <2>1. /\ x[1] \in Servers /\ y[1] \in Servers
        /\ Shows(x[1], x[2], x[3]) /\ Shows(y[1], y[2], y[3])
    OBVIOUS
  <2>2. x[1] = y[1] /\ x[2] = y[2] /\ x[3] = y[3]
    BY <1>2, <2>1
  <2>3. x \in Servers \X A \X B /\ y \in Servers \X A \X B
    OBVIOUS
  <2> QED
    BY <2>2, <2>3
<1>4. Cardinality(T) <= 1
  BY <1>3, AllEqual
<1> QED
  BY <1>4 DEF TextsTo, T, A, B, Shows

\* The texts of a server go to its own clients, once each.
LEMMA StepReceivers ==
  ASSUME LogOK, NEW s \in Servers, ShowStep(s),
         \A i \in 1 .. Len(log[s]) : Receivers(s, log[s][i].to)
  PROVE  \A i \in 1 .. Len(log'[s]) : Receivers(s, log'[s][i].to)
<1>1. log[s] \in Seq(LogEntry) /\ Len(log[s]) \in Nat
  BY DEF LogOK
<1>2. ASSUME NEW e \in LogEntry, log'[s] = Append(log[s], e), Receivers(s, e.to),
             NEW i \in 1 .. Len(log'[s])
      PROVE  Receivers(s, log'[s][i].to)
  BY <1>1, <1>2
<1> QED
  BY <1>2 DEF ShowStep

\* No message is shown to a user twice, on any topology, with any loss, duplication and
\* overtaking between the servers and servers that are killed, until the user's own
\* server has taken in more Says than recent_ids has room for: if gen_rand returns no
\* value twice, nobody joins a channel twice, no two users share a name and every
\* request arrives.
THEOREM ShownOnceUntilFull ==
  ASSUME OwnNames, ~Rejoin, "lostRequest" \notin Faults, FreshIds
  PROVE  Spec => [](\A c \in Clients, id \in Ids : ~OverRuns(Home[c]) => TextsTo(c, id) <= 1)
<1> DEFINE ToOwn == \A s \in Servers : \A i \in 1 .. Len(log[s]) : Receivers(s, log[s][i].to)
           Apart == \A s \in Servers : OverRuns(s) \/ ShownApart(s)
           Goal == \A c \in Clients, id \in Ids : ~OverRuns(Home[c]) => TextsTo(c, id) <= 1
<1>1. Spec => []Booked
  BY BookedAlways DEF Careful
<1>2. Init => ToOwn /\ Apart
  BY DEF Init, ServerInit, ShownApart, IdsApart
<1>3. Booked /\ ToOwn /\ Apart /\ [Next]_vars => ToOwn' /\ Apart'
  <2> SUFFICES ASSUME Booked, ToOwn, Apart, [Next]_vars, NEW s \in Servers
               PROVE  /\ \A i \in 1 .. Len(log'[s]) : Receivers(s, log'[s][i].to)
                      /\ (OverRuns(s) \/ ShownApart(s))'
    BY DEF Receivers
  <2>1. LogOK /\ ShowStep(s)
    BY NextShows DEF Booked, ServerOK
  <2> QED
    BY <2>1, StepReceivers, OverRunsForGood, StaysApart
<1>4. Booked /\ ToOwn /\ Apart => Goal
  <2> SUFFICES ASSUME Booked, ToOwn, Apart, NEW c \in Clients, NEW id \in Ids, ~OverRuns(Home[c])
               PROVE  TextsTo(c, id) <= 1
    OBVIOUS
  <2>1. Home[c] \in Servers /\ LogOK
    BY ChatSystemAssumption DEF Booked, ServerOK
  <2> QED
    BY <2>1, ApartOnce
<1> HIDE DEF ToOwn, Apart
<1> QED
  BY <1>1, <1>2, <1>3, <1>4, PTL DEF Spec

\* So no message is shown to anybody twice if there are at most MAX_IDS of them.
THEOREM NoMessageTwice ==
  ASSUME OwnNames, ~Rejoin, "lostRequest" \notin Faults, FreshIds,
         IsFiniteSet(Ids), Cardinality(Ids) <= MaxIds
  PROVE  Spec => []ShownOnce
<1> DEFINE Apart == \A s \in Servers : ShownApart(s)
<1>1. Spec => []Booked
  BY BookedAlways DEF Careful
<1>2. Init => Apart
  BY DEF Init, ServerInit, ShownApart, IdsApart
<1>3. Booked /\ Apart /\ [Next]_vars => Apart'
  <2> SUFFICES ASSUME Booked, Apart, [Next]_vars, NEW s \in Servers
               PROVE  ShownApart(s)'
    OBVIOUS
  <2>1. LogOK /\ ShowStep(s)
    BY NextShows DEF Booked, ServerOK
  <2>2. ~OverRuns(s)
    BY <2>1, FewIds DEF ShownApart
  <2> QED
    BY <2>1, <2>2, StaysApart
<1>4. Booked /\ Apart => ShownOnce
  <2> SUFFICES ASSUME Booked, Apart, NEW c \in Clients, NEW id \in Ids
               PROVE  TextsTo(c, id) <= 1
    BY DEF ShownOnce
  <2>1. Home[c] \in Servers /\ LogOK
    BY ChatSystemAssumption DEF Booked, ServerOK
  <2>2. \A s \in Servers : \A i \in 1 .. Len(log[s]) : Receivers(s, log[s][i].to)
    BY DEF ShownApart, IdsApart
  <2> QED
    BY <2>1, <2>2, ApartOnce
<1> HIDE DEF Apart
<1> QED
  BY <1>1, <1>2, <1>3, <1>4, PTL DEF Spec

================================================================================
