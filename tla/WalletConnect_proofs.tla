------------------------- MODULE WalletConnect_proofs -------------------------
(***************************************************************************)
(* Proofs about WalletConnect, for any accounts and any bounds on requests *)
(* and messages: which address the page shows once every message of the    *)
(* wallet is handled, and whether the flag of the store then agrees with   *)
(* the component.  Only the last message that sets an address counts, so   *)
(* the first invariants speak of that message while there is one, and of   *)
(* the address itself when there is none.  A flag that every answer toggles*)
(* needs all of the messages: the last invariants foresee its values.      *)
(***************************************************************************)
EXTENDS WalletConnect, SequenceTheorems, TLAPS

Message == [kind : Kinds, account : Account]

\* Messages that set the address of the component, and of the store.
Addressing(m) == m.kind \in {"accountsChanged", "accepted"}
Storing(m) == m.kind = "revoked" \/ (Addressing(m) /\ m.account # NoAccount)

\* The component shows g, or nothing, once every message of box is handled.
AddressesTo(box, g, shown) ==
  /\ \A i \in 1..Len(box) :
       /\ Addressing(box[i])
       /\ \A j \in 1..Len(box) : j > i => ~Addressing(box[j])
       => box[i].account = g
  /\ (\A i \in 1..Len(box) : ~Addressing(box[i])) => shown \in {NoAccount, g}

\* The same of the address in the store, which "revoked" empties.
StoresTo(box, g, stored) ==
  /\ \A i \in 1..Len(box) :
       /\ Storing(box[i])
       /\ \A j \in 1..Len(box) : j > i => ~Storing(box[j])
       => box[i].kind = "revoked" \/ box[i].account = g
  /\ (\A i \in 1..Len(box) : ~Storing(box[i])) => stored \in {NoAccount, g}

Typed ==
  /\ address \in Account /\ userAddress \in Account /\ granted \in Account
  /\ walletConnected \in BOOLEAN
  /\ inbox \in Seq(Message) /\ lapses \in Seq(Lapse)
  /\ \A i \in 1..Len(inbox) : inbox[i].kind = "accepted" => inbox[i].account # NoAccount

Forgotten == Contains(lapses, "forgotten")

WalletInv ==
  /\ Typed
  /\ ButtonHasAddress
  /\ address # NoAccount => userAddress \in {NoAccount, address}
  /\ AddressesTo(inbox, granted, address)
  /\ Forgotten \/ StoresTo(inbox, granted, userAddress)

-----------------------------------------------------------------------------
(* Messages on their way                                                   *)

(* A message that sets the address decides what the component will show.   *)
LEMMA AppendAddressing ==
  ASSUME NEW box \in Seq(Message), NEW m \in Message, NEW g, NEW shown,
         AddressesTo(box, g, shown)
  PROVE  /\ Append(box, m) \in Seq(Message)
         /\ ~Addressing(m) => AddressesTo(Append(box, m), g, shown)
         /\ Addressing(m) => AddressesTo(Append(box, m), m.account, shown)
<1> DEFINE s == Append(box, m)
<1>1. /\ s \in Seq(Message) /\ Len(s) = Len(box) + 1 /\ Len(box) \in Nat
      /\ \A i \in 1..Len(box) : s[i] = box[i]
      /\ s[Len(box) + 1] = m
  BY AppendProperties
<1> HIDE DEF s
<1>2. ASSUME ~Addressing(m) PROVE AddressesTo(s, g, shown)
  <2>1. ASSUME NEW i \in 1..Len(s), Addressing(s[i]),
               \A j \in 1..Len(s) : j > i => ~Addressing(s[j])
        PROVE  s[i].account = g
    <3>1. i \in 1..Len(box) /\ s[i] = box[i]
      BY <1>1, <1>2, <2>1
    <3>2. \A j \in 1..Len(box) : j > i => ~Addressing(box[j])
      BY <1>1, <2>1
    <3> QED  BY <2>1, <3>1, <3>2 DEF AddressesTo
  <2>2. ASSUME \A i \in 1..Len(s) : ~Addressing(s[i]) PROVE shown \in {NoAccount, g}
    <3>1. \A i \in 1..Len(box) : ~Addressing(box[i])
      BY <1>1, <2>2
    <3> QED  BY <3>1 DEF AddressesTo
  <2> QED  BY <2>1, <2>2 DEF AddressesTo
<1>3. ASSUME Addressing(m) PROVE AddressesTo(s, m.account, shown)
  <2>1. ASSUME NEW i \in 1..Len(s), \A j \in 1..Len(s) : j > i => ~Addressing(s[j])
        PROVE  s[i].account = m.account
    <3>1. Len(box) + 1 \in 1..Len(s)
      BY <1>1
    <3>2. i = Len(box) + 1
      BY <1>1, <1>3, <2>1, <3>1
    <3> QED  BY <1>1, <3>2
  <2>2. Len(box) + 1 \in 1..Len(s) /\ Addressing(s[Len(box) + 1])
    BY <1>1, <1>3
  <2> QED  BY <2>1, <2>2 DEF AddressesTo
<1> QED  BY <1>1, <1>2, <1>3 DEF s

(* A message that is handled sets the address or leaves it.                *)
LEMMA TailAddressing ==
  ASSUME NEW box \in Seq(Message), box # <<>>, NEW g, NEW shown,
         AddressesTo(box, g, shown)
  PROVE  /\ Head(box) \in Message /\ Tail(box) \in Seq(Message)
         /\ ~Addressing(Head(box)) => AddressesTo(Tail(box), g, shown)
         /\ Addressing(Head(box)) => AddressesTo(Tail(box), g, Head(box).account)
<1> DEFINE s == Tail(box)
           m == Head(box)
<1>1. /\ m \in Message /\ s \in Seq(Message)
      /\ Len(s) = Len(box) - 1 /\ Len(box) \in Nat \ {0}
      /\ \A i \in 1..Len(s) : s[i] = box[i + 1]
      /\ box[1] = m
  <2>1. Len(box) \in Nat \ {0} /\ box[1] = Head(box)
    BY EmptySeq
  <2> QED  BY <2>1, HeadTailProperties
<1> HIDE DEF s, m
<1>2. ASSUME NEW i \in 1..Len(s), Addressing(s[i]),
             \A j \in 1..Len(s) : j > i => ~Addressing(s[j])
      PROVE  s[i].account = g
  <2>1. i + 1 \in 1..Len(box) /\ s[i] = box[i + 1]
    BY <1>1
  <2>2. ASSUME NEW j \in 1..Len(box), j > i + 1 PROVE ~Addressing(box[j])
    <3>1. j - 1 \in 1..Len(s) /\ j - 1 > i /\ s[j - 1] = box[j]
      BY <1>1, <2>2
    <3> QED  BY <1>2, <3>1
  <2> QED  BY <1>2, <2>1, <2>2 DEF AddressesTo
<1>3. ASSUME \A i \in 1..Len(s) : ~Addressing(s[i])
      PROVE  \A j \in 1..Len(box) : j > 1 => ~Addressing(box[j])
  <2> SUFFICES ASSUME NEW j \in 1..Len(box), j > 1 PROVE ~Addressing(box[j])
    OBVIOUS
  <2>1. j - 1 \in 1..Len(s) /\ s[j - 1] = box[j]
    BY <1>1
  <2> QED  BY <1>3, <2>1
<1>4. ASSUME ~Addressing(m), \A i \in 1..Len(s) : ~Addressing(s[i])
      PROVE  shown \in {NoAccount, g}
  <2>1. \A j \in 1..Len(box) : ~Addressing(box[j])
    <3> SUFFICES ASSUME NEW j \in 1..Len(box) PROVE ~Addressing(box[j])
      OBVIOUS
    <3>1. CASE j = 1
      BY <1>1, <1>4, <3>1
    <3>2. CASE j # 1
      BY <1>1, <1>3, <1>4, <3>2
    <3> QED  BY <3>1, <3>2
  <2> QED  BY <2>1 DEF AddressesTo
<1>5. ASSUME Addressing(m), \A i \in 1..Len(s) : ~Addressing(s[i])
      PROVE  m.account = g
  BY <1>1, <1>3, <1>5 DEF AddressesTo
<1> QED  BY <1>1, <1>2, <1>4, <1>5 DEF AddressesTo, s, m

(* The same of the store.                                                  *)
LEMMA AppendStoring ==
  ASSUME NEW box \in Seq(Message), NEW m \in Message, NEW g, NEW stored, NEW h,
         StoresTo(box, g, stored)
  PROVE  /\ ~Storing(m) => StoresTo(Append(box, m), g, stored)
         /\ Storing(m) /\ (m.kind = "revoked" \/ m.account = h) =>
              StoresTo(Append(box, m), h, stored)
<1> DEFINE s == Append(box, m)
<1>1. /\ Len(s) = Len(box) + 1 /\ Len(box) \in Nat
      /\ \A i \in 1..Len(box) : s[i] = box[i]
      /\ s[Len(box) + 1] = m
  BY AppendProperties
<1> HIDE DEF s
<1>2. ASSUME ~Storing(m) PROVE StoresTo(s, g, stored)
  <2>1. ASSUME NEW i \in 1..Len(s), Storing(s[i]),
               \A j \in 1..Len(s) : j > i => ~Storing(s[j])
        PROVE  s[i].kind = "revoked" \/ s[i].account = g
    <3>1. i \in 1..Len(box) /\ s[i] = box[i]
      BY <1>1, <1>2, <2>1
    <3>2. \A j \in 1..Len(box) : j > i => ~Storing(box[j])
      BY <1>1, <2>1
    <3> QED  BY <2>1, <3>1, <3>2 DEF StoresTo
  <2>2. ASSUME \A i \in 1..Len(s) : ~Storing(s[i]) PROVE stored \in {NoAccount, g}
    <3>1. \A i \in 1..Len(box) : ~Storing(box[i])
      BY <1>1, <2>2
    <3> QED  BY <3>1 DEF StoresTo
  <2> QED  BY <2>1, <2>2 DEF StoresTo
<1>3. ASSUME Storing(m), m.kind = "revoked" \/ m.account = h PROVE StoresTo(s, h, stored)
  <2>1. ASSUME NEW i \in 1..Len(s), \A j \in 1..Len(s) : j > i => ~Storing(s[j])
        PROVE  s[i] = m
    <3>1. Len(box) + 1 \in 1..Len(s)
      BY <1>1
    <3>2. i = Len(box) + 1
      BY <1>1, <1>3, <2>1, <3>1
    <3> QED  BY <1>1, <3>2
  <2>2. Len(box) + 1 \in 1..Len(s) /\ Storing(s[Len(box) + 1])
    BY <1>1, <1>3
  <2> QED  BY <1>3, <2>1, <2>2 DEF StoresTo
<1> QED  BY <1>2, <1>3 DEF s

(* The same of the store.                                                  *)
LEMMA TailStoring ==
  ASSUME NEW box \in Seq(Message), box # <<>>, NEW g, NEW stored, NEW now,
         StoresTo(box, g, stored)
  PROVE  /\ ~Storing(Head(box)) => StoresTo(Tail(box), g, stored)
         /\ /\ Storing(Head(box))
            /\ now = NoAccount \/ (Head(box).kind # "revoked" /\ now = Head(box).account)
            => StoresTo(Tail(box), g, now)
<1> DEFINE s == Tail(box)
           m == Head(box)
<1>1. /\ s \in Seq(Message)
      /\ Len(s) = Len(box) - 1 /\ Len(box) \in Nat \ {0}
      /\ \A i \in 1..Len(s) : s[i] = box[i + 1]
      /\ box[1] = m
  <2>1. Len(box) \in Nat \ {0} /\ box[1] = Head(box)
    BY EmptySeq
  <2> QED  BY <2>1, HeadTailProperties
<1> HIDE DEF s, m
<1>2. ASSUME NEW i \in 1..Len(s), Storing(s[i]),
             \A j \in 1..Len(s) : j > i => ~Storing(s[j])
      PROVE  s[i].kind = "revoked" \/ s[i].account = g
  <2>1. i + 1 \in 1..Len(box) /\ s[i] = box[i + 1]
    BY <1>1
  <2>2. ASSUME NEW j \in 1..Len(box), j > i + 1 PROVE ~Storing(box[j])
    <3>1. j - 1 \in 1..Len(s) /\ j - 1 > i /\ s[j - 1] = box[j]
      BY <1>1, <2>2
    <3> QED  BY <1>2, <3>1
  <2> QED  BY <1>2, <2>1, <2>2 DEF StoresTo
<1>3. ASSUME \A i \in 1..Len(s) : ~Storing(s[i])
      PROVE  \A j \in 1..Len(box) : j > 1 => ~Storing(box[j])
  <2> SUFFICES ASSUME NEW j \in 1..Len(box), j > 1 PROVE ~Storing(box[j])
    OBVIOUS
  <2>1. j - 1 \in 1..Len(s) /\ s[j - 1] = box[j]
    BY <1>1
  <2> QED  BY <1>3, <2>1
<1>4. ASSUME ~Storing(m), \A i \in 1..Len(s) : ~Storing(s[i])
      PROVE  stored \in {NoAccount, g}
  <2>1. \A j \in 1..Len(box) : ~Storing(box[j])
    <3> SUFFICES ASSUME NEW j \in 1..Len(box) PROVE ~Storing(box[j])
      OBVIOUS
    <3>1. CASE j = 1
      BY <1>1, <1>4, <3>1
    <3>2. CASE j # 1
      BY <1>1, <1>3, <1>4, <3>2
    <3> QED  BY <3>1, <3>2
  <2> QED  BY <2>1 DEF StoresTo
<1>5. ASSUME Storing(m), \A i \in 1..Len(s) : ~Storing(s[i])
      PROVE  m.kind = "revoked" \/ m.account = g
  BY <1>1, <1>3, <1>5 DEF StoresTo
<1> QED  BY <1>1, <1>2, <1>4, <1>5 DEF StoresTo, s, m

-----------------------------------------------------------------------------
(* The wallet's side                                                       *)

\* Everything the invariant says of the messages under way.
Carried(box, g) ==
  /\ box \in Seq(Message)
  /\ \A i \in 1..Len(box) : box[i].kind = "accepted" => box[i].account # NoAccount
  /\ AddressesTo(box, g, address)
  /\ Forgotten \/ StoresTo(box, g, userAddress)

(* An event that announces the account, an acceptance of it, or the answer *)
(* to a revocation, is carried.                                            *)
LEMMA CarryAccount ==
  ASSUME NEW box, NEW g \in Account, NEW a \in Accounts, Carried(box, g),
         NEW k \in {"accountsChanged", "accepted"}
  PROVE  Carried(Append(box, Msg(k, a)), a)
<1> DEFINE m == Msg(k, a)
<1>1. /\ m \in Message /\ Addressing(m) /\ Storing(m) /\ m.account = a /\ a # NoAccount
  BY AccountAssumption DEF Msg, Message, Kinds, Account, Addressing, Storing
<1> HIDE DEF m
<1>2. /\ Append(box, m) \in Seq(Message) /\ Len(Append(box, m)) = Len(box) + 1
      /\ Len(box) \in Nat
      /\ \A i \in 1..Len(box) : Append(box, m)[i] = box[i]
      /\ Append(box, m)[Len(box) + 1] = m
  BY <1>1, AppendProperties DEF Carried
<1>3. \A i \in 1..Len(Append(box, m)) :
        Append(box, m)[i].kind = "accepted" => Append(box, m)[i].account # NoAccount
  <2> SUFFICES ASSUME NEW i \in 1..Len(Append(box, m)), Append(box, m)[i].kind = "accepted"
               PROVE  Append(box, m)[i].account # NoAccount
    OBVIOUS
  <2>1. CASE i = Len(box) + 1
    BY <1>1, <1>2, <2>1
  <2>2. CASE i # Len(box) + 1
    <3>1. i \in 1..Len(box)
      BY <1>2, <2>2
    <3> QED  BY <1>2, <3>1 DEF Carried
  <2> QED  BY <2>1, <2>2
<1>4. AddressesTo(Append(box, m), a, address)
  BY <1>1, AppendAddressing DEF Carried
<1>5. Forgotten \/ StoresTo(Append(box, m), a, userAddress)
  BY <1>1, AppendStoring DEF Carried
<1> QED  BY <1>2, <1>3, <1>4, <1>5 DEF Carried, m

(* A message of another kind, or about no account, is carried.             *)
LEMMA CarryNone ==
  ASSUME NEW box, NEW g \in Account, NEW h \in Account, Carried(box, g),
         NEW k \in Kinds, k # "accepted",
         k = "accountsChanged" => h = NoAccount,
         k = "refused" => h = g,
         k = "revoked" => h = g
  PROVE  /\ Append(box, Msg(k, NoAccount)) \in Seq(Message)
         /\ \A i \in 1..Len(Append(box, Msg(k, NoAccount))) :
              Append(box, Msg(k, NoAccount))[i].kind = "accepted"
                => Append(box, Msg(k, NoAccount))[i].account # NoAccount
         /\ AddressesTo(Append(box, Msg(k, NoAccount)), h, address)
         /\ k # "revoked" => Forgotten \/ StoresTo(Append(box, Msg(k, NoAccount)), g, userAddress)
         /\ k = "revoked" =>
              \A x \in Account : Forgotten \/ StoresTo(Append(box, Msg(k, NoAccount)), x, userAddress)
<1> DEFINE m == Msg(k, NoAccount)
<1>1. /\ m \in Message /\ m.kind = k /\ m.account = NoAccount
      /\ Addressing(m) <=> k = "accountsChanged"
      /\ Storing(m) <=> k = "revoked"
  BY DEF Msg, Message, Kinds, Account, Addressing, Storing
<1> HIDE DEF m
<1>2. /\ Append(box, m) \in Seq(Message) /\ Len(Append(box, m)) = Len(box) + 1
      /\ Len(box) \in Nat
      /\ \A i \in 1..Len(box) : Append(box, m)[i] = box[i]
      /\ Append(box, m)[Len(box) + 1] = m
  BY <1>1, AppendProperties DEF Carried
<1>3. \A i \in 1..Len(Append(box, m)) :
        Append(box, m)[i].kind = "accepted" => Append(box, m)[i].account # NoAccount
  <2> SUFFICES ASSUME NEW i \in 1..Len(Append(box, m)), Append(box, m)[i].kind = "accepted"
               PROVE  Append(box, m)[i].account # NoAccount
    OBVIOUS
  <2>1. i # Len(box) + 1
    BY <1>1, <1>2
  <2>2. i \in 1..Len(box)
    BY <1>2, <2>1
  <2> QED  BY <1>2, <2>2 DEF Carried
<1>4. AddressesTo(Append(box, m), h, address)
  BY <1>1, AppendAddressing DEF Carried, Kinds
<1>5. k # "revoked" => Forgotten \/ StoresTo(Append(box, m), g, userAddress)
  BY <1>1, AppendStoring DEF Carried
<1>6. k = "revoked" =>
        \A x \in Account : Forgotten \/ StoresTo(Append(box, m), x, userAddress)
  BY <1>1, AppendStoring DEF Carried
<1> QED  BY <1>2, <1>3, <1>4, <1>5, <1>6 DEF m

(* Putting messages after each other.                                      *)
LEMMA Appending ==
  ASSUME NEW box \in Seq(Message), NEW m \in Message, NEW n \in Message
  PROVE  /\ box \o <<m>> = Append(box, m)
         /\ (box \o <<>>) \o <<m>> = Append(box, m)
         /\ (box \o <<m>>) \o <<>> = Append(box, m)
         /\ (box \o <<m>>) \o <<n>> = Append(Append(box, m), n)
<1>1. box \o <<m>> = Append(box, m) /\ Append(box, m) \in Seq(Message) /\ box \o <<>> = box
  BY AppendIsConcat, AppendProperties, ConcatEmptySeq
<1>2. Append(box, m) \o <<>> = Append(box, m) /\ Append(box, m) \o <<n>> = Append(Append(box, m), n)
  BY <1>1, AppendIsConcat, ConcatEmptySeq
<1> QED  BY <1>1, <1>2

(* An acceptance with the event of the change.                             *)
LEMMA TellAccepted ==
  ASSUME WalletInv, NEW a \in Accounts, Tell(a, Msg("accepted", a))
  PROVE  Carried(inbox', a)
<1> DEFINE m == Msg("accepted", a)
           e == Msg("accountsChanged", a)
<1>1. Carried(inbox, granted) /\ granted \in Account /\ inbox \in Seq(Message) /\ a \in Account
  BY DEF WalletInv, Typed, Carried, Account
<1>2. m \in Message /\ e \in Message
  BY <1>1 DEF Msg, Message, Kinds
<1>3. /\ Carried(Append(inbox, m), a) /\ Carried(Append(inbox, e), a)
      /\ Carried(Append(Append(inbox, e), m), a) /\ Carried(Append(Append(inbox, m), e), a)
  <2>1. Carried(Append(inbox, m), a) /\ Carried(Append(inbox, e), a)
    BY <1>1, CarryAccount
  <2> QED  BY <1>1, <2>1, CarryAccount
<1> HIDE DEF m, e
<1>4. CASE a = granted
  <2>1. inbox' = (inbox \o <<>>) \o <<m>> \/ inbox' = (inbox \o <<m>>) \o <<>>
    BY <1>4 DEF Tell, Announce, m
  <2> QED  BY <1>1, <1>2, <1>3, <2>1, Appending
<1>5. CASE a # granted
  <2>1. inbox' = (inbox \o <<e>>) \o <<m>> \/ inbox' = (inbox \o <<m>>) \o <<e>>
    BY <1>5 DEF Tell, Announce, m, e
  <2> QED  BY <1>1, <1>2, <1>3, <2>1, Appending
<1> QED  BY <1>4, <1>5

(* A revocation with the event of the change.                              *)
LEMMA TellRevoked ==
  ASSUME WalletInv, Tell(NoAccount, Msg("revoked", NoAccount))
  PROVE  Carried(inbox', NoAccount)
<1> DEFINE m == Msg("revoked", NoAccount)
           e == Msg("accountsChanged", NoAccount)
<1>1. Carried(inbox, granted) /\ granted \in Account /\ inbox \in Seq(Message)
      /\ NoAccount \in Account
  BY DEF WalletInv, Typed, Carried, Account
<1>2. m \in Message /\ e \in Message
  BY <1>1 DEF Msg, Message, Kinds
<1>3. Append(inbox, m) \in Seq(Message)
      /\ (\A i \in 1..Len(Append(inbox, m)) :
            Append(inbox, m)[i].kind = "accepted" => Append(inbox, m)[i].account # NoAccount)
      /\ AddressesTo(Append(inbox, m), granted, address)
      /\ \A x \in Account : Forgotten \/ StoresTo(Append(inbox, m), x, userAddress)
  BY <1>1, CarryNone DEF Kinds
<1>4. Carried(Append(inbox, m), granted)
  BY <1>1, <1>3 DEF Carried
<1>5. Carried(Append(Append(inbox, m), e), NoAccount)
  <2>1. /\ Append(Append(inbox, m), e) \in Seq(Message)
        /\ \A i \in 1..Len(Append(Append(inbox, m), e)) :
             Append(Append(inbox, m), e)[i].kind = "accepted"
               => Append(Append(inbox, m), e)[i].account # NoAccount
        /\ AddressesTo(Append(Append(inbox, m), e), NoAccount, address)
    BY <1>1, <1>4, CarryNone DEF Kinds
  <2>2. e \in Message /\ ~Storing(e)
    BY <1>2 DEF Msg, Storing, Addressing
  <2>3. Forgotten \/ StoresTo(Append(Append(inbox, m), e), NoAccount, userAddress)
    BY <1>1, <1>3, <2>2, AppendStoring
  <2> QED  BY <2>1, <2>3 DEF Carried
<1>6. Carried(Append(Append(inbox, e), m), NoAccount)
  <2> DEFINE b == Append(inbox, e)
  <2>1. /\ b \in Seq(Message)
        /\ \A i \in 1..Len(b) : b[i].kind = "accepted" => b[i].account # NoAccount
        /\ AddressesTo(b, NoAccount, address)
        /\ Forgotten \/ StoresTo(b, granted, userAddress)
    BY <1>1, CarryNone DEF Kinds
  <2>2. m \in Message /\ Storing(m) /\ m.kind = "revoked" /\ ~Addressing(m)
    BY <1>2 DEF Msg, Storing, Addressing
  <2> HIDE DEF b, m
  <2>3. /\ Append(b, m) \in Seq(Message)
        /\ AddressesTo(Append(b, m), NoAccount, address)
        /\ Forgotten \/ StoresTo(Append(b, m), NoAccount, userAddress)
    BY <2>1, <2>2, AppendAddressing, AppendStoring
  <2>4. \A i \in 1..Len(Append(b, m)) :
          Append(b, m)[i].kind = "accepted" => Append(b, m)[i].account # NoAccount
    <3> SUFFICES ASSUME NEW i \in 1..Len(Append(b, m)), Append(b, m)[i].kind = "accepted"
                 PROVE  Append(b, m)[i].account # NoAccount
      OBVIOUS
    <3>1. /\ Len(Append(b, m)) = Len(b) + 1 /\ Len(b) \in Nat
          /\ \A j \in 1..Len(b) : Append(b, m)[j] = b[j]
          /\ Append(b, m)[Len(b) + 1] = m
      BY <2>1, <2>2, AppendProperties
    <3>2. i # Len(b) + 1
      BY <2>2, <3>1
    <3>3. i \in 1..Len(b)
      BY <3>1, <3>2
    <3> QED  BY <2>1, <3>1, <3>3
  <2> QED  BY <2>3, <2>4 DEF Carried, b
<1> HIDE DEF m, e
<1>7. CASE NoAccount = granted
  <2>1. inbox' = (inbox \o <<>>) \o <<m>> \/ inbox' = (inbox \o <<m>>) \o <<>>
    BY <1>7 DEF Tell, Announce, m
  <2> QED  BY <1>1, <1>2, <1>4, <1>7, <2>1, Appending
<1>8. CASE NoAccount # granted
  <2>1. inbox' = (inbox \o <<e>>) \o <<m>> \/ inbox' = (inbox \o <<m>>) \o <<e>>
    BY <1>8 DEF Tell, Announce, m, e
  <2> QED  BY <1>1, <1>2, <1>5, <1>6, <2>1, Appending
<1> QED  BY <1>7, <1>8

(* A step of the wallet that carries its messages keeps the invariant.     *)
LEMMA WalletStepInv ==
  ASSUME WalletInv, UNCHANGED pageVars, granted' \in Account,
         lapses' = lapses \/ (\E k \in Lapse : lapses' = Append(lapses, k)),
         Carried(inbox', granted')
  PROVE  WalletInv'
<1>1. lapses \in Seq(Lapse)
  BY DEF WalletInv, Typed
<1>2. lapses' \in Seq(Lapse) /\ (Forgotten => Forgotten')
  <2>1. CASE lapses' = lapses
    BY <1>1, <2>1 DEF Forgotten
  <2>2. ASSUME NEW k \in Lapse, lapses' = Append(lapses, k)
        PROVE  lapses' \in Seq(Lapse) /\ (Forgotten => Forgotten')
    BY <1>1, <2>2, AppendProperties DEF Forgotten, Contains
  <2> QED  BY <2>1, <2>2
<1> QED  BY <1>2 DEF WalletInv, Typed, ButtonHasAddress, Carried, pageVars, componentVars, storeVars

(* The wallet's steps.                                                     *)
LEMMA WalletInvStep ==
  ASSUME WalletInv, WalletStep
  PROVE  WalletInv'
<1>1. Carried(inbox, granted) /\ granted \in Account /\ inbox \in Seq(Message)
      /\ NoAccount \in Account
  BY DEF WalletInv, Typed, Carried, Account
<1>2. ASSUME NEW a \in Accounts, WalletAccepts(a) PROVE WalletInv'
  <2>1. Carried(inbox', a)
    BY <1>2, TellAccepted DEF WalletAccepts
  <2> QED  BY <1>2, <2>1, WalletStepInv DEF WalletAccepts, Account
<1>3. ASSUME NEW a \in Accounts, WalletSwitches(a) PROVE WalletInv'
  <2> DEFINE e == Msg("accountsChanged", a)
  <2>1. Carried(Append(inbox, e), a) /\ e \in Message
    BY <1>1, CarryAccount DEF Msg, Message, Kinds, Account
  <2> HIDE DEF e
  <2>2. inbox' = inbox \o <<e>>
    BY <1>3 DEF WalletSwitches, Announce, e
  <2>3. Carried(inbox', a)
    BY <1>1, <2>1, <2>2, Appending
  <2> QED  BY <1>3, <2>3, WalletStepInv DEF WalletSwitches, Account
<1>4. CASE WalletRefuses
  <2>1. inbox' = Append(inbox, Msg("refused", NoAccount))
        /\ \E k \in Lapse : lapses' = Append(lapses, k)
    BY <1>4 DEF WalletRefuses, Lapses, Lapse
  <2>2. Carried(inbox', granted)
    BY <1>1, <2>1, CarryNone DEF Carried, Kinds
  <2>3. granted' = granted /\ UNCHANGED pageVars
    BY <1>4 DEF WalletRefuses
  <2> QED  BY <1>1, <2>1, <2>2, <2>3, WalletStepInv
<1>5. CASE WalletRevokes
  <2>1. Carried(inbox', NoAccount)
    BY <1>5, TellRevoked DEF WalletRevokes
  <2> QED  BY <1>1, <1>5, <2>1, WalletStepInv DEF WalletRevokes
<1>6. CASE WalletRevokeFails
  BY <1>1, <1>6, WalletStepInv DEF WalletRevokeFails
<1>7. CASE WalletForgets
  <2> DEFINE e == Msg("accountsChanged", NoAccount)
  <2>1. e \in Message
    BY <1>1 DEF Msg, Message, Kinds
  <2>2. inbox' = inbox \o <<e>> /\ granted' = NoAccount /\ UNCHANGED pageVars
    BY <1>7 DEF WalletForgets, Announce
  <2>3. inbox' = Append(inbox, e)
    BY <1>1, <2>1, <2>2, Appending
  <2>4. /\ inbox' \in Seq(Message)
        /\ \A i \in 1..Len(inbox') : inbox'[i].kind = "accepted" => inbox'[i].account # NoAccount
        /\ AddressesTo(inbox', NoAccount, address)
    BY <1>1, <2>3, CarryNone DEF Kinds
  <2>5. lapses' \in Seq(Lapse) /\ Forgotten'
    <3>1. lapses \in Seq(Lapse) /\ "forgotten" \in Lapse
          /\ lapses' = Append(lapses, "forgotten")
      BY <1>7 DEF WalletForgets, Lapses, WalletInv, Typed, Lapse
    <3>2. /\ lapses' \in Seq(Lapse) /\ Len(lapses) \in Nat
          /\ Len(lapses') = Len(lapses) + 1 /\ lapses'[Len(lapses) + 1] = "forgotten"
      BY <3>1, AppendProperties
    <3> QED  BY <3>2 DEF Forgotten, Contains
  <2> QED  BY <1>1, <2>2, <2>4, <2>5
           DEF WalletInv, Typed, ButtonHasAddress, pageVars, componentVars, storeVars
<1> QED  BY <1>2, <1>3, <1>4, <1>5, <1>6, <1>7 DEF WalletStep

-----------------------------------------------------------------------------
(* The page's side                                                         *)

(* The head of the inbox is an account's message: the component and, where *)
(* the account is new to it, the store take it over.                       *)
LEMMA ReceiveInv ==
  ASSUME WalletInv, Receive
  PROVE  WalletInv'
<1> DEFINE m == Head(inbox)
           s == Tail(inbox)
<1>1. /\ inbox \in Seq(Message) /\ inbox # <<>> /\ inbox' = s
      /\ granted' = granted /\ lapses' = lapses /\ granted \in Account
  BY DEF Receive, WalletInv, Typed, walletVars
<1>2. /\ m \in Message /\ s \in Seq(Message)
      /\ ~Addressing(m) => AddressesTo(s, granted, address)
      /\ Addressing(m) => AddressesTo(s, granted, m.account)
  BY <1>1, TailAddressing DEF WalletInv
<1>3. m.kind = "accepted" => m.account # NoAccount
  <2>1. 1 \in 1..Len(inbox) /\ m = inbox[1]
    BY <1>1, EmptySeq
  <2> QED  BY <2>1 DEF WalletInv, Typed
<1>4. \A i \in 1..Len(s) : s[i].kind = "accepted" => s[i].account # NoAccount
  <2> SUFFICES ASSUME NEW i \in 1..Len(s), s[i].kind = "accepted"
               PROVE  s[i].account # NoAccount
    OBVIOUS
  <2>1. i + 1 \in 1..Len(inbox) /\ s[i] = inbox[i + 1]
    BY <1>1, HeadTailProperties
  <2> QED  BY <2>1 DEF WalletInv, Typed
<1>5. Forgotten \/
        /\ ~Storing(m) => StoresTo(s, granted, userAddress)
        /\ \A now : Storing(m) /\ (now = NoAccount \/ (m.kind # "revoked" /\ now = m.account))
                      => StoresTo(s, granted, now)
  <2> SUFFICES ASSUME ~Forgotten
               PROVE  /\ ~Storing(m) => StoresTo(s, granted, userAddress)
                      /\ \A now : Storing(m) /\ (now = NoAccount \/ (m.kind # "revoked" /\ now = m.account))
                                    => StoresTo(s, granted, now)
    OBVIOUS
  <2>1. StoresTo(inbox, granted, userAddress)
    BY DEF WalletInv
  <2> QED  BY <1>1, <2>1, TailStoring
<1>6. /\ address \in Account /\ userAddress \in Account /\ walletConnected \in BOOLEAN
      /\ walletConnected => address # NoAccount
      /\ address # NoAccount => userAddress \in {NoAccount, address}
      /\ m.account \in Account /\ NoAccount \in Account /\ lapses \in Seq(Lapse)
  BY <1>2 DEF WalletInv, Typed, ButtonHasAddress, Message, Account
<1> HIDE DEF m, s
<1>7. ASSUME m.kind \in {"accountsChanged", "accepted"}, SetAddress(m.account),
             walletConnected' \in BOOLEAN, walletConnected' => m.account # NoAccount
      PROVE  WalletInv'
  <2>1. Addressing(m) /\ m.kind # "revoked" /\ (Storing(m) <=> m.account # NoAccount)
    BY <1>7 DEF Addressing, Storing
  <2>2. address' = m.account
    BY <1>7 DEF SetAddress
  <2>3. /\ userAddress' \in Account
        /\ m.account # NoAccount => userAddress' \in {NoAccount, m.account}
        /\ m.account = NoAccount => userAddress' = userAddress
    BY <1>6, <1>7 DEF SetAddress
  <2>4. Forgotten \/ StoresTo(s, granted, userAddress')
    BY <1>5, <2>1, <2>3
  <2> QED  BY <1>1, <1>2, <1>4, <1>6, <1>7, <2>1, <2>2, <2>3, <2>4
           DEF WalletInv, Typed, ButtonHasAddress, Forgotten
<1>8. ASSUME m.kind = "accountsChanged", handleAccountsChanged(m.account)
      PROVE  WalletInv'
  BY <1>6, <1>7, <1>8 DEF handleAccountsChanged
<1>9. ASSUME m.kind = "accepted", Accepted(m.account)
      PROVE  WalletInv'
  BY <1>3, <1>7, <1>9 DEF Accepted
<1>10. ASSUME m.kind = "refused", Refused
       PROVE  WalletInv'
  <2>1. ~Addressing(m) /\ ~Storing(m)
    BY <1>10 DEF Addressing, Storing
  <2> QED  BY <1>1, <1>2, <1>4, <1>5, <1>6, <1>10, <2>1
           DEF Refused, componentVars, WalletInv, Typed, ButtonHasAddress, Forgotten
<1>11. ASSUME m.kind = "revoked", Revoked
       PROVE  WalletInv'
  <2>1. ~Addressing(m) /\ Storing(m)
    BY <1>11 DEF Addressing, Storing
  <2>2. address' = address /\ walletConnected' = walletConnected /\ userAddress' = NoAccount
    BY <1>11 DEF Revoked
  <2>3. Forgotten \/ StoresTo(s, granted, NoAccount)
    BY <1>5, <2>1
  <2> QED  BY <1>1, <1>2, <1>4, <1>6, <2>1, <2>2, <2>3
           DEF WalletInv, Typed, ButtonHasAddress, Forgotten
<1> QED  BY <1>8, <1>9, <1>10, <1>11 DEF Receive, m

(* Nothing is under way when the page is loaded.                           *)
LEMMA Loaded ==
  ASSUME NEW g
  PROVE  /\ <<>> \in Seq(Message) /\ <<>> \in Seq(Lapse) /\ Len(<<>>) = 0
         /\ AddressesTo(<<>>, g, NoAccount) /\ StoresTo(<<>>, g, NoAccount)
<1>1. <<>> \in Seq(Message) /\ <<>> \in Seq(Lapse) /\ Len(<<>>) = 0
  OBVIOUS
<1>2. \A i \in 1..Len(<<>>) : FALSE
  BY <1>1
<1> QED  BY <1>1, <1>2 DEF AddressesTo, StoresTo

(* The user's steps touch neither address, unless the page is loaded again.*)
LEMMA UserInvStep ==
  ASSUME WalletInv, UserStep
  PROVE  WalletInv'
<1>1. CASE Reload
  <2>1. /\ address' = NoAccount /\ userAddress' = NoAccount /\ walletConnected' = FALSE
        /\ inbox' = <<>> /\ lapses' = <<>> /\ granted' \in Account
    BY <1>1 DEF Reload, WalletInv, Typed
  <2>2. \A i \in 1..Len(<<>>) : FALSE
    BY Loaded
  <2> QED  BY <2>1, <2>2, Loaded DEF WalletInv, Typed, ButtonHasAddress, Account
<1>2. CASE handleWallet \/ CloseModal
  BY <1>2 DEF handleWallet, CloseModal, storeVars, walletVars, WalletInv, Typed,
              ButtonHasAddress, Forgotten
<1>3. CASE connectWithMetamask \/ handleDropdown
  <2>1. /\ UNCHANGED pageVars /\ granted' = granted /\ inbox' = inbox
        /\ lapses' = lapses \/ \E k \in Lapse : lapses' = Append(lapses, k)
    BY <1>3 DEF connectWithMetamask, handleDropdown, Lapses, Lapse
  <2>2. Carried(inbox, granted) /\ granted \in Account
    BY DEF WalletInv, Typed, Carried
  <2> QED  BY <2>1, <2>2, WalletStepInv
<1> QED  BY <1>1, <1>2, <1>3 DEF UserStep

-----------------------------------------------------------------------------
(* Sessions with at most one lapse, a refused request                      *)

(***************************************************************************)
(* What the store's flag and walletConnected will be while the messages of *)
(* box are handled one by one is foreseen as two sets of places: i is in   *)
(* On (in Con) if the flag (walletConnected) is up after the i-th message. *)
(* A refused request, once handled, leaves the flag upside down, so that On*)
(* speaks of the flag as it would be without it.  Answers then alternate:  *)
(* every "accepted" finds the flag down, every "revoked" finds it up.      *)
(***************************************************************************)
StepOk(m, i, On, Con) ==
  /\ m.kind = "accepted" => i - 1 \notin On /\ i \in On /\ i \in Con
  /\ m.kind = "revoked" => i - 1 \in On /\ i \notin On /\ (i \in Con <=> i - 1 \in Con)
  /\ m.kind = "accountsChanged" =>
       /\ i \in On <=> i - 1 \in On
       /\ i \in Con <=> (i - 1 \in Con /\ m.account # NoAccount)
  /\ m.kind = "refused" => (i \in On <=> i - 1 \in On) /\ (i \in Con <=> i - 1 \in Con)

\* Only an acceptance makes walletConnected true.
Risen(box, Con) ==
  \A i, k \in 0..Len(box) :
    i <= k /\ k \in Con =>
      i \in Con \/ \E j \in 1..Len(box) : i < j /\ j <= k /\ box[j].kind = "accepted"

Steps(box, On, Con) ==
  /\ \A i \in 1..Len(box) : StepOk(box[i], i, On, Con)
  /\ Risen(box, Con)

\* Flag and walletConnected agree in the end, the flag is up in the end only
\* while an account is given, and nobody asks for what is under way.
Calm(box, g, c, r, On, Con) ==
  /\ Steps(box, On, Con)
  /\ Len(box) \in On <=> Len(box) \in Con
  /\ Len(box) \in On => g # NoAccount
  /\ c \in {0, 1} /\ (c = 1 => \A i \in 0..Len(box) : i \notin Con)
  /\ r \in {0, 1} /\ (r = 1 => Len(box) \in On)
  /\ g # NoAccount /\ Len(box) \notin On => \A i \in 0..Len(box) : i \notin Con

Refusal(box) == \E i \in 1..Len(box) : box[i].kind = "refused"
One(box) == \A i, j \in 1..Len(box) : box[i].kind = "refused" /\ box[j].kind = "refused" => i = j

\* Where the places start: from the page as it is.
StartsAt(box, on, shown, down, straight, g, On, Con) ==
  /\ 0 \in Con <=> shown
  /\ 0 \in On <=> (on <=> straight)
  /\ g # NoAccount /\ Len(box) \notin On => down

Plain == lapses = <<>>
Odd == lapses = <<"refused">>

CalmInv ==
  /\ isConnected \in BOOLEAN /\ signer \in BOOLEAN /\ showDropdown \in BOOLEAN
  /\ connects \in Nat /\ revokes \in Nat
  /\ Plain \/ Odd =>
       \E On, Con :
         /\ Calm(inbox, granted, connects, revokes, On, Con)
         /\ StartsAt(inbox, isConnected, walletConnected, ~showDropdown,
                     Plain \/ Refusal(inbox), granted, On, Con)
  /\ Plain => ~Refusal(inbox) /\ (signer <=> isConnected)
  /\ Odd => One(inbox)

(* A message that arrives is foreseen at one place more.                   *)
LEMMA ExtendSteps ==
  ASSUME NEW box \in Seq(Message), NEW m \in Message, NEW On, NEW Con, Steps(box, On, Con),
         NEW on \in BOOLEAN, NEW con \in BOOLEAN,
         m.kind = "accepted" => Len(box) \notin On /\ on /\ con,
         m.kind = "revoked" => Len(box) \in On /\ ~on /\ (con <=> Len(box) \in Con),
         m.kind = "accountsChanged" =>
           (on <=> Len(box) \in On) /\ (con <=> (Len(box) \in Con /\ m.account # NoAccount)),
         m.kind = "refused" => (on <=> Len(box) \in On) /\ (con <=> Len(box) \in Con)
  PROVE  \E On2, Con2 :
           /\ Steps(Append(box, m), On2, Con2)
           /\ \A i \in 0..Len(box) : (i \in On2 <=> i \in On) /\ (i \in Con2 <=> i \in Con)
           /\ Len(box) + 1 \in On2 <=> on
           /\ Len(box) + 1 \in Con2 <=> con
<1> DEFINE n == Len(box)
           s == Append(box, m)
           O == {i \in 0..n : i \in On} \cup (IF on THEN {n + 1} ELSE {})
           C == {i \in 0..n : i \in Con} \cup (IF con THEN {n + 1} ELSE {})
<1>1. /\ n \in Nat /\ Len(s) = n + 1 /\ s[n + 1] = m
      /\ \A i \in 1..n : s[i] = box[i]
  BY AppendProperties, LenProperties
<1>2. /\ \A i \in 0..n : (i \in O <=> i \in On) /\ (i \in C <=> i \in Con)
      /\ n + 1 \in O <=> on
      /\ n + 1 \in C <=> con
  BY <1>1
<1> HIDE DEF n, s, O, C
<1>3. ASSUME NEW i \in 1..Len(s) PROVE StepOk(s[i], i, O, C)
  <2>1. CASE i = n + 1
    <3>1. i - 1 = n /\ n \in 0..n /\ s[i] = m
      BY <1>1, <2>1
    <3>2. (n \in O <=> n \in On) /\ (n \in C <=> n \in Con)
      BY <1>2, <3>1
    <3> QED  BY <1>2, <2>1, <3>1, <3>2 DEF StepOk, n
  <2>2. CASE i # n + 1
    <3>1. i \in 1..n /\ i \in 0..n /\ i - 1 \in 0..n /\ s[i] = box[i]
      BY <1>1, <2>2
    <3>2. StepOk(box[i], i, On, Con)
      BY <3>1 DEF Steps, n
    <3> QED  BY <1>2, <3>1, <3>2 DEF StepOk
  <2> QED  BY <2>1, <2>2
<1>4. ASSUME NEW i \in 0..Len(s), NEW k \in 0..Len(s), i <= k, k \in C, i \notin C
      PROVE  \E j \in 1..Len(s) : i < j /\ j <= k /\ s[j].kind = "accepted"
  <2>1. CASE k # n + 1
    <3>1. i \in 0..n /\ k \in 0..n
      BY <1>1, <1>4, <2>1
    <3>2. k \in Con /\ i \notin Con
      BY <1>2, <1>4, <3>1
    <3>3. PICK j \in 1..n : i < j /\ j <= k /\ box[j].kind = "accepted"
      BY <1>4, <3>1, <3>2 DEF Steps, Risen, n
    <3>4. j \in 1..Len(s) /\ s[j] = box[j]
      BY <1>1
    <3> QED  BY <3>3, <3>4
  <2>2. CASE k = n + 1 /\ m.kind = "accepted"
    <3>1. i # n + 1
      BY <1>4, <2>2
    <3>2. n + 1 \in 1..Len(s) /\ i < n + 1 /\ n + 1 <= k
      BY <1>1, <1>4, <2>2, <3>1
    <3> QED  BY <1>1, <2>2, <3>2
  <2>3. CASE k = n + 1 /\ m.kind # "accepted"
    <3>1. n \in Con /\ n \in 0..n
      BY <1>1, <1>2, <1>4, <2>3 DEF Message, Kinds, n
    <3>2. i # n + 1
      BY <1>4, <2>3
    <3>3. i \in 0..n /\ i <= n
      BY <1>1, <1>4, <3>2
    <3>4. i \notin Con
      BY <1>2, <1>4, <3>3
    <3>5. PICK j \in 1..n : i < j /\ j <= n /\ box[j].kind = "accepted"
      BY <3>1, <3>3, <3>4 DEF Steps, Risen, n
    <3>6. j \in 1..Len(s) /\ s[j] = box[j] /\ j <= k
      BY <1>1, <2>3
    <3> QED  BY <3>5, <3>6
  <2> QED  BY <2>1, <2>2, <2>3
<1>5. Steps(s, O, C)
  BY <1>3, <1>4 DEF Steps, Risen
<1> QED  BY <1>2, <1>5 DEF n, s

(* A message that is handled leaves the places after it.                   *)
LEMMA TailSteps ==
  ASSUME NEW box \in Seq(Message), box # <<>>, NEW On, NEW Con, Steps(box, On, Con)
  PROVE  /\ StepOk(Head(box), 1, On, Con)
         /\ Len(box) \in Nat \ {0} /\ Len(Tail(box)) = Len(box) - 1
         /\ \E On2, Con2 :
              /\ Steps(Tail(box), On2, Con2)
              /\ \A i \in 0..Len(Tail(box)) :
                   (i \in On2 <=> i + 1 \in On) /\ (i \in Con2 <=> i + 1 \in Con)
<1> DEFINE s == Tail(box)
           O == {i \in 0..Len(s) : i + 1 \in On}
           C == {i \in 0..Len(s) : i + 1 \in Con}
<1>1. /\ Len(s) = Len(box) - 1 /\ Len(box) \in Nat \ {0}
      /\ \A i \in 1..Len(s) : s[i] = box[i + 1]
      /\ box[1] = Head(box)
  <2>1. Len(box) \in Nat \ {0} /\ box[1] = Head(box)
    BY EmptySeq
  <2> QED  BY <2>1, HeadTailProperties
<1>2. \A i \in 0..Len(s) : (i \in O <=> i + 1 \in On) /\ (i \in C <=> i + 1 \in Con)
  OBVIOUS
<1> HIDE DEF s, O, C
<1>3. ASSUME NEW i \in 1..Len(s) PROVE StepOk(s[i], i, O, C)
  <2>1. /\ i \in 0..Len(s) /\ i - 1 \in 0..Len(s) /\ (i - 1) + 1 = i /\ (i + 1) - 1 = i
        /\ i + 1 \in 1..Len(box) /\ s[i] = box[i + 1]
    BY <1>1
  <2>2. StepOk(box[i + 1], i + 1, On, Con)
    BY <2>1 DEF Steps
  <2>3. (i \in O <=> i + 1 \in On) /\ (i \in C <=> i + 1 \in Con)
    BY <1>2, <2>1
  <2>4. (i - 1 \in O <=> i \in On) /\ (i - 1 \in C <=> i \in Con)
    BY <1>2, <2>1
  <2> QED  BY <2>1, <2>2, <2>3, <2>4 DEF StepOk
<1>4. ASSUME NEW i \in 0..Len(s), NEW k \in 0..Len(s), i <= k, k \in C, i \notin C
      PROVE  \E j \in 1..Len(s) : i < j /\ j <= k /\ s[j].kind = "accepted"
  <2>1. /\ i + 1 \in 0..Len(box) /\ k + 1 \in 0..Len(box) /\ i + 1 <= k + 1
        /\ k + 1 \in Con /\ i + 1 \notin Con
    BY <1>1, <1>2, <1>4
  <2>2. PICK j \in 1..Len(box) : i + 1 < j /\ j <= k + 1 /\ box[j].kind = "accepted"
    BY <2>1 DEF Steps, Risen
  <2>3. j - 1 \in 1..Len(s) /\ s[j - 1] = box[j] /\ i < j - 1 /\ j - 1 <= k
    BY <1>1, <2>2
  <2> QED  BY <2>2, <2>3
<1>5. Steps(s, O, C)
  BY <1>3, <1>4 DEF Steps, Risen
<1>6. StepOk(Head(box), 1, On, Con)
  <2>1. 1 \in 1..Len(box)
    BY <1>1
  <2> QED  BY <1>1, <2>1 DEF Steps
<1> QED  BY <1>1, <1>2, <1>5, <1>6 DEF s

(* What one more lapse makes of a session.                                 *)
LEMMA LapseFacts ==
  ASSUME NEW l \in Seq(Lapse), NEW k \in Lapse
  PROVE  /\ Append(l, k) # <<>>
         /\ Append(l, k) = <<"refused">> => l = <<>> /\ k = "refused"
<1>1. Len(Append(l, k)) = Len(l) + 1 /\ Len(l) \in Nat /\ Append(l, k)[Len(l) + 1] = k
  BY AppendProperties, LenProperties
<1>2. Append(l, k) # <<>>
  BY <1>1
<1>3. ASSUME Append(l, k) = <<"refused">> PROVE l = <<>> /\ k = "refused"
  <2>1. Len(l) = 0
    BY <1>1, <1>3
  <2> QED  BY <1>1, <1>3, <2>1, EmptySeq
<1> QED  BY <1>2, <1>3

(* Refusals in a box that gains a message at its end.                      *)
LEMMA AppendRefusal ==
  ASSUME NEW box \in Seq(Message), NEW m \in Message
  PROVE  /\ m.kind # "refused" => (Refusal(Append(box, m)) <=> Refusal(box))
         /\ m.kind # "refused" /\ One(box) => One(Append(box, m))
         /\ m.kind = "refused" /\ ~Refusal(box) =>
              Refusal(Append(box, m)) /\ One(Append(box, m))
<1> DEFINE s == Append(box, m)
<1>1. /\ Len(s) = Len(box) + 1 /\ Len(box) \in Nat
      /\ \A i \in 1..Len(box) : s[i] = box[i] /\ i \in 1..Len(s)
      /\ s[Len(box) + 1] = m /\ Len(box) + 1 \in 1..Len(s)
  BY AppendProperties
<1> HIDE DEF s
<1>2. \A i \in 1..Len(s) : i # Len(box) + 1 => i \in 1..Len(box)
  BY <1>1
<1> QED  BY <1>1, <1>2 DEF Refusal, One, s

(* ... and in one that loses its first.                                    *)
LEMMA TailRefusal ==
  ASSUME NEW box \in Seq(Message), box # <<>>
  PROVE  /\ Head(box).kind # "refused" => (Refusal(Tail(box)) <=> Refusal(box))
         /\ One(box) => One(Tail(box))
         /\ Head(box).kind = "refused" => Refusal(box)
         /\ Head(box).kind = "refused" /\ One(box) => ~Refusal(Tail(box))
<1> DEFINE s == Tail(box)
<1>1. /\ Len(s) = Len(box) - 1 /\ Len(box) \in Nat \ {0}
      /\ \A i \in 1..Len(s) : s[i] = box[i + 1]
      /\ box[1] = Head(box)
  <2>1. Len(box) \in Nat \ {0} /\ box[1] = Head(box)
    BY EmptySeq
  <2> QED  BY <2>1, HeadTailProperties
<1> HIDE DEF s
<1>2. 1 \in 1..Len(box) /\ \A i \in 1..Len(s) : i + 1 \in 1..Len(box) /\ i + 1 # 1
  BY <1>1
<1>3. \A i \in 1..Len(box) : i # 1 => i - 1 \in 1..Len(s) /\ s[i - 1] = box[i]
  <2> SUFFICES ASSUME NEW i \in 1..Len(box), i # 1
               PROVE  i - 1 \in 1..Len(s) /\ s[i - 1] = box[i]
    OBVIOUS
  <2>1. i - 1 \in 1..Len(s) /\ (i - 1) + 1 = i
    BY <1>1
  <2> QED  BY <1>1, <2>1
<1>4. One(box) => One(s)
  <2> SUFFICES ASSUME One(box), NEW i \in 1..Len(s), NEW j \in 1..Len(s),
                      s[i].kind = "refused", s[j].kind = "refused"
               PROVE  i = j
    BY DEF One
  <2>1. i + 1 = j + 1
    BY <1>1, <1>2 DEF One
  <2> QED  BY <2>1
<1>5. Head(box).kind # "refused" => (Refusal(s) <=> Refusal(box))
  <2>1. Refusal(s) => Refusal(box)
    BY <1>1, <1>2 DEF Refusal
  <2>2. Head(box).kind # "refused" /\ Refusal(box) => Refusal(s)
    BY <1>1, <1>3 DEF Refusal
  <2> QED  BY <2>1, <2>2
<1>6. Head(box).kind = "refused" /\ One(box) => ~Refusal(s)
  BY <1>1, <1>2 DEF Refusal, One
<1>7. Head(box).kind = "refused" => Refusal(box)
  BY <1>1, <1>2 DEF Refusal
<1> QED  BY <1>4, <1>5, <1>6, <1>7 DEF s

(* What CalmInv asks of the boxes of a step that leaves lapses alone.      *)
LEMMA SameLapses ==
  ASSUME CalmInv, UNCHANGED <<isConnected, signer, walletConnected, showDropdown, lapses>>,
         connects' \in Nat, revokes' \in Nat,
         Refusal(inbox') <=> Refusal(inbox), One(inbox) => One(inbox'),
         NEW On, NEW Con, NEW On2, NEW Con2,
         Plain \/ Odd =>
           /\ StartsAt(inbox, isConnected, walletConnected, ~showDropdown,
                       Plain \/ Refusal(inbox), granted, On, Con)
           /\ Calm(inbox', granted', connects', revokes', On2, Con2)
           /\ 0 \in On2 <=> 0 \in On
           /\ 0 \in Con2 <=> 0 \in Con
           /\ granted' # NoAccount /\ Len(inbox') \notin On2 => ~showDropdown
  PROVE  CalmInv'
<1>1. (Plain' <=> Plain) /\ (Odd' <=> Odd)
  BY DEF Plain, Odd
<1>2. ASSUME Plain \/ Odd
      PROVE  StartsAt(inbox', isConnected', walletConnected', ~showDropdown',
                      Plain' \/ Refusal(inbox'), granted', On2, Con2)
  BY <1>1, <1>2 DEF StartsAt
<1>3. /\ isConnected' \in BOOLEAN /\ signer' \in BOOLEAN /\ showDropdown' \in BOOLEAN
      /\ connects' \in Nat /\ revokes' \in Nat
  BY DEF CalmInv
<1>4. Plain' \/ Odd' =>
        \E On3, Con3 :
          /\ Calm(inbox', granted', connects', revokes', On3, Con3)
          /\ StartsAt(inbox', isConnected', walletConnected', ~showDropdown',
                      Plain' \/ Refusal(inbox'), granted', On3, Con3)
  BY <1>1, <1>2
<1>5. Plain' => ~Refusal(inbox') /\ (signer' <=> isConnected')
  BY <1>1 DEF CalmInv
<1>6. Odd' => One(inbox')
  BY <1>1 DEF CalmInv
<1> QED  BY <1>3, <1>4, <1>5, <1>6 DEF CalmInv

(* A session with two lapses is past caring.                               *)
LEMMA Uneven ==
  ASSUME CalmInv, ~Plain', ~Odd', connects' \in Nat, revokes' \in Nat,
         UNCHANGED <<isConnected, signer, showDropdown>>
  PROVE  CalmInv'
BY DEF CalmInv

(* One place more, for each kind of message.                               *)
LEMMA PlaceAccepted ==
  ASSUME NEW box \in Seq(Message), NEW On, NEW Con, Steps(box, On, Con),
         Len(box) \notin On, NEW a \in Accounts
  PROVE  \E On2, Con2 :
           /\ Steps(Append(box, Msg("accepted", a)), On2, Con2)
           /\ 0 \in On2 <=> 0 \in On
           /\ 0 \in Con2 <=> 0 \in Con
           /\ Len(box) + 1 \in On2 /\ Len(box) + 1 \in Con2
<1> DEFINE m == Msg("accepted", a)
<1>1. m \in Message /\ m.kind = "accepted"
  BY DEF Msg, Message, Kinds, Account
<1> HIDE DEF m
<1>2. PICK on \in BOOLEAN, con \in BOOLEAN : on /\ con
  OBVIOUS
<1>3. /\ m.kind = "accepted" => Len(box) \notin On /\ on /\ con
      /\ m.kind = "revoked" => Len(box) \in On /\ ~on /\ (con <=> Len(box) \in Con)
      /\ m.kind = "accountsChanged" =>
           (on <=> Len(box) \in On) /\ (con <=> (Len(box) \in Con /\ m.account # NoAccount))
      /\ m.kind = "refused" => (on <=> Len(box) \in On) /\ (con <=> Len(box) \in Con)
  BY <1>1, <1>2
<1>4. m \in Message
  BY <1>1
<1>5. \E On2, Con2 :
         /\ Steps(Append(box, m), On2, Con2)
         /\ \A i \in 0..Len(box) : (i \in On2 <=> i \in On) /\ (i \in Con2 <=> i \in Con)
         /\ Len(box) + 1 \in On2 <=> on
         /\ Len(box) + 1 \in Con2 <=> con
  BY <1>3, <1>4, ExtendSteps
<1>6. 0 \in 0..Len(box)
  BY LenProperties
<1> QED  BY <1>2, <1>5, <1>6 DEF m

(* An event, or a refusal, which no page state follows.                    *)
LEMMA PlaceEvent ==
  ASSUME NEW box \in Seq(Message), NEW On, NEW Con, Steps(box, On, Con),
         NEW m \in Message, m.kind \in {"accountsChanged", "refused"}
  PROVE  \E On2, Con2 :
           /\ Steps(Append(box, m), On2, Con2)
           /\ \A i \in 0..Len(box) : (i \in On2 <=> i \in On) /\ (i \in Con2 <=> i \in Con)
           /\ Len(box) + 1 \in On2 <=> Len(box) \in On
           /\ Len(box) + 1 \in Con2 <=>
                (Len(box) \in Con /\ (m.kind = "refused" \/ m.account # NoAccount))
<1> DEFINE on == Len(box) \in On
           con == Len(box) \in Con /\ (m.kind = "refused" \/ m.account # NoAccount)
<1>1. on \in BOOLEAN /\ con \in BOOLEAN
  OBVIOUS
<1>2. /\ m.kind = "accepted" => Len(box) \notin On /\ on /\ con
      /\ m.kind = "revoked" => Len(box) \in On /\ ~on /\ (con <=> Len(box) \in Con)
      /\ m.kind = "accountsChanged" =>
           (on <=> Len(box) \in On) /\ (con <=> (Len(box) \in Con /\ m.account # NoAccount))
      /\ m.kind = "refused" => (on <=> Len(box) \in On) /\ (con <=> Len(box) \in Con)
  OBVIOUS
<1> HIDE DEF on, con
<1>3. \E On2, Con2 :
         /\ Steps(Append(box, m), On2, Con2)
         /\ \A i \in 0..Len(box) : (i \in On2 <=> i \in On) /\ (i \in Con2 <=> i \in Con)
         /\ Len(box) + 1 \in On2 <=> on
         /\ Len(box) + 1 \in Con2 <=> con
  BY <1>1, <1>2, ExtendSteps
<1> QED  BY <1>3 DEF on, con

(* The answer to a revocation.                                             *)
LEMMA PlaceRevoked ==
  ASSUME NEW box \in Seq(Message), NEW On, NEW Con, Steps(box, On, Con), Len(box) \in On
  PROVE  \E On2, Con2 :
           /\ Steps(Append(box, Msg("revoked", NoAccount)), On2, Con2)
           /\ 0 \in On2 <=> 0 \in On
           /\ 0 \in Con2 <=> 0 \in Con
           /\ Len(box) + 1 \notin On2
           /\ Len(box) + 1 \in Con2 <=> Len(box) \in Con
<1> DEFINE m == Msg("revoked", NoAccount)
           con == Len(box) \in Con
<1>1. m \in Message /\ m.kind = "revoked"
  BY DEF Msg, Message, Kinds, Account
<1> HIDE DEF m
<1>2. PICK on \in BOOLEAN : ~on
  OBVIOUS
<1>3. /\ m.kind = "accepted" => Len(box) \notin On /\ on /\ con
      /\ m.kind = "revoked" => Len(box) \in On /\ ~on /\ (con <=> Len(box) \in Con)
      /\ m.kind = "accountsChanged" =>
           (on <=> Len(box) \in On) /\ (con <=> (Len(box) \in Con /\ m.account # NoAccount))
      /\ m.kind = "refused" => (on <=> Len(box) \in On) /\ (con <=> Len(box) \in Con)
  BY <1>1, <1>2
<1>4. m \in Message /\ con \in BOOLEAN
  BY <1>1
<1> HIDE DEF con
<1>5. \E On2, Con2 :
         /\ Steps(Append(box, m), On2, Con2)
         /\ \A i \in 0..Len(box) : (i \in On2 <=> i \in On) /\ (i \in Con2 <=> i \in Con)
         /\ Len(box) + 1 \in On2 <=> on
         /\ Len(box) + 1 \in Con2 <=> con
  BY <1>3, <1>4, ExtendSteps
<1>6. 0 \in 0..Len(box)
  BY LenProperties
<1> QED  BY <1>2, <1>5, <1>6 DEF m, con

(* What a message that is not a refusal leaves of the box.                 *)
LEMMA Extended ==
  ASSUME NEW box \in Seq(Message), NEW m \in Message
  PROVE  /\ Append(box, m) \in Seq(Message) /\ Len(Append(box, m)) = Len(box) + 1
         /\ Len(box) \in Nat /\ 0 \in 0..Len(box)
         /\ m.kind # "refused" =>
              (Refusal(Append(box, m)) <=> Refusal(box)) /\ (One(box) => One(Append(box, m)))
BY AppendRefusal, AppendProperties, LenProperties

\* The boxes after an acceptance, and after a revocation.
WithAcceptance(box, a) ==
  {Append(box, Msg("accepted", a)),
   Append(Append(box, Msg("accountsChanged", a)), Msg("accepted", a)),
   Append(Append(box, Msg("accepted", a)), Msg("accountsChanged", a))}
WithRevocation(box) ==
  {Append(Append(box, Msg("accountsChanged", NoAccount)), Msg("revoked", NoAccount)),
   Append(Append(box, Msg("revoked", NoAccount)), Msg("accountsChanged", NoAccount))}

(* An acceptance, with the event of the change or without.                 *)
LEMMA AcceptSteps ==
  ASSUME NEW box \in Seq(Message), NEW On, NEW Con, Steps(box, On, Con),
         NEW a \in Accounts, Len(box) \notin On,
         NEW box2 \in WithAcceptance(box, a)
  PROVE  /\ box2 \in Seq(Message)
         /\ Refusal(box2) <=> Refusal(box)
         /\ One(box) => One(box2)
         /\ \E On2, Con2 :
              /\ Steps(box2, On2, Con2)
              /\ 0 \in On2 <=> 0 \in On
              /\ 0 \in Con2 <=> 0 \in Con
              /\ Len(box2) \in On2 /\ Len(box2) \in Con2
<1> DEFINE m == Msg("accepted", a)
           e == Msg("accountsChanged", a)
           b == Append(box, m)
           c == Append(box, e)
<1>1. /\ m \in Message /\ m.kind = "accepted"
      /\ e \in Message /\ e.kind = "accountsChanged" /\ e.account # NoAccount
  BY AccountAssumption DEF Msg, Message, Kinds, Account
<1>2. PICK O1, C1 :
        /\ Steps(b, O1, C1)
        /\ 0 \in O1 <=> 0 \in On
        /\ 0 \in C1 <=> 0 \in Con
        /\ Len(box) + 1 \in O1 /\ Len(box) + 1 \in C1
  BY PlaceAccepted
<1>3. PICK O2, C2 :
        /\ Steps(c, O2, C2)
        /\ \A i \in 0..Len(box) : (i \in O2 <=> i \in On) /\ (i \in C2 <=> i \in Con)
        /\ Len(box) + 1 \in O2 <=> Len(box) \in On
  <2> HIDE DEF e
  <2> QED  BY <1>1, PlaceEvent
<1> HIDE DEF m, e
<1>4. /\ b \in Seq(Message) /\ Len(b) = Len(box) + 1 /\ 0 \in 0..Len(box)
      /\ Refusal(b) <=> Refusal(box)
      /\ One(box) => One(b)
      /\ c \in Seq(Message) /\ Len(c) = Len(box) + 1
      /\ Refusal(c) <=> Refusal(box)
      /\ One(box) => One(c)
  BY <1>1, Extended
<1> HIDE DEF b, c
<1>5. CASE box2 = b
  BY <1>2, <1>4, <1>5
<1>6. CASE box2 = Append(c, m)
  <2>1. \E O3, C3 :
          /\ Steps(box2, O3, C3)
          /\ 0 \in O3 <=> 0 \in O2
          /\ 0 \in C3 <=> 0 \in C2
          /\ Len(c) + 1 \in O3 /\ Len(c) + 1 \in C3
    BY <1>3, <1>4, <1>6, PlaceAccepted DEF m
  <2>2. /\ box2 \in Seq(Message) /\ Len(box2) = Len(c) + 1
        /\ Refusal(box2) <=> Refusal(box)
        /\ One(box) => One(box2)
    BY <1>1, <1>4, <1>6, Extended
  <2> QED  BY <1>3, <1>4, <2>1, <2>2
<1>7. CASE box2 = Append(b, e)
  <2>1. \E O3, C3 :
          /\ Steps(box2, O3, C3)
          /\ \A i \in 0..Len(b) : (i \in O3 <=> i \in O1) /\ (i \in C3 <=> i \in C1)
          /\ Len(b) + 1 \in O3 <=> Len(b) \in O1
          /\ Len(b) + 1 \in C3 <=>
               (Len(b) \in C1 /\ (e.kind = "refused" \/ e.account # NoAccount))
    BY <1>1, <1>2, <1>4, <1>7, PlaceEvent
  <2>2. /\ box2 \in Seq(Message) /\ Len(box2) = Len(b) + 1 /\ 0 \in 0..Len(b)
        /\ Refusal(box2) <=> Refusal(box)
        /\ One(box) => One(box2)
    BY <1>1, <1>4, <1>7, Extended
  <2> QED  BY <1>1, <1>2, <1>4, <2>1, <2>2
<1> QED  BY <1>5, <1>6, <1>7 DEF WithAcceptance, m, e, b, c

(* The answer to a revocation, with the event of the loss.                 *)
LEMMA RevokeSteps ==
  ASSUME NEW box \in Seq(Message), NEW On, NEW Con, Steps(box, On, Con), Len(box) \in On,
         NEW box2 \in WithRevocation(box)
  PROVE  /\ box2 \in Seq(Message)
         /\ Refusal(box2) <=> Refusal(box)
         /\ One(box) => One(box2)
         /\ \E On2, Con2 :
              /\ Steps(box2, On2, Con2)
              /\ 0 \in On2 <=> 0 \in On
              /\ 0 \in Con2 <=> 0 \in Con
              /\ Len(box2) \notin On2 /\ Len(box2) \notin Con2
<1> DEFINE m == Msg("revoked", NoAccount)
           e == Msg("accountsChanged", NoAccount)
           b == Append(box, m)
           c == Append(box, e)
<1>1. /\ m \in Message /\ m.kind = "revoked"
      /\ e \in Message /\ e.kind = "accountsChanged" /\ e.account = NoAccount
  BY DEF Msg, Message, Kinds, Account
<1>2. PICK O1, C1 :
        /\ Steps(b, O1, C1)
        /\ 0 \in O1 <=> 0 \in On
        /\ 0 \in C1 <=> 0 \in Con
        /\ Len(box) + 1 \notin O1
  BY PlaceRevoked
<1>3. PICK O2, C2 :
        /\ Steps(c, O2, C2)
        /\ \A i \in 0..Len(box) : (i \in O2 <=> i \in On) /\ (i \in C2 <=> i \in Con)
        /\ Len(box) + 1 \in O2 <=> Len(box) \in On
        /\ Len(box) + 1 \in C2 <=>
             (Len(box) \in Con /\ (e.kind = "refused" \/ e.account # NoAccount))
  <2> HIDE DEF e
  <2> QED  BY <1>1, PlaceEvent
<1> HIDE DEF m, e
<1>4. /\ b \in Seq(Message) /\ Len(b) = Len(box) + 1 /\ 0 \in 0..Len(box)
      /\ Refusal(b) <=> Refusal(box)
      /\ One(box) => One(b)
      /\ c \in Seq(Message) /\ Len(c) = Len(box) + 1
      /\ Refusal(c) <=> Refusal(box)
      /\ One(box) => One(c)
  BY <1>1, Extended
<1> HIDE DEF b, c
<1>5. CASE box2 = Append(c, m)
  <2>1. Len(c) \in O2 /\ Len(c) \notin C2
    BY <1>1, <1>3, <1>4
  <2>2. \E O3, C3 :
          /\ Steps(box2, O3, C3)
          /\ 0 \in O3 <=> 0 \in O2
          /\ 0 \in C3 <=> 0 \in C2
          /\ Len(c) + 1 \notin O3
          /\ Len(c) + 1 \in C3 <=> Len(c) \in C2
    BY <1>3, <1>4, <1>5, <2>1, PlaceRevoked DEF m
  <2>3. /\ box2 \in Seq(Message) /\ Len(box2) = Len(c) + 1
        /\ Refusal(box2) <=> Refusal(box)
        /\ One(box) => One(box2)
    BY <1>1, <1>4, <1>5, Extended
  <2> QED  BY <1>3, <1>4, <2>1, <2>2, <2>3
<1>6. CASE box2 = Append(b, e)
  <2>1. \E O3, C3 :
          /\ Steps(box2, O3, C3)
          /\ \A i \in 0..Len(b) : (i \in O3 <=> i \in O1) /\ (i \in C3 <=> i \in C1)
          /\ Len(b) + 1 \in O3 <=> Len(b) \in O1
          /\ Len(b) + 1 \in C3 <=>
               (Len(b) \in C1 /\ (e.kind = "refused" \/ e.account # NoAccount))
    BY <1>1, <1>2, <1>4, <1>6, PlaceEvent
  <2>2. /\ box2 \in Seq(Message) /\ Len(box2) = Len(b) + 1 /\ 0 \in 0..Len(b)
        /\ Refusal(box2) <=> Refusal(box)
        /\ One(box) => One(box2)
    BY <1>1, <1>4, <1>6, Extended
  <2> QED  BY <1>1, <1>2, <1>4, <2>1, <2>2
<1> QED  BY <1>5, <1>6 DEF WithRevocation, m, e, b, c

\* What a box is after Tell, as messages put at its end.
TellShapes ==
  /\ \A a \in Accounts : Tell(a, Msg("accepted", a)) =>
       inbox' \in WithAcceptance(inbox, a)
  /\ granted # NoAccount /\ Tell(NoAccount, Msg("revoked", NoAccount)) =>
       inbox' \in WithRevocation(inbox)

(* Tell puts its messages at the end of the box.                           *)
LEMMA Telling ==
  ASSUME Typed
  PROVE  TellShapes
<1>1. inbox \in Seq(Message) /\ granted \in Account
  BY DEF Typed
<1>2. ASSUME NEW m \in Message, NEW e \in Message,
             \/ inbox' = inbox \o <<e>> \o <<m>>
             \/ inbox' = inbox \o <<m>> \o <<e>>
      PROVE  inbox' \in {Append(Append(inbox, e), m), Append(Append(inbox, m), e)}
  BY <1>1, <1>2, Appending
<1>3. ASSUME NEW m \in Message,
             \/ inbox' = inbox \o <<>> \o <<m>>
             \/ inbox' = inbox \o <<m>> \o <<>>
      PROVE  inbox' = Append(inbox, m)
  BY <1>1, <1>3, Appending
<1>4. ASSUME NEW a \in Accounts, Tell(a, Msg("accepted", a))
      PROVE  inbox' \in WithAcceptance(inbox, a)
  <2>1. Msg("accepted", a) \in Message /\ Msg("accountsChanged", a) \in Message
    BY DEF Msg, Message, Kinds, Account
  <2>2. CASE a = granted
    BY <1>3, <1>4, <2>1, <2>2 DEF Tell, Announce, WithAcceptance
  <2>3. CASE a # granted
    BY <1>2, <1>4, <2>1, <2>3 DEF Tell, Announce, WithAcceptance
  <2> QED  BY <2>2, <2>3
<1>5. ASSUME granted # NoAccount, Tell(NoAccount, Msg("revoked", NoAccount))
      PROVE  inbox' \in WithRevocation(inbox)
  <2>1. Msg("revoked", NoAccount) \in Message /\ Msg("accountsChanged", NoAccount) \in Message
    BY DEF Msg, Message, Kinds, Account
  <2>2. \/ inbox' = inbox \o <<Msg("accountsChanged", NoAccount)>> \o <<Msg("revoked", NoAccount)>>
        \/ inbox' = inbox \o <<Msg("revoked", NoAccount)>> \o <<Msg("accountsChanged", NoAccount)>>
    BY <1>5 DEF Tell, Announce
  <2> QED  BY <1>2, <2>1, <2>2 DEF WithRevocation
<1> QED  BY <1>4, <1>5 DEF TellShapes

(* A wallet that grants an account ends the request.                       *)
LEMMA AcceptsCalm ==
  ASSUME CalmInv, Typed, NEW a \in Accounts, WalletAccepts(a)
  PROVE  CalmInv'
<1>1. /\ connects > 0 /\ connects' = connects - 1 /\ granted' = a /\ revokes' = revokes
      /\ UNCHANGED <<isConnected, signer, walletConnected, showDropdown, lapses>>
      /\ Tell(a, Msg("accepted", a)) /\ a # NoAccount
  BY AccountAssumption DEF WalletAccepts, pageVars, componentVars, storeVars
<1>2. connects \in Nat /\ revokes \in Nat /\ connects' \in Nat /\ revokes' \in Nat
  BY <1>1 DEF CalmInv
<1>3. inbox' \in WithAcceptance(inbox, a)
  BY <1>1, Telling DEF TellShapes
<1>4. inbox \in Seq(Message) /\ Len(inbox) \in Nat
  BY LenProperties DEF Typed
<1>5. CASE ~(Plain \/ Odd)
  BY <1>1, <1>2, <1>5, Uneven DEF Plain, Odd
<1>6. CASE Plain \/ Odd
  <2>1. PICK On, Con :
          /\ Calm(inbox, granted, connects, revokes, On, Con)
          /\ StartsAt(inbox, isConnected, walletConnected, ~showDropdown,
                      Plain \/ Refusal(inbox), granted, On, Con)
    BY <1>6 DEF CalmInv
  <2>2. connects = 1 /\ Len(inbox) \in 0..Len(inbox)
    BY <1>1, <1>2, <1>4, <2>1 DEF Calm
  <2>3. Steps(inbox, On, Con) /\ Len(inbox) \notin On /\ revokes = 0
    BY <2>1, <2>2 DEF Calm
  <2>4. ASSUME NEW box2 \in WithAcceptance(inbox, a)
        PROVE  /\ Refusal(box2) <=> Refusal(inbox)
               /\ One(inbox) => One(box2)
               /\ \E On2, Con2 :
                    /\ Steps(box2, On2, Con2)
                    /\ 0 \in On2 <=> 0 \in On
                    /\ 0 \in Con2 <=> 0 \in Con
                    /\ Len(box2) \in On2 /\ Len(box2) \in Con2
    BY <1>4, <2>3, AcceptSteps
  <2>5. /\ Refusal(inbox') <=> Refusal(inbox)
        /\ One(inbox) => One(inbox')
    BY <1>3, <2>4
  <2>6. PICK On2, Con2 :
          /\ Steps(inbox', On2, Con2)
          /\ 0 \in On2 <=> 0 \in On
          /\ 0 \in Con2 <=> 0 \in Con
          /\ Len(inbox') \in On2 /\ Len(inbox') \in Con2
    BY <1>3, <2>4
  <2>7. Calm(inbox', granted', connects', revokes', On2, Con2)
    BY <1>1, <2>2, <2>3, <2>6 DEF Calm
  <2> QED  BY <1>1, <1>2, <2>1, <2>5, <2>6, <2>7, SameLapses
<1> QED  BY <1>5, <1>6

(* So does one that takes the permission back when asked.                  *)
LEMMA RevokesCalm ==
  ASSUME CalmInv, Typed, WalletRevokes
  PROVE  CalmInv'
<1>1. /\ revokes > 0 /\ revokes' = revokes - 1 /\ granted' = NoAccount /\ connects' = connects
      /\ UNCHANGED <<isConnected, signer, walletConnected, showDropdown, lapses>>
      /\ Tell(NoAccount, Msg("revoked", NoAccount))
  BY DEF WalletRevokes, pageVars, componentVars, storeVars
<1>2. connects \in Nat /\ revokes \in Nat /\ connects' \in Nat /\ revokes' \in Nat
  BY <1>1 DEF CalmInv
<1>3. inbox \in Seq(Message) /\ Len(inbox) \in Nat
  BY LenProperties DEF Typed
<1>4. CASE ~(Plain \/ Odd)
  BY <1>1, <1>2, <1>4, Uneven DEF Plain, Odd
<1>5. CASE Plain \/ Odd
  <2>1. PICK On, Con :
          /\ Calm(inbox, granted, connects, revokes, On, Con)
          /\ StartsAt(inbox, isConnected, walletConnected, ~showDropdown,
                      Plain \/ Refusal(inbox), granted, On, Con)
    BY <1>5 DEF CalmInv
  <2>2. revokes = 1 /\ Len(inbox) \in 0..Len(inbox)
    BY <1>1, <1>2, <1>3, <2>1 DEF Calm
  <2>3. /\ Steps(inbox, On, Con) /\ Len(inbox) \in On /\ connects = 0 /\ granted # NoAccount
    BY <2>1, <2>2 DEF Calm
  <2>4. inbox' \in WithRevocation(inbox)
    BY <1>1, <2>3, Telling DEF TellShapes
  <2>5. ASSUME NEW box2 \in WithRevocation(inbox)
        PROVE  /\ Refusal(box2) <=> Refusal(inbox)
               /\ One(inbox) => One(box2)
               /\ \E On2, Con2 :
                    /\ Steps(box2, On2, Con2)
                    /\ 0 \in On2 <=> 0 \in On
                    /\ 0 \in Con2 <=> 0 \in Con
                    /\ Len(box2) \notin On2 /\ Len(box2) \notin Con2
    BY <1>3, <2>3, RevokeSteps
  <2>6. /\ Refusal(inbox') <=> Refusal(inbox)
        /\ One(inbox) => One(inbox')
    BY <2>4, <2>5
  <2>7. PICK On2, Con2 :
          /\ Steps(inbox', On2, Con2)
          /\ 0 \in On2 <=> 0 \in On
          /\ 0 \in Con2 <=> 0 \in Con
          /\ Len(inbox') \notin On2 /\ Len(inbox') \notin Con2
    BY <2>4, <2>5
  <2>8. Calm(inbox', granted', connects', revokes', On2, Con2)
    BY <1>1, <2>2, <2>3, <2>7 DEF Calm
  <2> QED  BY <1>1, <1>2, <2>1, <2>6, <2>7, <2>8, SameLapses
<1> QED  BY <1>4, <1>5

(* A revocation that fails leaves things as they were before it was asked. *)
LEMMA RevokeFailsCalm ==
  ASSUME CalmInv, Typed, WalletRevokeFails
  PROVE  CalmInv'
<1>1. /\ revokes > 0 /\ revokes' = revokes - 1
      /\ UNCHANGED <<isConnected, signer, walletConnected, showDropdown, lapses>>
      /\ UNCHANGED <<granted, connects, inbox>>
  BY DEF WalletRevokeFails, pageVars, componentVars, storeVars
<1>2. connects \in Nat /\ revokes \in Nat /\ connects' \in Nat /\ revokes' \in Nat
  BY <1>1 DEF CalmInv
<1>3. CASE ~(Plain \/ Odd)
  BY <1>1, <1>2, <1>3, Uneven DEF Plain, Odd
<1>4. CASE Plain \/ Odd
  <2>1. PICK On, Con :
          /\ Calm(inbox, granted, connects, revokes, On, Con)
          /\ StartsAt(inbox, isConnected, walletConnected, ~showDropdown,
                      Plain \/ Refusal(inbox), granted, On, Con)
    BY <1>4 DEF CalmInv
  <2>2. Calm(inbox', granted', connects', revokes', On, Con)
    BY <1>1, <1>2, <2>1 DEF Calm
  <2>3. granted' # NoAccount /\ Len(inbox') \notin On => ~showDropdown
    BY <1>1, <2>1 DEF StartsAt
  <2> QED  BY <1>1, <1>2, <2>1, <2>2, <2>3, SameLapses
<1> QED  BY <1>3, <1>4

(* A change of account in the wallet's own window.                         *)
LEMMA SwitchesCalm ==
  ASSUME CalmInv, Typed, NEW a \in Accounts, WalletSwitches(a)
  PROVE  CalmInv'
<1> DEFINE e == Msg("accountsChanged", a)
<1>1. /\ granted # NoAccount /\ granted' = a /\ a # NoAccount
      /\ UNCHANGED <<isConnected, signer, walletConnected, showDropdown, lapses>>
      /\ UNCHANGED <<connects, revokes>> /\ inbox' = inbox \o <<e>>
  BY AccountAssumption DEF WalletSwitches, Announce, pageVars, componentVars, storeVars
<1>2. connects \in Nat /\ revokes \in Nat /\ connects' \in Nat /\ revokes' \in Nat
  BY <1>1 DEF CalmInv
<1>3. e \in Message /\ e.kind = "accountsChanged" /\ e.account = a
  BY DEF Msg, Message, Kinds, Account
<1> HIDE DEF e
<1>4. inbox \in Seq(Message) /\ inbox' = Append(inbox, e)
  BY <1>1, <1>3, Appending DEF Typed
<1>5. /\ Refusal(inbox') <=> Refusal(inbox)
      /\ One(inbox) => One(inbox')
      /\ Len(inbox') = Len(inbox) + 1 /\ Len(inbox) \in Nat
  BY <1>3, <1>4, Extended
<1>6. CASE ~(Plain \/ Odd)
  BY <1>1, <1>2, <1>6, Uneven DEF Plain, Odd
<1>7. CASE Plain \/ Odd
  <2>1. PICK On, Con :
          /\ Calm(inbox, granted, connects, revokes, On, Con)
          /\ StartsAt(inbox, isConnected, walletConnected, ~showDropdown,
                      Plain \/ Refusal(inbox), granted, On, Con)
    BY <1>7 DEF CalmInv
  <2>2. Steps(inbox, On, Con)
    BY <2>1 DEF Calm
  <2>3. PICK On2, Con2 :
          /\ Steps(inbox', On2, Con2)
          /\ \A i \in 0..Len(inbox) : (i \in On2 <=> i \in On) /\ (i \in Con2 <=> i \in Con)
          /\ Len(inbox) + 1 \in On2 <=> Len(inbox) \in On
          /\ Len(inbox) + 1 \in Con2 <=>
               (Len(inbox) \in Con /\ (e.kind = "refused" \/ e.account # NoAccount))
    BY <1>3, <1>4, <2>2, PlaceEvent
  <2>4. /\ Len(inbox') \in On2 <=> Len(inbox) \in On
        /\ Len(inbox') \in Con2 <=> Len(inbox) \in Con
    BY <1>1, <1>3, <1>5, <2>3
  <2>5. ASSUME \A i \in 0..Len(inbox) : i \notin Con, NEW i \in 0..Len(inbox')
        PROVE  i \notin Con2
    <3>1. CASE i = Len(inbox')
      BY <1>5, <2>4, <2>5, <3>1
    <3>2. CASE i # Len(inbox')
      <4>1. i \in 0..Len(inbox)
        BY <1>5, <3>2
      <4> QED  BY <2>3, <2>5, <4>1
    <3> QED  BY <3>1, <3>2
  <2>6. Calm(inbox', granted', connects', revokes', On2, Con2)
    BY <1>1, <2>1, <2>3, <2>4, <2>5 DEF Calm
  <2>7. (0 \in On2 <=> 0 \in On) /\ (0 \in Con2 <=> 0 \in Con)
    BY <1>5, <2>3
  <2>8. granted' # NoAccount /\ Len(inbox') \notin On2 => ~showDropdown
    BY <1>1, <2>1, <2>4 DEF StartsAt
  <2> QED  BY <1>1, <1>2, <1>5, <2>1, <2>6, <2>7, <2>8, SameLapses
<1> QED  BY <1>6, <1>7

(* The first refused request of a session waits to be handled.             *)
LEMMA RefusesCalm ==
  ASSUME CalmInv, Typed, WalletRefuses
  PROVE  CalmInv'
<1> DEFINE m == Msg("refused", NoAccount)
<1>1. /\ connects > 0 /\ connects' = connects - 1 /\ granted = NoAccount
      /\ UNCHANGED <<isConnected, signer, walletConnected, showDropdown>>
      /\ UNCHANGED <<granted, revokes>> /\ inbox' = Append(inbox, m)
      /\ lapses' = Append(lapses, "refused")
  BY DEF WalletRefuses, Lapses, pageVars, componentVars, storeVars
<1>2. connects \in Nat /\ revokes \in Nat /\ connects' \in Nat /\ revokes' \in Nat
  BY <1>1 DEF CalmInv
<1>3. m \in Message /\ m.kind = "refused"
  BY DEF Msg, Message, Kinds, Account
<1> HIDE DEF m
<1>4. inbox \in Seq(Message) /\ lapses \in Seq(Lapse) /\ "refused" \in Lapse
  BY DEF Typed, Lapse
<1>5. ~Plain' /\ (Odd' => Plain)
  BY <1>1, <1>4, LapseFacts DEF Plain, Odd
<1>6. CASE ~Odd'
  BY <1>1, <1>2, <1>5, <1>6, Uneven
<1>7. CASE Odd'
  <2>1. PICK On, Con :
          /\ Calm(inbox, granted, connects, revokes, On, Con)
          /\ StartsAt(inbox, isConnected, walletConnected, ~showDropdown,
                      Plain \/ Refusal(inbox), granted, On, Con)
    BY <1>5, <1>7 DEF CalmInv
  <2>2. /\ Len(inbox') = Len(inbox) + 1 /\ Len(inbox) \in Nat
        /\ Refusal(inbox') /\ One(inbox')
    BY <1>1, <1>3, <1>4, <1>5, <1>7, Extended, AppendRefusal DEF CalmInv
  <2>3. Steps(inbox, On, Con) /\ connects = 1 /\ Len(inbox) \notin On /\ Len(inbox) \notin Con
    BY <1>1, <1>2, <2>1, <2>2 DEF Calm
  <2>4. PICK On2, Con2 :
          /\ Steps(inbox', On2, Con2)
          /\ \A i \in 0..Len(inbox) : (i \in On2 <=> i \in On) /\ (i \in Con2 <=> i \in Con)
          /\ Len(inbox) + 1 \in On2 <=> Len(inbox) \in On
          /\ Len(inbox) + 1 \in Con2 <=>
               (Len(inbox) \in Con /\ (m.kind = "refused" \/ m.account # NoAccount))
    BY <1>1, <1>3, <1>4, <2>3, PlaceEvent
  <2>5. Len(inbox') \notin On2 /\ Len(inbox') \notin Con2 /\ connects' = 0 /\ revokes' = 0
    BY <1>1, <1>2, <2>1, <2>2, <2>3, <2>4 DEF Calm
  <2>6. Calm(inbox', granted', connects', revokes', On2, Con2)
    <3>1. granted' = NoAccount
      BY <1>1
    <3> QED  BY <2>4, <2>5, <3>1 DEF Calm
  <2>7. (0 \in On2 <=> 0 \in On) /\ (0 \in Con2 <=> 0 \in Con)
    BY <2>2, <2>4
  <2>8. StartsAt(inbox', isConnected', walletConnected', ~showDropdown',
                 Plain' \/ Refusal(inbox'), granted', On2, Con2)
    BY <1>1, <1>5, <1>7, <2>1, <2>2, <2>7 DEF StartsAt
  <2>9. isConnected' \in BOOLEAN /\ signer' \in BOOLEAN /\ showDropdown' \in BOOLEAN
    BY <1>1 DEF CalmInv
  <2> QED  BY <1>2, <1>5, <2>2, <2>6, <2>8, <2>9 DEF CalmInv
<1> QED  BY <1>6, <1>7

(* The wallet's steps.                                                     *)
LEMMA WalletStepCalm ==
  ASSUME CalmInv, Typed, WalletStep
  PROVE  CalmInv'
<1>1. CASE WalletForgets
  <2>1. lapses \in Seq(Lapse) /\ "forgotten" \in Lapse /\ lapses' = Append(lapses, "forgotten")
    BY <1>1 DEF WalletForgets, Lapses, Typed, Lapse
  <2>2. ~Plain' /\ ~Odd'
    BY <2>1, LapseFacts DEF Plain, Odd
  <2> QED  BY <1>1, <2>2, Uneven
           DEF WalletForgets, pageVars, componentVars, storeVars, CalmInv
<1> QED  BY <1>1, AcceptsCalm, RevokesCalm, RevokeFailsCalm, SwitchesCalm, RefusesCalm
         DEF WalletStep

(* A message that is handled: what is foreseen moves one place down.       *)
LEMMA TailCalm ==
  ASSUME NEW box \in Seq(Message), box # <<>>, NEW g, NEW c, NEW r, NEW On, NEW Con,
         Calm(box, g, c, r, On, Con)
  PROVE  /\ StepOk(Head(box), 1, On, Con)
         /\ \E On2, Con2 :
              /\ Calm(Tail(box), g, c, r, On2, Con2)
              /\ 0 \in On2 <=> 1 \in On
              /\ 0 \in Con2 <=> 1 \in Con
              /\ Len(Tail(box)) \in On2 <=> Len(box) \in On
<1>1. Steps(box, On, Con)
  BY DEF Calm
<1>2. /\ StepOk(Head(box), 1, On, Con)
      /\ Len(box) \in Nat \ {0} /\ Len(Tail(box)) = Len(box) - 1
      /\ \E On2, Con2 :
           /\ Steps(Tail(box), On2, Con2)
           /\ \A i \in 0..Len(Tail(box)) :
                (i \in On2 <=> i + 1 \in On) /\ (i \in Con2 <=> i + 1 \in Con)
  BY <1>1, TailSteps
<1>3. PICK On2, Con2 :
        /\ Steps(Tail(box), On2, Con2)
        /\ \A i \in 0..Len(Tail(box)) :
             (i \in On2 <=> i + 1 \in On) /\ (i \in Con2 <=> i + 1 \in Con)
  BY <1>2
<1>4. /\ 0 \in 0..Len(Tail(box)) /\ Len(Tail(box)) \in 0..Len(Tail(box))
      /\ Len(Tail(box)) + 1 = Len(box) /\ 0 + 1 = 1
      /\ \A i \in 0..Len(Tail(box)) : i + 1 \in 0..Len(box)
  BY <1>2
<1>5. /\ 0 \in On2 <=> 1 \in On
      /\ 0 \in Con2 <=> 1 \in Con
      /\ Len(Tail(box)) \in On2 <=> Len(box) \in On
      /\ Len(Tail(box)) \in Con2 <=> Len(box) \in Con
  BY <1>3, <1>4
<1>6. (\A i \in 0..Len(box) : i \notin Con) => \A i \in 0..Len(Tail(box)) : i \notin Con2
  BY <1>3, <1>4
<1>7. Calm(Tail(box), g, c, r, On2, Con2)
  BY <1>3, <1>5, <1>6 DEF Calm
<1> QED  BY <1>2, <1>5, <1>7

(* The page on a message of the wallet.                                    *)
LEMMA ReceiveCalm ==
  ASSUME CalmInv, Typed, Receive
  PROVE  CalmInv'
<1> DEFINE m == Head(inbox)
           s == Tail(inbox)
           straight == Plain \/ Refusal(inbox)
<1>1. /\ inbox \in Seq(Message) /\ inbox # <<>> /\ inbox' = s
      /\ granted' = granted /\ connects' = connects /\ revokes' = revokes
      /\ lapses' = lapses
  BY DEF Receive, Typed, walletVars
<1>2. /\ isConnected \in BOOLEAN /\ signer \in BOOLEAN /\ showDropdown \in BOOLEAN
      /\ walletConnected \in BOOLEAN /\ connects \in Nat /\ revokes \in Nat
      /\ Plain => ~Refusal(inbox) /\ (signer <=> isConnected)
      /\ Odd => One(inbox)
  BY DEF CalmInv, Typed
<1>3. /\ m.kind # "refused" => (Refusal(s) <=> Refusal(inbox))
      /\ One(inbox) => One(s)
      /\ m.kind = "refused" => Refusal(inbox)
      /\ m.kind = "refused" /\ One(inbox) => ~Refusal(s)
  BY <1>1, TailRefusal
<1>4. (Plain' <=> Plain) /\ (Odd' <=> Odd)
  BY <1>1 DEF Plain, Odd
<1>5. /\ isConnected' \in BOOLEAN /\ signer' \in BOOLEAN /\ showDropdown' \in BOOLEAN
  BY <1>2 DEF Receive, handleAccountsChanged, Accepted, Refused, Revoked, changeConnection,
              componentVars
<1>6. ASSUME Plain \/ Odd
      PROVE  /\ \E On2, Con2 :
                  /\ Calm(s, granted, connects, revokes, On2, Con2)
                  /\ StartsAt(s, isConnected', walletConnected', ~showDropdown',
                              Plain \/ Refusal(s), granted, On2, Con2)
             /\ Plain => ~Refusal(s) /\ (signer' <=> isConnected')
  <2>1. PICK On, Con :
          /\ Calm(inbox, granted, connects, revokes, On, Con)
          /\ StartsAt(inbox, isConnected, walletConnected, ~showDropdown,
                      Plain \/ Refusal(inbox), granted, On, Con)
    BY <1>6 DEF CalmInv
  <2>2. StepOk(m, 1, On, Con) /\ 1 - 1 = 0
    BY <1>1, <2>1, TailCalm
  <2>3. PICK On2, Con2 :
          /\ Calm(s, granted, connects, revokes, On2, Con2)
          /\ 0 \in On2 <=> 1 \in On
          /\ 0 \in Con2 <=> 1 \in Con
          /\ Len(s) \in On2 <=> Len(inbox) \in On
    BY <1>1, <2>1, TailCalm
  <2>4. /\ 0 \in Con <=> walletConnected
        /\ 0 \in On <=> (isConnected <=> straight)
        /\ granted # NoAccount /\ Len(inbox) \notin On => ~showDropdown
    BY <2>1 DEF StartsAt
  <2>5. straight \in BOOLEAN
    OBVIOUS
  <2>6. CASE m.kind = "accountsChanged" /\ handleAccountsChanged(m.account)
    <3>1. /\ isConnected' = isConnected /\ signer' = signer /\ showDropdown' = showDropdown
          /\ walletConnected' <=> (walletConnected /\ m.account # NoAccount)
      BY <1>2, <2>6 DEF handleAccountsChanged
    <3>2. (1 \in On <=> 0 \in On) /\ (1 \in Con <=> (0 \in Con /\ m.account # NoAccount))
      BY <2>2, <2>6 DEF StepOk
    <3>3. StartsAt(s, isConnected', walletConnected', ~showDropdown',
                   Plain \/ Refusal(s), granted, On2, Con2)
      BY <1>3, <2>3, <2>4, <2>6, <3>1, <3>2 DEF StartsAt
    <3> QED  BY <1>2, <1>3, <2>3, <2>6, <3>1, <3>3
  <2>7. CASE m.kind = "accepted" /\ Accepted(m.account)
    <3>1. /\ isConnected' <=> ~isConnected
          /\ signer' /\ showDropdown' = showDropdown /\ walletConnected'
      BY <1>2, <2>7 DEF Accepted, changeConnection
    <3>2. 0 \notin On /\ 1 \in On /\ 1 \in Con
      BY <2>2, <2>7 DEF StepOk
    <3>3. ~(isConnected <=> straight)
      BY <2>4, <3>2
    <3>4. isConnected' <=> straight
      BY <1>2, <3>1, <3>3
    <3>5. StartsAt(s, isConnected', walletConnected', ~showDropdown',
                   Plain \/ Refusal(s), granted, On2, Con2)
      BY <1>3, <2>3, <2>4, <2>7, <3>1, <3>2, <3>4 DEF StartsAt
    <3> QED  BY <1>2, <1>3, <2>3, <2>7, <3>1, <3>4, <3>5
  <2>8. CASE m.kind = "refused" /\ Refused
    <3>1. /\ isConnected' <=> ~isConnected
          /\ showDropdown' = showDropdown /\ walletConnected' = walletConnected
      BY <1>2, <2>8 DEF Refused, changeConnection, componentVars
    <3>2. (1 \in On <=> 0 \in On) /\ (1 \in Con <=> 0 \in Con)
      BY <2>2, <2>8 DEF StepOk
    <3>3. ~Plain /\ Odd /\ straight /\ ~Refusal(s)
      BY <1>2, <1>3, <1>6, <2>8
    <3>4. ~(Plain \/ Refusal(s)) /\ (0 \in On2 <=> ~isConnected')
      BY <2>3, <2>4, <3>1, <3>2, <3>3
    <3>5. StartsAt(s, isConnected', walletConnected', ~showDropdown',
                   Plain \/ Refusal(s), granted, On2, Con2)
      BY <2>3, <2>4, <3>1, <3>2, <3>4 DEF StartsAt
    <3> QED  BY <2>3, <3>3, <3>5
  <2>9. CASE m.kind = "revoked" /\ Revoked
    <3>1. /\ isConnected' <=> ~isConnected
          /\ ~signer' /\ ~showDropdown' /\ walletConnected' = walletConnected
      BY <1>2, <2>9 DEF Revoked, changeConnection
    <3>2. 0 \in On /\ 1 \notin On /\ (1 \in Con <=> 0 \in Con)
      BY <2>2, <2>9 DEF StepOk
    <3>3. ~(isConnected' <=> straight)
      BY <2>4, <3>1, <3>2
    <3>4. StartsAt(s, isConnected', walletConnected', ~showDropdown',
                   Plain \/ Refusal(s), granted, On2, Con2)
      BY <1>3, <2>3, <2>4, <2>9, <3>1, <3>2, <3>3 DEF StartsAt
    <3>5. Plain => ~isConnected'
      BY <3>3
    <3> QED  BY <1>2, <1>3, <2>3, <2>9, <3>1, <3>4, <3>5
  <2> QED  BY <2>6, <2>7, <2>8, <2>9 DEF Receive
<1> QED  BY <1>1, <1>2, <1>3, <1>4, <1>5, <1>6 DEF CalmInv

(* The clicks that ask the wallet for nothing.                             *)
LEMMA ClicksCalm ==
  ASSUME CalmInv, Typed, handleWallet \/ CloseModal
  PROVE  CalmInv'
<1>1. /\ UNCHANGED <<walletConnected, isConnected, signer, granted, connects, revokes, inbox, lapses>>
      /\ showDropdown' = showDropdown \/ walletConnected
      /\ showDropdown' \in BOOLEAN
  BY DEF handleWallet, CloseModal, storeVars, walletVars, CalmInv
<1>2. (Plain' <=> Plain) /\ (Odd' <=> Odd)
  BY <1>1 DEF Plain, Odd
<1>3. ASSUME Plain \/ Odd
      PROVE  \E On, Con :
               /\ Calm(inbox, granted, connects, revokes, On, Con)
               /\ StartsAt(inbox, isConnected, walletConnected, ~showDropdown',
                           Plain \/ Refusal(inbox), granted, On, Con)
  <2>1. PICK On, Con :
          /\ Calm(inbox, granted, connects, revokes, On, Con)
          /\ StartsAt(inbox, isConnected, walletConnected, ~showDropdown,
                      Plain \/ Refusal(inbox), granted, On, Con)
    BY <1>3 DEF CalmInv
  <2>2. 0 \in 0..Len(inbox)
    BY LenProperties DEF Typed
  <2>3. walletConnected => ~(granted # NoAccount /\ Len(inbox) \notin On)
    BY <2>1, <2>2 DEF Calm, StartsAt
  <2>4. StartsAt(inbox, isConnected, walletConnected, ~showDropdown',
                 Plain \/ Refusal(inbox), granted, On, Con)
    BY <1>1, <2>1, <2>3 DEF StartsAt
  <2> QED  BY <2>1, <2>4
<1> QED  BY <1>1, <1>2, <1>3 DEF CalmInv

(* A request to connect: a lapse while another is open, and made for a page*)
(* that will not be connected by a message under way otherwise.            *)
LEMMA ConnectCalm ==
  ASSUME CalmInv, Typed, connectWithMetamask
  PROVE  CalmInv'
<1>1. /\ connects' = connects + 1
      /\ UNCHANGED <<isConnected, signer, walletConnected, showDropdown, granted, revokes, inbox>>
  BY DEF connectWithMetamask, pageVars, componentVars, storeVars
<1>2. connects \in Nat /\ connects' \in Nat /\ revokes' \in Nat
  BY <1>1 DEF CalmInv
<1>3. CASE lapses' = Append(lapses, "doubled")
  <2>1. "doubled" \in Lapse /\ lapses \in Seq(Lapse)
    BY DEF Lapse, Typed
  <2>2. ~Plain' /\ ~Odd'
    BY <1>3, <2>1, LapseFacts DEF Plain, Odd
  <2> QED  BY <1>1, <1>2, <2>2, Uneven
<1>4. CASE lapses' = lapses /\ connects = 0 /\ ~walletConnected /\ ~Awaited({"accepted", "refused"})
  <2>1. CASE ~(Plain \/ Odd)
    BY <1>1, <1>2, <1>4, <2>1, Uneven DEF Plain, Odd
  <2>2. CASE Plain \/ Odd
    <3>1. PICK On, Con :
            /\ Calm(inbox, granted, connects, revokes, On, Con)
            /\ StartsAt(inbox, isConnected, walletConnected, ~showDropdown,
                        Plain \/ Refusal(inbox), granted, On, Con)
      BY <2>2 DEF CalmInv
    <3>2. inbox \in Seq(Message) /\ DOMAIN inbox = 1..Len(inbox) /\ 0 \in 0..Len(inbox)
      BY LenProperties DEF Typed
    <3>3. \A j \in 1..Len(inbox) : inbox[j].kind # "accepted"
      BY <1>4, <3>2 DEF Awaited
    <3>4. 0 \notin Con
      BY <1>4, <3>1 DEF StartsAt
    <3>5. ASSUME NEW k \in 0..Len(inbox) PROVE k \notin Con
      <4>1. 0 <= k
        OBVIOUS
      <4> QED  BY <3>1, <3>2, <3>3, <3>4, <4>1 DEF Calm, Steps, Risen
    <3>6. Calm(inbox', granted', connects', revokes', On, Con)
      BY <1>1, <1>4, <3>1, <3>5 DEF Calm
    <3>7. granted' # NoAccount /\ Len(inbox') \notin On => ~showDropdown
      BY <1>1, <3>1 DEF StartsAt
    <3> QED  BY <1>1, <1>2, <1>4, <3>1, <3>6, <3>7, SameLapses
  <2> QED  BY <2>1, <2>2
<1> QED  BY <1>2, <1>3, <1>4 DEF connectWithMetamask, Lapses

(* A request to disconnect: the dropdown is only open on a page whose flag *)
(* will be up, or on one without an account, and there it is a lapse.      *)
LEMMA DropdownCalm ==
  ASSUME CalmInv, Typed, handleDropdown
  PROVE  CalmInv'
<1>1. /\ revokes' = revokes + 1 /\ showDropdown
      /\ UNCHANGED <<isConnected, signer, walletConnected, showDropdown, granted, connects, inbox>>
  BY DEF handleDropdown, pageVars, componentVars, storeVars
<1>2. revokes \in Nat /\ connects' \in Nat /\ revokes' \in Nat
  BY <1>1 DEF CalmInv
<1>3. CASE lapses' = Append(lapses, "doubled")
  <2>1. "doubled" \in Lapse /\ lapses \in Seq(Lapse)
    BY DEF Lapse, Typed
  <2>2. ~Plain' /\ ~Odd'
    BY <1>3, <2>1, LapseFacts DEF Plain, Odd
  <2> QED  BY <1>1, <1>2, <2>2, Uneven
<1>4. CASE lapses' = lapses /\ revokes = 0 /\ granted # NoAccount
  <2>1. CASE ~(Plain \/ Odd)
    BY <1>1, <1>2, <1>4, <2>1, Uneven DEF Plain, Odd
  <2>2. CASE Plain \/ Odd
    <3>1. PICK On, Con :
            /\ Calm(inbox, granted, connects, revokes, On, Con)
            /\ StartsAt(inbox, isConnected, walletConnected, ~showDropdown,
                        Plain \/ Refusal(inbox), granted, On, Con)
      BY <2>2 DEF CalmInv
    <3>2. Len(inbox) \in On
      BY <1>1, <1>4, <3>1 DEF StartsAt
    <3>3. Calm(inbox', granted', connects', revokes', On, Con)
      BY <1>1, <1>4, <3>1, <3>2 DEF Calm
    <3>4. granted' # NoAccount /\ Len(inbox') \notin On => ~showDropdown
      BY <1>1, <3>2
    <3> QED  BY <1>1, <1>2, <1>4, <3>1, <3>3, <3>4, SameLapses
  <2> QED  BY <2>1, <2>2
<1> QED  BY <1>2, <1>3, <1>4 DEF handleDropdown, Lapses

(* A page just loaded foresees nothing.                                    *)
LEMMA LoadedCalm ==
  ASSUME NEW g, NEW on \in BOOLEAN, NEW shown \in BOOLEAN, NEW down \in BOOLEAN,
         NEW straight \in BOOLEAN, ~on, ~shown, down, straight
  PROVE  /\ Calm(<<>>, g, 0, 0, {}, {})
         /\ StartsAt(<<>>, on, shown, down, straight, g, {}, {})
         /\ ~Refusal(<<>>)
<1>1. Len(<<>>) = 0 /\ \A i \in 1..Len(<<>>) : FALSE
  BY Loaded
<1>2. Steps(<<>>, {}, {}) /\ ~Refusal(<<>>)
  BY <1>1 DEF Steps, Risen, Refusal
<1>3. Calm(<<>>, g, 0, 0, {}, {})
  BY <1>1, <1>2 DEF Calm
<1>4. StartsAt(<<>>, on, shown, down, straight, g, {}, {})
  BY DEF StartsAt
<1> QED  BY <1>2, <1>3, <1>4

(* The page is loaded.                                                     *)
LEMMA InitCalm ==
  ASSUME Init
  PROVE  CalmInv
<1>1. /\ ~walletConnected /\ ~showDropdown /\ ~isConnected /\ ~signer
      /\ walletConnected \in BOOLEAN /\ showDropdown \in BOOLEAN
      /\ isConnected \in BOOLEAN /\ signer \in BOOLEAN
      /\ connects = 0 /\ revokes = 0 /\ inbox = <<>> /\ lapses = <<>>
  BY DEF Init
<1>2. Plain /\ ~Odd
  <2>1. Len(<<"refused">>) = 1 /\ Len(<<>>) = 0
    OBVIOUS
  <2> QED  BY <1>1, <2>1 DEF Plain, Odd
<1> DEFINE down == ~showDropdown
           straight == Plain \/ Refusal(inbox)
<1>3. down /\ straight /\ down \in BOOLEAN /\ straight \in BOOLEAN
  BY <1>1, <1>2
<1> HIDE DEF down, straight
<1>4. /\ Calm(<<>>, granted, 0, 0, {}, {})
      /\ StartsAt(<<>>, isConnected, walletConnected, down, straight, granted, {}, {})
      /\ ~Refusal(<<>>)
  BY <1>1, <1>3, LoadedCalm
<1>5. \E On, Con :
         /\ Calm(inbox, granted, connects, revokes, On, Con)
         /\ StartsAt(inbox, isConnected, walletConnected, ~showDropdown,
                     Plain \/ Refusal(inbox), granted, On, Con)
  BY <1>1, <1>4 DEF down, straight
<1> QED  BY <1>1, <1>2, <1>4, <1>5 DEF CalmInv

(* The page is loaded again.                                               *)
LEMMA ReloadCalm ==
  ASSUME Reload
  PROVE  CalmInv'
<1>1. /\ ~walletConnected' /\ ~showDropdown' /\ ~isConnected' /\ ~signer'
      /\ walletConnected' \in BOOLEAN /\ showDropdown' \in BOOLEAN
      /\ isConnected' \in BOOLEAN /\ signer' \in BOOLEAN
      /\ connects' = 0 /\ revokes' = 0 /\ inbox' = <<>> /\ lapses' = <<>>
  BY DEF Reload
<1>2. Plain' /\ ~Odd'
  <2>1. Len(<<"refused">>) = 1 /\ Len(<<>>) = 0
    OBVIOUS
  <2> QED  BY <1>1, <2>1 DEF Plain, Odd
<1> DEFINE down == ~showDropdown'
           straight == Plain' \/ Refusal(inbox')
<1>3. down /\ straight /\ down \in BOOLEAN /\ straight \in BOOLEAN
  BY <1>1, <1>2
<1> HIDE DEF down, straight
<1>4. /\ Calm(<<>>, granted', 0, 0, {}, {})
      /\ StartsAt(<<>>, isConnected', walletConnected', down, straight, granted', {}, {})
      /\ ~Refusal(<<>>)
  BY <1>1, <1>3, LoadedCalm
<1>5. \E On, Con :
         /\ Calm(inbox', granted', connects', revokes', On, Con)
         /\ StartsAt(inbox', isConnected', walletConnected', ~showDropdown',
                     Plain' \/ Refusal(inbox'), granted', On, Con)
  BY <1>1, <1>4 DEF down, straight
<1> QED  BY <1>1, <1>2, <1>4, <1>5 DEF CalmInv

-----------------------------------------------------------------------------
(* The store's address in a plain session                                  *)

Gone(m) == m.kind = "accountsChanged" /\ m.account = NoAccount

\* Next to every answer to a revocation is the event of the loss, unless it is
\* handled, and a store that was emptied before its page is so by one of them.
Undone(box, shown, stored) ==
  /\ \A i \in 1..Len(box) :
       box[i].kind = "revoked" =>
         \/ i < Len(box) /\ Gone(box[i + 1])
         \/ i > 1 /\ Gone(box[i - 1])
         \/ i = 1 /\ shown = NoAccount
  /\ shown # NoAccount /\ stored = NoAccount => Len(box) > 0 /\ Gone(box[1])

StoreInv == Plain => Undone(inbox, address, userAddress)

(* A message put at the end.                                               *)
LEMMA AppendUndone ==
  ASSUME NEW box \in Seq(Message), NEW m \in Message, NEW shown, NEW stored,
         Undone(box, shown, stored),
         m.kind = "revoked" => Len(box) > 0 /\ Gone(box[Len(box)])
  PROVE  Undone(Append(box, m), shown, stored)
<1> DEFINE s == Append(box, m)
<1>1. /\ Len(s) = Len(box) + 1 /\ Len(box) \in Nat
      /\ \A i \in 1..Len(box) : s[i] = box[i]
      /\ s[Len(box) + 1] = m
  BY AppendProperties
<1> HIDE DEF s
<1>2. ASSUME NEW i \in 1..Len(s), s[i].kind = "revoked"
      PROVE  \/ i < Len(s) /\ Gone(s[i + 1])
             \/ i > 1 /\ Gone(s[i - 1])
             \/ i = 1 /\ shown = NoAccount
  <2>1. CASE i = Len(box) + 1
    <3>1. Len(box) \in 1..Len(box) /\ i > 1 /\ i - 1 = Len(box) /\ Gone(box[Len(box)])
      BY <1>1, <1>2, <2>1
    <3> QED  BY <1>1, <3>1
  <2>2. CASE i # Len(box) + 1
    <3>1. i \in 1..Len(box) /\ s[i] = box[i]
      BY <1>1, <2>2
    <3>2. \/ i < Len(box) /\ Gone(box[i + 1])
          \/ i > 1 /\ Gone(box[i - 1])
          \/ i = 1 /\ shown = NoAccount
      BY <1>2, <3>1 DEF Undone
    <3>3. i < Len(box) => i + 1 \in 1..Len(box) /\ i < Len(s)
      BY <1>1
    <3>4. i > 1 => i - 1 \in 1..Len(box)
      BY <3>1
    <3> QED  BY <1>1, <3>2, <3>3, <3>4
  <2> QED  BY <2>1, <2>2
<1>3. ASSUME shown # NoAccount, stored = NoAccount PROVE Len(s) > 0 /\ Gone(s[1])
  <2>1. Len(box) > 0 /\ Gone(box[1])
    BY <1>3 DEF Undone
  <2>2. 1 \in 1..Len(box) /\ Len(s) > 0
    BY <1>1, <2>1
  <2> QED  BY <1>1, <2>1, <2>2
<1> QED  BY <1>2, <1>3 DEF Undone, s

(* The answer to a revocation and its event, in either order.              *)
LEMMA RevocationUndone ==
  ASSUME NEW box \in Seq(Message), NEW shown, NEW stored, Undone(box, shown, stored),
         NEW box2 \in WithRevocation(box)
  PROVE  Undone(box2, shown, stored)
<1> DEFINE m == Msg("revoked", NoAccount)
           e == Msg("accountsChanged", NoAccount)
           b == Append(box, e)
           c == Append(box, m)
           d == Append(c, e)
<1>1. m \in Message /\ e \in Message /\ Gone(e) /\ e.kind # "revoked"
  BY DEF Msg, Message, Kinds, Account, Gone
<1> HIDE DEF m, e
<1>2. /\ b \in Seq(Message) /\ Len(b) = Len(box) + 1 /\ Len(box) \in Nat
      /\ b[Len(box) + 1] = e
      /\ c \in Seq(Message) /\ Len(c) = Len(box) + 1
      /\ \A i \in 1..Len(box) : c[i] = box[i]
  BY <1>1, AppendProperties
<1>3. Undone(b, shown, stored)
  BY <1>1, AppendUndone
<1> HIDE DEF b, c
<1>4. Undone(Append(b, m), shown, stored)
  <2>1. Len(b) > 0 /\ Gone(b[Len(b)])
    BY <1>1, <1>2
  <2> QED  BY <1>1, <1>2, <1>3, <2>1, AppendUndone
<1>5. /\ Len(d) = Len(c) + 1
      /\ \A i \in 1..Len(c) : d[i] = c[i]
      /\ d[Len(c) + 1] = e
  BY <1>1, <1>2, AppendProperties
<1> HIDE DEF d
<1>6. Undone(d, shown, stored)
  <2>1. ASSUME NEW i \in 1..Len(d), d[i].kind = "revoked"
        PROVE  \/ i < Len(d) /\ Gone(d[i + 1])
               \/ i > 1 /\ Gone(d[i - 1])
               \/ i = 1 /\ shown = NoAccount
    <3>1. i # Len(c) + 1
      BY <1>1, <1>5, <2>1
    <3>2. CASE i = Len(c)
      <4>1. i < Len(d) /\ i + 1 = Len(c) + 1
        BY <1>2, <1>5, <3>2
      <4> QED  BY <1>1, <1>5, <4>1
    <3>3. CASE i # Len(c)
      <4>1. i \in 1..Len(box) /\ i \in 1..Len(c) /\ d[i] = box[i]
        BY <1>2, <1>5, <3>1, <3>3
      <4>2. \/ i < Len(box) /\ Gone(box[i + 1])
            \/ i > 1 /\ Gone(box[i - 1])
            \/ i = 1 /\ shown = NoAccount
        BY <2>1, <4>1 DEF Undone
      <4>3. i < Len(box) => i + 1 \in 1..Len(box) /\ i + 1 \in 1..Len(c) /\ i < Len(d)
        BY <1>2, <1>5
      <4>4. i > 1 => i - 1 \in 1..Len(box) /\ i - 1 \in 1..Len(c)
        BY <1>2, <4>1
      <4> QED  BY <1>2, <1>5, <4>2, <4>3, <4>4
    <3> QED  BY <3>2, <3>3
  <2>2. ASSUME shown # NoAccount, stored = NoAccount PROVE Len(d) > 0 /\ Gone(d[1])
    <3>1. Len(box) > 0 /\ Gone(box[1])
      BY <2>2 DEF Undone
    <3>2. 1 \in 1..Len(box) /\ 1 \in 1..Len(c) /\ Len(d) > 0
      BY <1>2, <1>5, <3>1
    <3> QED  BY <1>2, <1>5, <3>1, <3>2
  <2> QED  BY <2>1, <2>2 DEF Undone
<1> QED  BY <1>4, <1>6 DEF WithRevocation, b, c, d, m, e

(* A message handled: the page shows `now` after it, the store `kept`.     *)
LEMMA TailUndone ==
  ASSUME NEW box \in Seq(Message), box # <<>>, NEW shown, NEW stored, NEW now, NEW kept,
         Undone(box, shown, stored),
         Head(box).kind # "revoked" =>
           /\ Gone(Head(box)) => now = NoAccount
           /\ now # NoAccount /\ kept = NoAccount => stored = NoAccount /\ shown # NoAccount,
         Head(box).kind = "revoked" => now = shown
  PROVE  Undone(Tail(box), now, kept)
<1> DEFINE s == Tail(box)
           m == Head(box)
<1>1. /\ Len(s) = Len(box) - 1 /\ Len(box) \in Nat \ {0}
      /\ \A i \in 1..Len(s) : s[i] = box[i + 1]
      /\ box[1] = m
  <2>1. Len(box) \in Nat \ {0} /\ box[1] = Head(box)
    BY EmptySeq
  <2> QED  BY <2>1, HeadTailProperties
<1> HIDE DEF s, m
<1>2. ASSUME NEW i \in 1..Len(s), s[i].kind = "revoked"
      PROVE  \/ i < Len(s) /\ Gone(s[i + 1])
             \/ i > 1 /\ Gone(s[i - 1])
             \/ i = 1 /\ now = NoAccount
  <2>1. i + 1 \in 1..Len(box) /\ s[i] = box[i + 1] /\ i + 1 # 1 /\ (i + 1) - 1 = i
        /\ (i + 1) + 1 = i + 2
    BY <1>1
  <2>2. \/ i + 1 < Len(box) /\ Gone(box[i + 2])
        \/ Gone(box[i])
    BY <1>2, <2>1 DEF Undone
  <2>3. CASE i + 1 < Len(box) /\ Gone(box[i + 2])
    <3>1. i < Len(s) /\ i + 1 \in 1..Len(s) /\ s[i + 1] = box[i + 2]
      BY <1>1, <2>3
    <3> QED  BY <2>3, <3>1
  <2>4. CASE Gone(box[i]) /\ i = 1
    <3>1. Gone(m) /\ m.kind # "revoked"
      BY <1>1, <2>4 DEF Gone
    <3> QED  BY <2>4, <3>1 DEF m
  <2>5. CASE Gone(box[i]) /\ i # 1
    <3>1. i > 1 /\ i - 1 \in 1..Len(s) /\ s[i - 1] = box[i]
      BY <1>1, <2>5
    <3> QED  BY <2>5, <3>1
  <2> QED  BY <2>2, <2>3, <2>4, <2>5
<1>3. ASSUME now # NoAccount, kept = NoAccount PROVE Len(s) > 0 /\ Gone(s[1])
  <2>1. CASE m.kind # "revoked"
    <3>1. Gone(box[1])
      BY <1>3, <2>1 DEF Undone, m
    <3> QED  BY <1>1, <1>3, <2>1, <3>1 DEF m
  <2>2. CASE m.kind = "revoked"
    <3>1. shown # NoAccount /\ 1 \in 1..Len(box)
      BY <1>1, <1>3, <2>2 DEF m
    <3>2. 1 < Len(box) /\ Gone(box[1 + 1])
      BY <1>1, <2>2, <3>1 DEF Undone
    <3>3. 1 \in 1..Len(s)
      BY <1>1, <3>2
    <3> QED  BY <1>1, <3>2, <3>3
  <2> QED  BY <2>1, <2>2
<1> QED  BY <1>2, <1>3 DEF Undone, s

(* The page's side.                                                        *)
LEMMA ReceiveStore ==
  ASSUME StoreInv, Typed, Receive
  PROVE  StoreInv'
<1> SUFFICES ASSUME Plain' PROVE Undone(inbox', address', userAddress')
  BY DEF StoreInv
<1> DEFINE m == Head(inbox)
<1>1. /\ inbox \in Seq(Message) /\ inbox # <<>> /\ inbox' = Tail(inbox) /\ lapses' = lapses
  BY DEF Receive, Typed
<1>2. Undone(inbox, address, userAddress)
  BY <1>1 DEF StoreInv, Plain
<1>3. m.kind = "accepted" => m.account # NoAccount
  <2>1. 1 \in 1..Len(inbox) /\ m = inbox[1]
    BY <1>1, EmptySeq
  <2> QED  BY <2>1 DEF Typed
<1>4. \/ m.kind \in {"accountsChanged", "accepted"} /\ SetAddress(m.account)
      \/ m.kind = "refused" /\ address' = address /\ userAddress' = userAddress
      \/ m.kind = "revoked" /\ address' = address
  BY DEF Receive, handleAccountsChanged, Accepted, Refused, Revoked, componentVars
<1>5. m.kind = "revoked" => address' = address
  BY <1>4
<1>6. m.kind # "revoked" =>
        /\ Gone(m) => address' = NoAccount
        /\ address' # NoAccount /\ userAddress' = NoAccount =>
             userAddress = NoAccount /\ address # NoAccount
  BY <1>4 DEF SetAddress, Gone
<1> HIDE DEF m
<1>7. PICK now, kept : now = address' /\ kept = userAddress'
  OBVIOUS
<1>8. Undone(Tail(inbox), now, kept)
  <2>1. /\ Head(inbox).kind # "revoked" =>
             /\ Gone(Head(inbox)) => now = NoAccount
             /\ now # NoAccount /\ kept = NoAccount => userAddress = NoAccount /\ address # NoAccount
        /\ Head(inbox).kind = "revoked" => now = address
    BY <1>5, <1>6, <1>7 DEF m
  <2> QED  BY <1>1, <1>2, <2>1, TailUndone
<1> QED  BY <1>1, <1>7, <1>8

(* Steps that leave the addresses and put messages at the end.             *)
LEMMA WalletStepStore ==
  ASSUME StoreInv, Typed, CalmInv, WalletStep
  PROVE  StoreInv'
<1>1. inbox \in Seq(Message) /\ lapses \in Seq(Lapse) /\ {"refused", "forgotten"} \subseteq Lapse
  BY DEF Typed, Lapse
<1>2. CASE WalletForgets \/ WalletRefuses
  BY <1>1, <1>2, LapseFacts DEF WalletForgets, WalletRefuses, Lapses, StoreInv, Plain
<1>3. ASSUME ~(WalletForgets \/ WalletRefuses), Plain'
      PROVE  /\ Plain /\ Undone(inbox, address, userAddress)
             /\ address' = address /\ userAddress' = userAddress
  BY <1>3 DEF WalletStep, WalletAccepts, WalletSwitches, WalletRevokes, WalletRevokeFails,
              pageVars, componentVars, storeVars, StoreInv, Plain
<1>4. ASSUME NEW a \in Accounts, Undone(inbox, address, userAddress), WalletAccepts(a)
      PROVE  Undone(inbox', address, userAddress)
  <2> DEFINE m == Msg("accepted", a)
             e == Msg("accountsChanged", a)
  <2>1. inbox' \in WithAcceptance(inbox, a)
    BY <1>4, Telling DEF WalletAccepts, TellShapes
  <2>2. /\ m \in Message /\ m.kind # "revoked"
        /\ e \in Message /\ e.kind # "revoked"
    BY DEF Msg, Message, Kinds, Account
  <2>3. inbox' \in {Append(inbox, m), Append(Append(inbox, e), m), Append(Append(inbox, m), e)}
    BY <2>1 DEF WithAcceptance
  <2> HIDE DEF m, e
  <2>4. /\ Append(inbox, m) \in Seq(Message) /\ Append(inbox, e) \in Seq(Message)
    BY <1>1, <2>2, AppendProperties
  <2>5. /\ Undone(Append(inbox, m), address, userAddress)
        /\ Undone(Append(inbox, e), address, userAddress)
    BY <1>1, <1>4, <2>2, AppendUndone
  <2>6. /\ Undone(Append(Append(inbox, e), m), address, userAddress)
        /\ Undone(Append(Append(inbox, m), e), address, userAddress)
    BY <2>2, <2>4, <2>5, AppendUndone
  <2> QED  BY <2>3, <2>5, <2>6
<1>5. ASSUME NEW a \in Accounts, Undone(inbox, address, userAddress), WalletSwitches(a)
      PROVE  Undone(inbox', address, userAddress)
  <2> DEFINE e == Msg("accountsChanged", a)
  <2>1. e \in Message /\ e.kind # "revoked"
    BY DEF Msg, Message, Kinds, Account
  <2>2. inbox' = inbox \o <<e>>
    BY <1>5 DEF WalletSwitches, Announce
  <2> HIDE DEF e
  <2>3. inbox' = Append(inbox, e)
    BY <1>1, <2>1, <2>2, Appending
  <2> QED  BY <1>1, <1>5, <2>1, <2>3, AppendUndone
<1>6. ASSUME Plain, Undone(inbox, address, userAddress), WalletRevokes
      PROVE  Undone(inbox', address, userAddress)
  <2>1. PICK On, Con : Calm(inbox, granted, connects, revokes, On, Con)
    BY <1>6 DEF CalmInv
  <2>2. granted # NoAccount
    BY <1>6, <2>1 DEF Calm, WalletRevokes
  <2>3. inbox' \in WithRevocation(inbox)
    BY <1>6, <2>2, Telling DEF WalletRevokes, TellShapes
  <2>4. \A box2 \in WithRevocation(inbox) : Undone(box2, address, userAddress)
    BY <1>1, <1>6, RevocationUndone
  <2> QED  BY <2>3, <2>4
<1>7. ASSUME Undone(inbox, address, userAddress), WalletRevokeFails
      PROVE  Undone(inbox', address, userAddress)
  BY <1>7 DEF WalletRevokeFails
<1>8. ASSUME ~(WalletForgets \/ WalletRefuses), Plain'
      PROVE  Undone(inbox', address, userAddress)
  BY <1>3, <1>4, <1>5, <1>6, <1>7, <1>8 DEF WalletStep
<1> QED  BY <1>2, <1>3, <1>8 DEF StoreInv

(* The user's steps.                                                       *)
LEMMA UserStepStore ==
  ASSUME StoreInv, Typed, UserStep
  PROVE  StoreInv'
<1>1. CASE Reload
  <2>1. address' = NoAccount /\ inbox' = <<>>
    BY <1>1 DEF Reload
  <2>2. Len(inbox') = 0
    BY <2>1
  <2>3. \A i \in 1..Len(inbox') : FALSE
    BY <2>2
  <2>4. Undone(inbox', address', userAddress')
    BY <2>1, <2>3 DEF Undone
  <2> QED  BY <2>4 DEF StoreInv
<1>2. CASE ~Reload
  <2>1. UNCHANGED <<inbox, address, userAddress>>
    BY <1>2 DEF UserStep, handleWallet, CloseModal, connectWithMetamask, handleDropdown,
                pageVars, componentVars, storeVars
  <2>2. lapses' = lapses \/ \E k \in Lapse : lapses' = Append(lapses, k)
    BY <1>2 DEF UserStep, handleWallet, CloseModal, connectWithMetamask, handleDropdown, Lapses,
                Lapse
  <2>3. Plain' => Plain
    BY <2>2, LapseFacts DEF Typed, Plain
  <2> QED  BY <2>1, <2>3 DEF StoreInv
<1> QED  BY <1>1, <1>2

-----------------------------------------------------------------------------
(* The theorems                                                            *)

(* The invariant holds of every session.                                   *)
LEMMA WalletInvariant == Spec => []WalletInv
<1>1. Init => WalletInv
  <2> SUFFICES ASSUME Init PROVE WalletInv
    OBVIOUS
  <2>1. \A i \in 1..Len(<<>>) : FALSE
    BY Loaded
  <2> QED  BY <2>1, Loaded DEF Init, WalletInv, Typed, ButtonHasAddress, Account
<1>2. WalletInv /\ [Next]_vars => WalletInv'
  <2> SUFFICES ASSUME WalletInv, [Next]_vars PROVE WalletInv'
    OBVIOUS
  <2>1. CASE UNCHANGED vars
    BY <2>1 DEF vars, pageVars, componentVars, storeVars, walletVars, WalletInv, Typed,
                ButtonHasAddress, Forgotten
  <2> QED  BY <2>1, UserInvStep, WalletInvStep, ReceiveInv DEF Next
<1> QED  BY <1>1, <1>2, PTL DEF Spec

(* The button of a connected page has an address to show, in whatever order*)
(* answers and events arrive.                                              *)
THEOREM WalletButtonHasAddress == Spec => []ButtonHasAddress
<1>1. WalletInv => ButtonHasAddress
  BY DEF WalletInv
<1> QED  BY <1>1, WalletInvariant, PTL

(* Once every message is handled, the page shows the account that the      *)
(* wallet gives it, or none.                                               *)
THEOREM WalletShowsGranted == Spec => []ShowsGranted
<1>1. WalletInv => ShowsGranted
  <2> SUFFICES ASSUME WalletInv, inbox = <<>> PROVE address \in {NoAccount, granted}
    BY DEF ShowsGranted, Settled
  <2>1. Len(inbox) = 0
    OBVIOUS
  <2> QED  BY <2>1 DEF WalletInv, AddressesTo
<1> QED  BY <1>1, WalletInvariant, PTL

(* Once every message is handled, the store holds the account that the     *)
(* wallet gives, or none, unless the permission was taken back in the      *)
(* wallet's own window.                                                    *)
THEOREM WalletStoreGranted == Spec => []StoreAddressGranted
<1>1. WalletInv => StoreAddressGranted
  <2> SUFFICES ASSUME WalletInv, inbox = <<>>, ~Contains(lapses, "forgotten")
               PROVE  userAddress \in {NoAccount, granted}
    BY DEF StoreAddressGranted, Settled
  <2>1. Len(inbox) = 0
    OBVIOUS
  <2> QED  BY <2>1 DEF WalletInv, StoresTo, Forgotten
<1> QED  BY <1>1, WalletInvariant, PTL

(* The foreseen flags and the store's address hold of every session.       *)
LEMMA CalmInvariant == Spec => [](Typed /\ CalmInv /\ StoreInv)
<1>1. Init => CalmInv /\ StoreInv
  <2> SUFFICES ASSUME Init PROVE StoreInv
    BY InitCalm
  <2>1. address = NoAccount /\ Len(inbox) = 0
    BY Loaded DEF Init
  <2>2. \A i \in 1..Len(inbox) : FALSE
    BY <2>1
  <2> QED  BY <2>1, <2>2 DEF StoreInv, Undone
<1>2. Typed /\ CalmInv /\ StoreInv /\ [Next]_vars => CalmInv' /\ StoreInv'
  <2> SUFFICES ASSUME Typed, CalmInv, StoreInv, [Next]_vars PROVE CalmInv' /\ StoreInv'
    OBVIOUS
  <2>1. CASE UNCHANGED vars
    BY <2>1 DEF vars, pageVars, componentVars, storeVars, walletVars, CalmInv, StoreInv, Plain, Odd
  <2>2. CASE UserStep
    BY <2>2, ClicksCalm, ConnectCalm, DropdownCalm, ReloadCalm, UserStepStore DEF UserStep
  <2>3. CASE WalletStep
    BY <2>3, WalletStepCalm, WalletStepStore
  <2>4. CASE Receive
    BY <2>4, ReceiveCalm, ReceiveStore
  <2> QED  BY <2>1, <2>2, <2>3, <2>4 DEF Next
<1>3. WalletInv => Typed
  BY DEF WalletInv
<1> QED  BY <1>1, <1>2, <1>3, WalletInvariant, PTL DEF Spec

(* What is foreseen of an empty box is what is.                            *)
LEMMA SettledFlags ==
  ASSUME Typed, CalmInv, inbox = <<>>
  PROVE  /\ Plain => (isConnected <=> walletConnected)
         /\ Odd => ~(isConnected <=> walletConnected)
<1>1. Len(inbox) = 0 /\ ~Refusal(inbox)
  <2>1. Len(inbox) = 0
    OBVIOUS
  <2> QED  BY <2>1 DEF Refusal
<1>2. ASSUME Plain \/ Odd
      PROVE  isConnected <=> (walletConnected <=> Plain)
  <2>1. PICK On, Con :
          /\ Calm(inbox, granted, connects, revokes, On, Con)
          /\ StartsAt(inbox, isConnected, walletConnected, ~showDropdown,
                      Plain \/ Refusal(inbox), granted, On, Con)
    BY <1>2 DEF CalmInv
  <2>2. (0 \in On <=> 0 \in Con) /\ (0 \in Con <=> walletConnected)
        /\ (0 \in On <=> (isConnected <=> Plain))
    BY <1>1, <2>1 DEF Calm, StartsAt
  <2> QED  BY <2>2
<1>3. Odd => ~Plain
  <2>1. Len(<<"refused">>) = 1 /\ Len(<<>>) = 0
    OBVIOUS
  <2> QED  BY <2>1 DEF Odd, Plain
<1> QED  BY <1>2, <1>3

(* In a session without lapses the store's flag, its signer and its address*)
(* agree with the component once every message is handled, however many    *)
(* accounts were given, exchanged and taken back.                          *)
THEOREM WalletPlainSessionAgrees == Spec => []PlainSessionAgrees
<1>1. WalletInv /\ Typed /\ CalmInv /\ StoreInv => PlainSessionAgrees
  <2> SUFFICES ASSUME WalletInv, Typed, CalmInv, StoreInv, inbox = <<>>, lapses = <<>>
               PROVE  /\ isConnected = walletConnected
                      /\ signer = isConnected
                      /\ isConnected => userAddress = address
    BY DEF PlainSessionAgrees, Settled
  <2>1. /\ isConnected \in BOOLEAN /\ signer \in BOOLEAN /\ walletConnected \in BOOLEAN
        /\ Plain /\ (signer <=> isConnected)
    BY DEF CalmInv, Typed, Plain
  <2>2. isConnected <=> walletConnected
    BY <2>1, SettledFlags
  <2>3. isConnected => userAddress = address
    <3> SUFFICES ASSUME isConnected PROVE userAddress = address
      OBVIOUS
    <3>1. address # NoAccount /\ userAddress \in {NoAccount, address}
      BY <2>2 DEF WalletInv, ButtonHasAddress
    <3>2. Len(inbox) = 0
      OBVIOUS
    <3>3. userAddress # NoAccount
      BY <2>1, <3>1, <3>2 DEF StoreInv, Undone
    <3> QED  BY <3>1, <3>3
  <2> QED  BY <2>1, <2>2, <2>3
<1> QED  BY <1>1, WalletInvariant, CalmInvariant, PTL

(* After one refused request, and nothing else out of the ordinary, flag   *)
(* and component disagree whenever every message is handled.               *)
THEOREM WalletRefusalSticks == Spec => []RefusalSticks
<1>1. Typed /\ CalmInv => RefusalSticks
  <2> SUFFICES ASSUME Typed, CalmInv, inbox = <<>>, Odd
               PROVE  isConnected # walletConnected
    BY DEF RefusalSticks, Settled, Odd
  <2>1. ~(isConnected <=> walletConnected)
    BY SettledFlags
  <2> QED  BY <2>1
<1> QED  BY <1>1, CalmInvariant, PTL
=============================================================================
