---------------------------- MODULE WalletConnect ----------------------------
(***************************************************************************)
(* The connection of the page to the user's wallet: the state of the       *)
(* component ConnectWallet, the `wallet` slice of the store, which the     *)
(* quote panel reads, and the wallet extension, which is external.         *)
(*                                                                         *)
(* The wallet answers requests and announces changes of account over one   *)
(* ordered stream, inbox.  React batches the updates of a callback and runs*)
(* the effects before the next message, so handling one is a step.         *)
(***************************************************************************)
EXTENDS Naturals, Sequences, SequencesExt

CONSTANTS
  Accounts,
  NoAccount,    \* null in the component, "" in the store, no account given
  MaxRequests,  \* bound on unanswered requests of each kind
  MaxLapses,    \* bound on the length of lapses
  MaxMessages   \* bound on the messages under way when the user switches accounts

ASSUME AccountAssumption ==
  /\ NoAccount \notin Accounts
  /\ MaxRequests \in Nat /\ MaxLapses \in Nat /\ MaxMessages \in Nat

VARIABLES
  walletConnected, showModal, showDropdown, address,  \* component
  userAddress, isConnected, signer,                   \* store
  granted,      \* the account the wallet gives the page
  connects,     \* eth_requestAccounts the wallet has not answered
  revokes,      \* wallet_revokePermissions the wallet has not answered
  inbox,        \* answers and events on their way to the page
  lapses        \* history: what went unlike a plain session since loading

componentVars == <<walletConnected, showModal, showDropdown, address>>
storeVars == <<userAddress, isConnected, signer>>
pageVars == <<componentVars, storeVars>>
walletVars == <<granted, connects, revokes>>
vars == <<pageVars, walletVars, inbox, lapses>>

Account == Accounts \cup {NoAccount}

Msg(kind, account) == [kind |-> kind, account |-> account]
Kinds == {"accountsChanged", "accepted", "refused", "revoked"}
Lapse == {"refused", "doubled", "forgotten"}

TypeOK ==
  /\ walletConnected \in BOOLEAN /\ showModal \in BOOLEAN /\ showDropdown \in BOOLEAN
  /\ isConnected \in BOOLEAN /\ signer \in BOOLEAN
  /\ address \in Account /\ userAddress \in Account /\ granted \in Account
  /\ connects \in 0..MaxRequests /\ revokes \in 0..MaxRequests
  /\ \A i \in DOMAIN inbox : inbox[i] \in [kind : Kinds, account : Account]
  /\ \A i \in DOMAIN lapses : lapses[i] \in Lapse

\* A wallet may still give an account to a page that was open before.
Init ==
  /\ walletConnected = FALSE /\ showModal = FALSE /\ showDropdown = FALSE
  /\ address = NoAccount
  /\ userAddress = NoAccount /\ isConnected = FALSE /\ signer = FALSE
  /\ connects = 0 /\ revokes = 0
  /\ inbox = <<>> /\ lapses = <<>>
  /\ granted \in Account

Lapses(kind) == Len(lapses) < MaxLapses /\ lapses' = Append(lapses, kind)

-----------------------------------------------------------------------------
(* The user                                                                *)

handleWallet ==
  /\ IF walletConnected
     THEN showDropdown' = ~showDropdown /\ UNCHANGED showModal
     ELSE showModal' = TRUE /\ UNCHANGED showDropdown
  /\ UNCHANGED <<walletConnected, address, storeVars, walletVars, inbox, lapses>>

CloseModal ==
  /\ showModal /\ showModal' = FALSE
  /\ UNCHANGED <<walletConnected, showDropdown, address, storeVars, walletVars, inbox, lapses>>

Awaited(kinds) == \E i \in DOMAIN inbox : inbox[i].kind \in kinds

\* The first half of connectWithMetamask: the button stays enabled.
connectWithMetamask ==
  /\ showModal
  /\ connects < MaxRequests /\ connects' = connects + 1
  /\ IF connects > 0 \/ walletConnected \/ Awaited({"accepted", "refused"})
     THEN Lapses("doubled")
     ELSE UNCHANGED lapses
  /\ UNCHANGED <<pageVars, granted, revokes, inbox>>

\* The first half of handleDropdown.
handleDropdown ==
  /\ showDropdown
  /\ revokes < MaxRequests /\ revokes' = revokes + 1
  /\ IF revokes > 0 \/ granted = NoAccount
     THEN Lapses("doubled")
     ELSE UNCHANGED lapses
  /\ UNCHANGED <<pageVars, granted, connects, inbox>>

\* The page is loaded again; what the wallet gives it stays.
Reload ==
  /\ walletConnected' = FALSE /\ showModal' = FALSE /\ showDropdown' = FALSE
  /\ address' = NoAccount
  /\ userAddress' = NoAccount /\ isConnected' = FALSE /\ signer' = FALSE
  /\ connects' = 0 /\ revokes' = 0
  /\ inbox' = <<>> /\ lapses' = <<>>
  /\ UNCHANGED granted
-----------------------------------------------------------------------------
(* The wallet                                                              *)

Announce(account) ==
  IF account = granted THEN <<>> ELSE <<Msg("accountsChanged", account)>>

\* Where the account changes, event and answer come in either order.
Tell(account, answer) ==
  \/ inbox' = inbox \o Announce(account) \o <<answer>>
  \/ inbox' = inbox \o <<answer>> \o Announce(account)

WalletAccepts(account) ==
  /\ connects > 0 /\ connects' = connects - 1
  /\ granted \in {NoAccount, account}
  /\ granted' = account
  /\ Tell(account, Msg("accepted", account))
  /\ UNCHANGED <<pageVars, revokes, lapses>>

WalletRefuses ==
  /\ connects > 0 /\ connects' = connects - 1
  /\ granted = NoAccount
  /\ inbox' = Append(inbox, Msg("refused", NoAccount))
  /\ Lapses("refused")
  /\ UNCHANGED <<pageVars, granted, revokes>>

WalletRevokes ==
  /\ revokes > 0 /\ revokes' = revokes - 1
  /\ granted' = NoAccount
  /\ Tell(NoAccount, Msg("revoked", NoAccount))
  /\ UNCHANGED <<pageVars, connects, lapses>>

\* The promise is rejected: nothing of handleDropdown follows.
WalletRevokeFails ==
  /\ revokes > 0 /\ revokes' = revokes - 1
  /\ UNCHANGED <<pageVars, granted, connects, inbox, lapses>>

\* The user chooses another account in the wallet's own window.
WalletSwitches(account) ==
  /\ granted # NoAccount /\ account # granted
  /\ Len(inbox) < MaxMessages
  /\ granted' = account
  /\ inbox' = inbox \o Announce(account)
  /\ UNCHANGED <<pageVars, connects, revokes, lapses>>

\* The user takes the permission back in the wallet's own window.
WalletForgets ==
  /\ granted # NoAccount
  /\ granted' = NoAccount
  /\ inbox' = inbox \o Announce(NoAccount)
  /\ Lapses("forgotten")
  /\ UNCHANGED <<pageVars, connects, revokes>>
-----------------------------------------------------------------------------
(* The page, on a message of the wallet                                    *)

changeConnection_SetTrue == TRUE

changeConnection == ~isConnected

\* setAddress with the effect on [address].
SetAddress(account) ==
  /\ address' = account
  /\ IF account # address /\ account # NoAccount
     THEN userAddress' = account /\ showModal' = FALSE
     ELSE UNCHANGED <<userAddress, showModal>>

handleAccountsChanged_KeepsConnected(account) ==
  /\ SetAddress(account)
  /\ UNCHANGED <<walletConnected, showDropdown, isConnected, signer>>

handleAccountsChanged_IgnoresLoss(account) ==
  /\ IF account = NoAccount THEN UNCHANGED <<address, userAddress, showModal>>
     ELSE SetAddress(account)
  /\ UNCHANGED <<walletConnected, showDropdown, isConnected, signer>>

\* Registered at the first render, the handler compares with the address of
\* that render, null: it never finds the account unchanged.
handleAccountsChanged(account) ==
  /\ SetAddress(account)
  /\ walletConnected' = (walletConnected /\ account # NoAccount)
  /\ UNCHANGED <<showDropdown, isConnected, signer>>

\* The second half of connectWithMetamask.
Accepted(account) ==
  /\ SetAddress(account)
  /\ walletConnected' = TRUE
  /\ isConnected' = changeConnection
  /\ signer' = TRUE
  /\ UNCHANGED showDropdown

\* The same when the request was refused: logged, then as if accepted.
Refused ==
  /\ isConnected' = changeConnection
  /\ signer' = TRUE
  /\ UNCHANGED <<componentVars, userAddress>>

Revoked_KeepsAddress ==
  /\ showDropdown' = FALSE
  /\ isConnected' = changeConnection
  /\ signer' = FALSE
  /\ UNCHANGED <<walletConnected, showModal, address, userAddress>>

\* The second half of handleDropdown.
Revoked ==
  /\ showDropdown' = FALSE
  /\ isConnected' = changeConnection
  /\ signer' = FALSE
  /\ userAddress' = NoAccount
  /\ UNCHANGED <<walletConnected, showModal, address>>

Receive ==
  /\ inbox # <<>>
  /\ inbox' = Tail(inbox)
  /\ LET m == Head(inbox)
     IN  \/ m.kind = "accountsChanged" /\ handleAccountsChanged(m.account)
         \/ m.kind = "accepted" /\ Accepted(m.account)
         \/ m.kind = "refused" /\ Refused
         \/ m.kind = "revoked" /\ Revoked
  /\ UNCHANGED <<walletVars, lapses>>

UserStep ==
  handleWallet \/ CloseModal \/ connectWithMetamask \/ handleDropdown \/ Reload

WalletStep ==
  \/ \E a \in Accounts : WalletAccepts(a) \/ WalletSwitches(a)
  \/ WalletRefuses \/ WalletRevokes \/ WalletRevokeFails \/ WalletForgets

Next == UserStep \/ WalletStep \/ Receive

Spec == Init /\ [][Next]_vars
-----------------------------------------------------------------------------
(* Properties                                                              *)

(* The button of a connected page has an address to show                   *)
(* (ConnectWallet.jsx:93-94): it never slices null.                        *)
ButtonHasAddress == walletConnected => address # NoAccount

Settled == connects = 0 /\ revokes = 0 /\ inbox = <<>>

(* Once every message is handled, the address of the component is the one  *)
(* the wallet gives, or none if the page was loaded since, in whatever     *)
(* order accounts were given, exchanged and taken back.                    *)
ShowsGranted == Settled => address \in {NoAccount, granted}

(* Once every message is handled, the store's address is the one the wallet*)
(* gives, unless the permission was taken back in the wallet's own window: *)
(* the handler of that event leaves the store alone.                       *)
StoreAddressGranted ==
  Settled /\ userAddress # NoAccount /\ ~Contains(lapses, "forgotten") =>
    userAddress = granted

(* In a session where no request is refused, repeated while one is open, or*)
(* undone in the wallet's own window, the toggled flag of the store agrees *)
(* with the component once every message is handled, a connected store has *)
(* the signer and the address of the component, and no other store has a   *)
(* signer.                                                                 *)
PlainSessionAgrees ==
  Settled /\ lapses = <<>> =>
    /\ isConnected = walletConnected
    /\ signer = isConnected
    /\ isConnected => userAddress = address

(* A single refused request puts the store's flag out of step with the     *)
(* component for the rest of the session: connecting, disconnecting and    *)
(* changing accounts never bring them together again.                      *)
RefusalSticks ==
  Settled /\ lapses = <<"refused">> => isConnected # walletConnected
=============================================================================
