------------------------------ MODULE Extensions ------------------------------
(****************************************************************************)
(* The documents of SIP accounts and of their extensions, and the methods   *)
(* of the portal API that create, modify and delete them.                   *)
(*                                                                          *)
(* A method reads documents into DAOs, decides, and writes whole documents  *)
(* back, each with a call to MongoDB of its own; servlet threads run methods *)
(* side by side without a transaction.  A step is one such call.  A search  *)
(* (DatabaseObjectFactory.list) is one step although it fetches its         *)
(* documents one by one.  Passwords, flags of recording, enabled flags and  *)
(* dates are not told apart.                                                *)
(****************************************************************************)
EXTENDS Integers, FiniteSets

CONSTANTS Usernames,     \* SipAccountDao.Username
          Numbers,       \* SipExtensionDao.Extension
          MaxAccounts,   \* bound: accounts ever created
          MaxExtensions, \* bound: extensions ever created
          Threads,       \* servlet threads
          Faults,        \* "database": a call to the database may throw
          NoUsername, NoExtension \* there is no such document

\* ObjectIds; MongoDB never hands one out twice.
AccountIds   == 1..MaxAccounts
ExtensionIds == 1..MaxExtensions

ExtensionDocs == [number : Numbers, account : AccountIds, primary : BOOLEAN]

Steps == {"idle", "findAccount", "list", "demote", "save", "remove", "replace",
          "insertAccount", "updateAccount", "removeAccount"}
EditSteps == {"findAccount", "list", "demote", "save"} \* of creating or modifying an extension

ASSUME ConstantsAssumption ==
  /\ MaxAccounts \in Nat \ {0} /\ MaxExtensions \in Nat \ {0}
  /\ NoUsername \notin Usernames /\ NoExtension \notin ExtensionDocs
  /\ Faults \subseteq {"database"}

VARIABLES
  accounts,    \* telephony.sip.account: the username of each account
  extensions,  \* telephony.sip.extension
  newAccount, newExtension, \* the next ObjectIds
  at,          \* per thread: what its method does next
  id,          \* the document it works on, 0 for one not stored yet
  dao,         \* what its DAO of the extension says
  username,    \* what its DAO of the account says
  other,       \* the primary extension the search has found, 0 for none,
  otherDao,    \*   and what its DAO says
  past         \* history: what has happened that the properties make exceptions for

\* The ids handed out so far.
OldAccounts   == {a \in AccountIds : a < newAccount}
OldExtensions == {e \in ExtensionIds : e < newExtension}

docVars == <<accounts, extensions, newAccount, newExtension>>
daoVars == <<id, dao, username, other, otherDao>>
vars    == <<docVars, at, daoVars, past>>

\* Every variable has its type, no document exists under an id not handed out, and
\* a method that takes the primary flag away has found the extension it takes it
\* from (SipExtensionCreateMethod.java:54-57, SipExtensionModifyMethod.java:47-50).
TypeOK ==
  /\ accounts \in [AccountIds -> Usernames \cup {NoUsername}]
  /\ extensions \in [ExtensionIds -> ExtensionDocs \cup {NoExtension}]
  /\ newAccount \in 1..(MaxAccounts + 1) /\ newExtension \in 1..(MaxExtensions + 1)
  /\ \A a \in AccountIds : a >= newAccount => accounts[a] = NoUsername
  /\ \A e \in ExtensionIds : e >= newExtension => extensions[e] = NoExtension
  /\ at \in [Threads -> Steps]
  /\ id \in [Threads -> {0} \cup AccountIds \cup ExtensionIds]
  /\ dao \in [Threads -> ExtensionDocs \cup {NoExtension}]
  /\ username \in [Threads -> Usernames \cup {NoUsername}]
  /\ other \in [Threads -> ExtensionIds \cup {0}]
  /\ otherDao \in [Threads -> ExtensionDocs \cup {NoExtension}]
  /\ past \subseteq {"edits", "creates", "lost"}
  /\ \A t \in Threads : at[t] = "demote" => other[t] # 0 /\ otherDao[t] # NoExtension

Init ==
  /\ accounts = [a \in AccountIds |-> NoUsername]
  /\ extensions = [e \in ExtensionIds |-> NoExtension]
  /\ newAccount = 1 /\ newExtension = 1
  /\ at = [t \in Threads |-> "idle"]
  /\ id = [t \in Threads |-> 0]
  /\ dao = [t \in Threads |-> NoExtension]
  /\ username = [t \in Threads |-> NoUsername]
  /\ other = [t \in Threads |-> 0]
  /\ otherDao = [t \in Threads |-> NoExtension]
  /\ past = {}

------------------------------------------------------------------------------
(* A method begins, goes on and ends.                                       *)

Starts(t, step, what) ==
  /\ at[t] = "idle"
  /\ at' = [at EXCEPT ![t] = step] /\ past' = past \cup what

\* Two extensions are created or modified, or two documents of a kind created, side
\* by side.
Edits(t) == IF \E u \in Threads \ {t} : at[u] \in EditSteps THEN {"edits"} ELSE {}
Creates(t, steps) ==
  IF \E u \in Threads \ {t} : at[u] \in steps /\ id[u] = 0 THEN {"creates"} ELSE {}

\* The step takes the flag from an account's primary extension, and the method puts no
\* other one in its place.
Loses(lost) == past' = past \cup (IF lost THEN {"lost"} ELSE {})

Goto(t, step) == at' = [at EXCEPT ![t] = step] /\ UNCHANGED past

Forget(t) ==
  /\ id' = [id EXCEPT ![t] = 0]
  /\ dao' = [dao EXCEPT ![t] = NoExtension]
  /\ username' = [username EXCEPT ![t] = NoUsername]
  /\ other' = [other EXCEPT ![t] = 0]
  /\ otherDao' = [otherDao EXCEPT ![t] = NoExtension]

Ends(t) == at' = [at EXCEPT ![t] = "idle"] /\ Forget(t)
Done(t) == Ends(t) /\ UNCHANGED past

\* DatabaseObject.store of a document that has an id: DBCollection.update replaces
\* it where it is found and inserts nothing.  Slip: it inserts.
Upserted(docs, i, doc, none) == [docs EXCEPT ![i] = doc]
Updated(docs, i, doc, none) == IF docs[i] = none THEN docs ELSE [docs EXCEPT ![i] = doc]

\* The old primary extension has been stored as not primary, the new one is not stored.
Between(t) == at[t] = "save" /\ other[t] # 0

\* Any call may throw: the method ends there, and nothing is taken back.
Fail(t) ==
  /\ "database" \in Faults /\ at[t] # "idle"
  /\ Ends(t) /\ Loses(Between(t))
  /\ UNCHANGED docVars

------------------------------------------------------------------------------
(* SipExtensionCreateMethod and SipExtensionModifyMethod.                   *)

ExtensionsOf(a) == {e \in ExtensionIds : extensions[e] # NoExtension /\ extensions[e].account = a}
PrimariesOf(a)  == {e \in ExtensionsOf(a) : extensions[e].primary}

\* Slip: the number is not looked up.
CreateUnchecked(t) ==
  \E x \in Numbers, a \in OldAccounts, p \in BOOLEAN :
    /\ Starts(t, "findAccount", Edits(t) \cup Creates(t, EditSteps))
    /\ dao' = [dao EXCEPT ![t] = [number |-> x, account |-> a, primary |-> p]]
    /\ UNCHANGED <<docVars, id, username, other, otherDao>>

\* The target is one of the accounts the page has listed.
CreateExtension(t) ==
  \E x \in Numbers, a \in OldAccounts, p \in BOOLEAN :
    /\ ~\E e \in ExtensionIds : extensions[e] # NoExtension /\ extensions[e].number = x
    /\ Starts(t, "findAccount", Edits(t) \cup Creates(t, EditSteps))
    /\ dao' = [dao EXCEPT ![t] = [number |-> x, account |-> a, primary |-> p]]
    /\ UNCHANGED <<docVars, id, username, other, otherDao>>

ModifyExtension(t) ==
  \E e \in ExtensionIds, a \in OldAccounts, p \in BOOLEAN :
    /\ extensions[e] # NoExtension
    /\ Starts(t, "findAccount", Edits(t))
    /\ id' = [id EXCEPT ![t] = e]
    /\ dao' = [dao EXCEPT ![t] = [extensions[e] EXCEPT !.account = a, !.primary = p]]
    /\ UNCHANGED <<docVars, username, other, otherDao>>

FindAccount(t) ==
  /\ at[t] = "findAccount"
  /\ \/ accounts[dao[t].account] # NoUsername /\ Goto(t, "list") /\ UNCHANGED daoVars
     \/ accounts[dao[t].account] = NoUsername /\ Done(t)
  /\ UNCHANGED docVars

\* Slip: an extension that is not wanted as primary is not, even as the only one.
ListAsWanted(t) ==
  /\ at[t] = "list"
  /\ LET P == PrimariesOf(dao[t].account) IN
     \/ /\ \E e \in P : /\ other' = [other EXCEPT ![t] = e]
                        /\ otherDao' = [otherDao EXCEPT ![t] = extensions[e]]
        /\ dao[t].primary /\ Goto(t, "demote")
     \/ (P = {} \/ ~dao[t].primary) /\ Goto(t, "save") /\ UNCHANGED <<other, otherDao>>
  /\ UNCHANGED <<docVars, id, dao, username>>

\* Slip: the flag is to be taken away whether one was found or not.
ListAnyhow(t) ==
  /\ at[t] = "list"
  /\ Goto(t, IF dao[t].primary THEN "demote" ELSE "save")
  /\ UNCHANGED <<docVars, daoVars>>

\* The loop over the account's extensions stops at the first primary one, which is
\* any of them as far as the order of the collection goes.
List(t) ==
  /\ at[t] = "list"
  /\ LET P == PrimariesOf(dao[t].account) IN
     \/ /\ P = {}
        /\ dao' = [dao EXCEPT ![t].primary = TRUE]
        /\ Goto(t, "save") /\ UNCHANGED <<other, otherDao>>
     \/ /\ P # {} /\ ~dao[t].primary
        /\ Goto(t, "save") /\ UNCHANGED <<dao, other, otherDao>>
     \/ /\ dao[t].primary
        /\ \E e \in P : /\ other' = [other EXCEPT ![t] = e]
                        /\ otherDao' = [otherDao EXCEPT ![t] = extensions[e]]
        /\ Goto(t, "demote") /\ UNCHANGED dao
  /\ UNCHANGED <<docVars, id, username>>

\* Slip: the flag is taken away in the DAO only.
DemoteUnstored(t) ==
  /\ at[t] = "demote"
  /\ Goto(t, "save")
  /\ UNCHANGED <<docVars, daoVars>>

\* An extension that is primary for another account by now is stored with the old one.
Moves(docs, i, doc) == docs[i] # NoExtension /\ docs[i].primary /\ docs[i].account # doc.account

Demote(t) ==
  /\ at[t] = "demote"
  /\ extensions' = Updated(extensions, other[t], [otherDao[t] EXCEPT !.primary = FALSE],
                           NoExtension)
  /\ at' = [at EXCEPT ![t] = "save"]
  /\ Loses(Moves(extensions, other[t], otherDao[t]))
  /\ UNCHANGED <<accounts, newAccount, newExtension, daoVars>>

\* A modify loses the flag of its account when it takes it away or takes its extension to
\* another account, or when the extension has been deleted since.
Takes(t) ==
  \/ extensions[id[t]] = NoExtension /\ Between(t)
  \/ extensions[id[t]] # NoExtension /\ extensions[id[t]].primary /\ ~dao[t].primary
  \/ Moves(extensions, id[t], dao[t])

Save(t) ==
  /\ at[t] = "save"
  /\ \/ /\ id[t] = 0 /\ newExtension <= MaxExtensions
        /\ extensions' = [extensions EXCEPT ![newExtension] = dao[t]]
        /\ newExtension' = newExtension + 1 /\ UNCHANGED past
     \/ /\ id[t] # 0
        /\ extensions' = Updated(extensions, id[t], dao[t], NoExtension)
        /\ UNCHANGED newExtension /\ Loses(Takes(t))
  /\ Ends(t)
  /\ UNCHANGED <<accounts, newAccount>>

------------------------------------------------------------------------------
(* SipExtensionDeleteMethod.                                                *)

DeleteExtension(t) ==
  \E e \in ExtensionIds :
    /\ extensions[e] # NoExtension
    /\ Starts(t, "remove", {})
    /\ id' = [id EXCEPT ![t] = e]
    /\ UNCHANGED <<docVars, dao, username, other, otherDao>>

Remove(t) ==
  /\ at[t] = "remove"
  /\ extensions' = [extensions EXCEPT ![id[t]] = NoExtension]
  /\ at' = [at EXCEPT ![t] = "replace"]
  /\ Loses(extensions[id[t]] # NoExtension /\ extensions[id[t]].primary)
  /\ UNCHANGED <<accounts, newAccount, newExtension, daoVars>>

\* The first of the account's other extensions is made primary in its DAO, which
\* is not stored: no document changes.
Replace(t) ==
  /\ at[t] = "replace"
  /\ Done(t)
  /\ UNCHANGED docVars

------------------------------------------------------------------------------
(* SipAccountCreateMethod, SipAccountModifyMethod and SipAccountDeleteMethod. *)

CreateAccount(t) ==
  \E n \in Usernames :
    /\ ~\E a \in AccountIds : accounts[a] = n
    /\ Starts(t, "insertAccount", Creates(t, {"insertAccount"}))
    /\ username' = [username EXCEPT ![t] = n]
    /\ UNCHANGED <<docVars, id, dao, other, otherDao>>

InsertAccount(t) ==
  /\ at[t] = "insertAccount" /\ newAccount <= MaxAccounts
  /\ accounts' = [accounts EXCEPT ![newAccount] = username[t]]
  /\ newAccount' = newAccount + 1
  /\ Done(t)
  /\ UNCHANGED <<extensions, newExtension>>

\* SipRegistration stores the account it has authenticated in the same way.
ModifyAccount(t) ==
  \E a \in AccountIds :
    /\ accounts[a] # NoUsername
    /\ Starts(t, "updateAccount", {})
    /\ id' = [id EXCEPT ![t] = a]
    /\ username' = [username EXCEPT ![t] = accounts[a]]
    /\ UNCHANGED <<docVars, dao, other, otherDao>>

UpdateAccount(t) ==
  /\ at[t] = "updateAccount"
  /\ accounts' = Updated(accounts, id[t], username[t], NoUsername)
  /\ Done(t)
  /\ UNCHANGED <<extensions, newAccount, newExtension>>

DeleteAccount(t) ==
  \E a \in AccountIds :
    /\ accounts[a] # NoUsername
    /\ Starts(t, "removeAccount", {})
    /\ id' = [id EXCEPT ![t] = a]
    /\ UNCHANGED <<docVars, dao, username, other, otherDao>>

RemoveAccount(t) ==
  /\ at[t] = "removeAccount"
  /\ accounts' = [accounts EXCEPT ![id[t]] = NoUsername]
  /\ Done(t)
  /\ UNCHANGED <<extensions, newAccount, newExtension>>

------------------------------------------------------------------------------
ExtensionStep(t) ==
  \/ CreateExtension(t) \/ ModifyExtension(t) \/ FindAccount(t) \/ List(t)
  \/ Demote(t) \/ Save(t) \/ DeleteExtension(t) \/ Remove(t) \/ Replace(t)

AccountStep(t) ==
  \/ CreateAccount(t) \/ InsertAccount(t) \/ ModifyAccount(t) \/ UpdateAccount(t)
  \/ DeleteAccount(t) \/ RemoveAccount(t)

Next == \E t \in Threads : ExtensionStep(t) \/ AccountStep(t) \/ Fail(t)

Spec == Init /\ [][Next]_vars

------------------------------------------------------------------------------
(* What the documents promise.                                              *)

\* As long as no two extensions have been created or modified at the same time, an
\* account has at most one primary extension, also while that goes on beside the
\* other methods and after it has failed half way: it is the number that
\* getPrimaryExtension (SipAccountDao.java:85-91) finds and that callees see.
AtMostOnePrimary ==
  "edits" \notin past =>
    \A a \in AccountIds : \A e, f \in PrimariesOf(a) : e = f

\* As long as no two documents of a kind have been created at the same time, a number
\* belongs to one extension and a username to one account, though both are looked
\* up before they are inserted (SipExtensionCreateMethod.java:36-67) and methods
\* that have read other documents, deleted ones too, store them in between.
NamesAreUnique ==
  "creates" \notin past =>
    /\ \A e, f \in ExtensionIds :
         extensions[e] # NoExtension /\ extensions[f] # NoExtension
         /\ extensions[e].number = extensions[f].number => e = f
    /\ \A a, b \in AccountIds : accounts[a] = accounts[b] /\ accounts[a] # NoUsername => a = b

\* An account with extensions has a primary one, so that its calls are answered
\* (SipSession.java:85), when no method is under way, whatever was created, modified and
\* deleted side by side and whatever failed, as long as no step has lost it: a failure or
\* a delete of the new one between the two stores (SipExtensionCreateMethod.java:57-67),
\* a modify or a delete of the primary one itself, or a store of an old account.
PrimaryIsKept ==
  "lost" \notin past /\ (\A t \in Threads : at[t] = "idle") =>
    \A a \in AccountIds : ExtensionsOf(a) # {} => PrimariesOf(a) # {}

\* Whatever methods run side by side, a document keeps its number or username, and
\* one that was deleted does not come back when a method that had read it before
\* stores it (DatabaseObject.java:60-66).
DocumentsKeepIdentity ==
  [][/\ \A e \in OldExtensions :
          extensions'[e] = NoExtension
          \/ (extensions[e] # NoExtension /\ extensions'[e].number = extensions[e].number)
     /\ \A a \in OldAccounts : accounts'[a] \in {accounts[a], NoUsername}]_vars

==============================================================================
