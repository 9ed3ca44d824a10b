--------------------------- MODULE ExtensionsProofs ---------------------------
(****************************************************************************)
(* Proofs about Extensions for any number of accounts, extensions, threads  *)
(* and names.                                                               *)
(*                                                                          *)
(* The argument: what a method has read of a document may be old, but the   *)
(* number or username in it is still the document's own (ThreadInv),        *)
(* because a step keeps the identity of every document (Keep).  Only the    *)
(* save of an extension can make one more extension primary, which its      *)
(* method has seen to before (Sure).                                        *)
(*                                                                          *)
(* A name that was looked up stays free until it is given, as long as       *)
(* nobody else creates a document of that kind (NamesInv).  And an account  *)
(* that had a primary extension keeps one, or the thread that has taken its *)
(* flag and is about to store another one (Served), until a step loses it.  *)
(****************************************************************************)
EXTENDS Extensions, TLAPS

\* dao d of document e says the number of e.
Names(d, e) == d \in ExtensionDocs
               /\ (extensions[e] # NoExtension => extensions[e].number = d.number)

ThreadOK(t) ==
  /\ at[t] = "idle" => id[t] = 0
  /\ at[t] \in EditSteps =>
       /\ dao[t] \in ExtensionDocs /\ id[t] \in {0} \cup OldExtensions
       /\ id[t] # 0 => Names(dao[t], id[t])
  /\ at[t] = "demote" => other[t] \in OldExtensions /\ Names(otherDao[t], other[t])
  /\ at[t] = "remove" => id[t] \in OldExtensions
  /\ at[t] \in {"insertAccount", "updateAccount"} => username[t] \in Usernames
  /\ at[t] \in {"updateAccount", "removeAccount"} => id[t] \in OldAccounts
  /\ at[t] = "updateAccount" => accounts[id[t]] \in {username[t], NoUsername}

ThreadInv == \A t \in Threads : ThreadOK(t)
Inv       == TypeOK /\ ThreadInv

\* Ids are handed out upwards and documents keep their identity.
KeepExtensions ==
  /\ newExtension' \in {newExtension, newExtension + 1}
  /\ \A e \in OldExtensions :
       extensions'[e] = NoExtension
       \/ (extensions[e] # NoExtension /\ extensions'[e].number = extensions[e].number)
KeepAccounts ==
  /\ newAccount' \in {newAccount, newAccount + 1}
  /\ \A a \in OldAccounts : accounts'[a] \in {accounts[a], NoUsername}
Keep == KeepExtensions /\ KeepAccounts

------------------------------------------------------------------------------
(* Facts about the vocabulary of the steps.                                 *)

\* A step of one thread leaves what the others have read.
LEMMA Frame ==
  ASSUME Inv, Keep, NEW t \in Threads,
         \A u \in Threads \ {t} : /\ at'[u] = at[u] /\ id'[u] = id[u] /\ dao'[u] = dao[u]
                                  /\ username'[u] = username[u] /\ other'[u] = other[u]
                                  /\ otherDao'[u] = otherDao[u],
         ThreadOK(t)'
  PROVE  ThreadInv'
<1> SUFFICES ASSUME NEW u \in Threads PROVE ThreadOK(u)'
  BY DEF ThreadInv
<1>1. CASE u = t
  BY <1>1
<1>2. CASE u # t
  <2>1. ThreadOK(u)
    BY DEF Inv, ThreadInv
  <2>2. newExtension \in Nat /\ newAccount \in Nat
    BY DEF Inv, TypeOK
  <2>3. \A e \in OldExtensions : e \in OldExtensions'
    <3>1. newExtension' \in Nat /\ newExtension' >= newExtension
      BY <2>2 DEF Keep, KeepExtensions
    <3> QED BY <2>2, <3>1 DEF OldExtensions, ExtensionIds
  <2>5. ASSUME NEW e \in OldExtensions, NEW d, Names(d, e)
        PROVE  Names(d, e)'
    BY <2>5 DEF Keep, KeepExtensions, Names
  <2>4. \A a \in OldAccounts : a \in OldAccounts' /\ accounts'[a] \in {accounts[a], NoUsername}
    <3>1. newAccount' \in Nat /\ newAccount' >= newAccount
      BY <2>2 DEF Keep, KeepAccounts
    <3> QED BY <2>2, <3>1 DEF Keep, KeepAccounts, OldAccounts, AccountIds
  <2> QED BY <1>2, <2>1, <2>3, <2>4, <2>5 DEF ThreadOK
<1> QED BY <1>1, <1>2

\* A method that ends leaves nothing behind.
LEMMA ForgetType ==
  ASSUME TypeOK, NEW t \in Threads, Forget(t)
  PROVE  /\ id'[t] = 0
         /\ id' \in [Threads -> {0} \cup AccountIds \cup ExtensionIds]
         /\ dao' \in [Threads -> ExtensionDocs \cup {NoExtension}]
         /\ username' \in [Threads -> Usernames \cup {NoUsername}]
         /\ other' \in [Threads -> ExtensionIds \cup {0}]
         /\ otherDao' \in [Threads -> ExtensionDocs \cup {NoExtension}]
         /\ \A u \in Threads \ {t} : /\ id'[u] = id[u] /\ dao'[u] = dao[u]
                                     /\ username'[u] = username[u] /\ other'[u] = other[u]
                                     /\ otherDao'[u] = otherDao[u]
BY DEF TypeOK, Forget

\* Only ids that were handed out have a document.
LEMMA DocsAreOld ==
  ASSUME TypeOK
  PROVE  /\ \A e \in ExtensionIds : extensions[e] # NoExtension =>
              e \in OldExtensions /\ extensions[e] \in ExtensionDocs /\ e # 0
         /\ \A a \in AccountIds : accounts[a] # NoUsername =>
              a \in OldAccounts /\ accounts[a] \in Usernames
BY ConstantsAssumption DEF TypeOK, OldExtensions, OldAccounts, ExtensionIds, AccountIds

\* A modified document stays a document of the same number.
LEMMA PrimaryField ==
  ASSUME NEW d \in ExtensionDocs, NEW p \in BOOLEAN
  PROVE  /\ [d EXCEPT !.primary = p] \in ExtensionDocs
         /\ [d EXCEPT !.primary = p].number = d.number
         /\ [d EXCEPT !.primary = p].account = d.account
         /\ [d EXCEPT !.primary = p].primary = p
BY DEF ExtensionDocs

LEMMA DocFields ==
  ASSUME NEW d \in ExtensionDocs, NEW a \in AccountIds, NEW p \in BOOLEAN
  PROVE  /\ [d EXCEPT !.account = a, !.primary = p] \in ExtensionDocs
         /\ [d EXCEPT !.account = a, !.primary = p].number = d.number
BY DEF ExtensionDocs

LEMMA EditTypes ==
  ASSUME NEW t \in Threads
  PROVE  Edits(t) \subseteq {"edits"} /\ \A S : Creates(t, S) \subseteq {"creates"}
BY DEF Edits, Creates

\* The other threads, whose variables a step of t leaves alone.
Others(t) ==
  \A u \in Threads \ {t} : /\ at'[u] = at[u] /\ id'[u] = id[u] /\ dao'[u] = dao[u]
                           /\ username'[u] = username[u] /\ other'[u] = other[u]
                           /\ otherDao'[u] = otherDao[u]

\* A step that writes no document.
LEMMA Reading ==
  ASSUME Inv, UNCHANGED docVars, NEW t \in Threads, Others(t), ThreadOK(t)'
  PROVE  Keep /\ ThreadInv'
<1>1. Keep
  BY DEF Keep, KeepAccounts, KeepExtensions, docVars
<1> QED BY <1>1, Frame DEF Others

\* A method ends without a further write.
LEMMA Ending ==
  ASSUME Inv, UNCHANGED docVars, NEW t \in Threads, Forget(t),
         at' = [at EXCEPT ![t] = "idle"],
         past' \in SUBSET {"edits", "creates", "lost"}
  PROVE  TypeOK' /\ Keep /\ ThreadInv'
<1>1. TypeOK
  BY DEF Inv
<1>2. TypeOK'
  BY <1>1, ForgetType DEF TypeOK, docVars, Steps
<1>3. ThreadOK(t)'
  BY <1>1, ForgetType DEF TypeOK, ThreadOK, EditSteps
<1>4. Others(t)
  BY <1>1, ForgetType DEF TypeOK, Others
<1> QED BY <1>2, <1>3, <1>4, Reading

------------------------------------------------------------------------------
(* One lemma per action: its step keeps the types, what the threads know, and *)
(* the identity of the documents.                                           *)

LEMMA FailStep ==
  ASSUME Inv, NEW t \in Threads, Fail(t)
  PROVE  TypeOK' /\ Keep /\ ThreadInv'
<1>1. past' \in SUBSET {"edits", "creates", "lost"}
  BY DEF Inv, TypeOK, Fail, Loses
<1> QED BY <1>1, Ending DEF Fail, Ends

LEMMA ReplaceStep ==
  ASSUME Inv, NEW t \in Threads, Replace(t)
  PROVE  TypeOK' /\ Keep /\ ThreadInv'
<1>1. past' \in SUBSET {"edits", "creates", "lost"}
  BY DEF Inv, TypeOK, Replace, Done
<1> QED BY <1>1, Ending DEF Replace, Done, Ends

LEMMA CreateExtensionStep ==
  ASSUME Inv, NEW t \in Threads, CreateExtension(t)
  PROVE  TypeOK' /\ Keep /\ ThreadInv'
<1>1. PICK x \in Numbers, a \in OldAccounts, p \in BOOLEAN :
        /\ Starts(t, "findAccount", Edits(t) \cup Creates(t, EditSteps))
        /\ dao' = [dao EXCEPT ![t] = [number |-> x, account |-> a, primary |-> p]]
  BY DEF CreateExtension
<1>2. UNCHANGED <<docVars, id, username, other, otherDao>>
  BY DEF CreateExtension
<1>3. TypeOK /\ ThreadOK(t)
  BY DEF Inv, ThreadInv
<1>4. [number |-> x, account |-> a, primary |-> p] \in ExtensionDocs
  BY <1>1 DEF ExtensionDocs, OldAccounts
<1>5. TypeOK'
  BY <1>1, <1>2, <1>3, <1>4, EditTypes DEF TypeOK, Starts, docVars, Steps
<1>6. ThreadOK(t)'
  BY <1>1, <1>2, <1>3, <1>4 DEF TypeOK, ThreadOK, Starts, EditSteps
<1>7. Others(t)
  BY <1>1, <1>2, <1>3 DEF TypeOK, Others, Starts
<1> QED BY <1>2, <1>5, <1>6, <1>7, Reading

LEMMA ModifyExtensionStep ==
  ASSUME Inv, NEW t \in Threads, ModifyExtension(t)
  PROVE  TypeOK' /\ Keep /\ ThreadInv'
<1>1. PICK e \in ExtensionIds, a \in OldAccounts, p \in BOOLEAN :
        /\ extensions[e] # NoExtension
        /\ Starts(t, "findAccount", Edits(t))
        /\ id' = [id EXCEPT ![t] = e]
        /\ dao' = [dao EXCEPT ![t] = [extensions[e] EXCEPT !.account = a, !.primary = p]]
  BY DEF ModifyExtension
<1>2. UNCHANGED <<docVars, username, other, otherDao>>
  BY DEF ModifyExtension
<1>3. TypeOK /\ ThreadOK(t)
  BY DEF Inv, ThreadInv
<1>4. /\ extensions[e] \in ExtensionDocs /\ e \in OldExtensions
      /\ [extensions[e] EXCEPT !.account = a, !.primary = p] \in ExtensionDocs
      /\ [extensions[e] EXCEPT !.account = a, !.primary = p].number = extensions[e].number
  <2>1. extensions[e] \in ExtensionDocs /\ e \in OldExtensions /\ a \in AccountIds
    BY <1>1, <1>3, DocsAreOld DEF OldAccounts
  <2> QED BY <2>1, DocFields
<1>5. TypeOK'
  BY <1>1, <1>2, <1>3, <1>4, EditTypes DEF TypeOK, Starts, docVars, Steps
<1>6. ThreadOK(t)'
  <2>1. at'[t] = "findAccount" /\ id'[t] = e /\ extensions' = extensions
        /\ dao'[t] = [extensions[e] EXCEPT !.account = a, !.primary = p]
        /\ newExtension' = newExtension
    BY <1>1, <1>2, <1>3 DEF TypeOK, Starts, docVars
  <2>2. Names(dao[t], id[t])' /\ (id[t] \in OldExtensions)'
    BY <2>1, <1>4 DEF Names, OldExtensions, ExtensionIds
  <2> QED BY <2>1, <2>2, <1>4 DEF ThreadOK, Names
<1>7. Others(t)
  BY <1>1, <1>2, <1>3 DEF TypeOK, Others, Starts
<1> QED BY <1>2, <1>5, <1>6, <1>7, Reading

LEMMA FindAccountStep ==
  ASSUME Inv, NEW t \in Threads, FindAccount(t)
  PROVE  TypeOK' /\ Keep /\ ThreadInv'
<1>1. TypeOK /\ ThreadOK(t) /\ UNCHANGED docVars
  BY DEF Inv, ThreadInv, FindAccount
<1>2. CASE Goto(t, "list") /\ UNCHANGED daoVars
  <2>1. TypeOK'
    BY <1>1, <1>2 DEF TypeOK, Goto, docVars, daoVars, Steps
  <2>2. ThreadOK(t)'
    BY <1>1, <1>2 DEF TypeOK, ThreadOK, Goto, docVars, daoVars, EditSteps, FindAccount, Names,
                      OldExtensions
  <2>3. Others(t)
    BY <1>1, <1>2 DEF TypeOK, Others, Goto, daoVars
  <2> QED BY <1>1, <2>1, <2>2, <2>3, Reading
<1>3. CASE Done(t)
  BY <1>1, <1>3, Ending DEF Done, Ends, TypeOK
<1> QED BY <1>2, <1>3 DEF FindAccount

LEMMA ListStep ==
  ASSUME Inv, NEW t \in Threads, List(t)
  PROVE  TypeOK' /\ Keep /\ ThreadInv'
<1>1. TypeOK /\ ThreadOK(t)
  BY DEF Inv, ThreadInv
<1>2. UNCHANGED <<docVars, id, username>> /\ at[t] = "list"
  BY DEF List
<1>3. CASE dao' = [dao EXCEPT ![t].primary = TRUE]
           /\ Goto(t, "save") /\ UNCHANGED <<other, otherDao>>
  <2>1. dao[t] \in ExtensionDocs
    BY <1>1, <1>2 DEF ThreadOK, EditSteps
  <2>2. /\ [dao[t] EXCEPT !.primary = TRUE] \in ExtensionDocs
        /\ [dao[t] EXCEPT !.primary = TRUE].number = dao[t].number
    BY <2>1, PrimaryField
  <2>3. TypeOK'
    BY <1>1, <1>2, <1>3, <2>2 DEF TypeOK, Goto, docVars, Steps
  <2>4. ThreadOK(t)'
    BY <1>1, <1>2, <1>3, <2>2 DEF TypeOK, ThreadOK, Goto, docVars, EditSteps, Names, OldExtensions
  <2>5. Others(t)
    BY <1>1, <1>2, <1>3 DEF TypeOK, Others, Goto
  <2> QED BY <1>2, <2>3, <2>4, <2>5, Reading
<1>4. CASE Goto(t, "save") /\ UNCHANGED <<dao, other, otherDao>>
  <2>1. TypeOK'
    BY <1>1, <1>2, <1>4 DEF TypeOK, Goto, docVars, Steps
  <2>2. ThreadOK(t)'
    BY <1>1, <1>2, <1>4 DEF TypeOK, ThreadOK, Goto, docVars, EditSteps, Names, OldExtensions
  <2>3. Others(t)
    BY <1>1, <1>2, <1>4 DEF TypeOK, Others, Goto
  <2> QED BY <1>2, <2>1, <2>2, <2>3, Reading
<1>5. CASE /\ \E e \in PrimariesOf(dao[t].account) :
                other' = [other EXCEPT ![t] = e] /\ otherDao' = [otherDao EXCEPT ![t] = extensions[e]]
           /\ Goto(t, "demote") /\ UNCHANGED dao
  <2>1. PICK e \in PrimariesOf(dao[t].account) :
          other' = [other EXCEPT ![t] = e] /\ otherDao' = [otherDao EXCEPT ![t] = extensions[e]]
    BY <1>5
  <2>2. e \in OldExtensions /\ e # 0 /\ extensions[e] \in ExtensionDocs
        /\ extensions[e] # NoExtension
    BY <1>1, DocsAreOld DEF PrimariesOf, ExtensionsOf
  <2>3. TypeOK'
    BY <1>1, <1>2, <1>5, <2>1, <2>2 DEF TypeOK, Goto, docVars, Steps, OldExtensions
  <2>4. ThreadOK(t)'
    BY <1>1, <1>2, <1>5, <2>1, <2>2
       DEF TypeOK, ThreadOK, Goto, docVars, EditSteps, Names, OldExtensions
  <2>5. Others(t)
    BY <1>1, <1>2, <1>5, <2>1 DEF TypeOK, Others, Goto
  <2> QED BY <1>2, <2>3, <2>4, <2>5, Reading
<1> QED BY <1>3, <1>4, <1>5 DEF List

LEMMA DemoteStep ==
  ASSUME Inv, NEW t \in Threads, Demote(t)
  PROVE  TypeOK' /\ Keep /\ ThreadInv'
<1> DEFINE d == [otherDao[t] EXCEPT !.primary = FALSE]
<1>1. TypeOK /\ ThreadOK(t) /\ at[t] = "demote"
  BY DEF Inv, ThreadInv, Demote
<1>2. other[t] \in OldExtensions /\ other[t] \in ExtensionIds /\ Names(otherDao[t], other[t])
  BY <1>1 DEF ThreadOK, OldExtensions
<1>3. d \in ExtensionDocs /\ d.number = otherDao[t].number
  BY <1>2, PrimaryField DEF Names
<1> HIDE DEF d
<1>4. extensions' = IF extensions[other[t]] = NoExtension THEN extensions
                    ELSE [extensions EXCEPT ![other[t]] = d]
  BY DEF Demote, Updated, d
<1>5. /\ at' = [at EXCEPT ![t] = "save"] /\ past' \in {past, past \cup {"lost"}}
      /\ UNCHANGED <<accounts, newAccount, newExtension, daoVars>>
  BY DEF Demote, Loses
<1>6. TypeOK'
  BY <1>1, <1>2, <1>3, <1>4, <1>5 DEF TypeOK, daoVars, Steps, OldExtensions
<1>7. Keep
  BY <1>1, <1>2, <1>3, <1>4, <1>5
     DEF TypeOK, Keep, KeepExtensions, KeepAccounts, Names, OldExtensions
<1>8. ThreadOK(t)'
  <2>1. at'[t] = "save" /\ dao' = dao /\ id' = id /\ newExtension' = newExtension
    BY <1>1, <1>5 DEF TypeOK, daoVars
  <2>2. dao[t] \in ExtensionDocs /\ id[t] \in {0} \cup OldExtensions
        /\ (id[t] # 0 => Names(dao[t], id[t]))
    BY <1>1 DEF ThreadOK, EditSteps
  <2>3. id[t] # 0 => Names(dao[t], id[t])'
    BY <2>1, <2>2, <1>7 DEF Keep, KeepExtensions, Names
  <2> QED BY <2>1, <2>2, <2>3 DEF ThreadOK, OldExtensions, ExtensionIds
<1>9. Others(t)
  BY <1>1, <1>5 DEF TypeOK, Others, daoVars
<1> QED BY <1>6, <1>7, <1>8, <1>9, Frame DEF Others

\* The last step of a method, which writes.
LEMMA Finishing ==
  ASSUME Inv, NEW t \in Threads, Ends(t), past' \in {past, past \cup {"lost"}}, Keep,
         /\ accounts' \in [AccountIds -> Usernames \cup {NoUsername}]
         /\ extensions' \in [ExtensionIds -> ExtensionDocs \cup {NoExtension}]
         /\ newAccount' \in 1..(MaxAccounts + 1) /\ newExtension' \in 1..(MaxExtensions + 1)
         /\ \A a \in AccountIds : a >= newAccount' => accounts'[a] = NoUsername
         /\ \A e \in ExtensionIds : e >= newExtension' => extensions'[e] = NoExtension
  PROVE  TypeOK' /\ ThreadInv'
<1>1. TypeOK
  BY DEF Inv
<1>2. TypeOK'
  BY <1>1, ForgetType DEF TypeOK, Ends, Steps
<1>3. ThreadOK(t)'
  BY <1>1, ForgetType DEF TypeOK, Ends, ThreadOK, EditSteps
<1>4. Others(t)
  BY <1>1, ForgetType DEF TypeOK, Ends, Others
<1> QED BY <1>2, <1>3, <1>4, Frame DEF Others

LEMMA SaveStep ==
  ASSUME Inv, NEW t \in Threads, Save(t)
  PROVE  TypeOK' /\ Keep /\ ThreadInv'
<1>1. /\ TypeOK /\ ThreadOK(t) /\ at[t] = "save"
      /\ Ends(t) /\ past' \in {past, past \cup {"lost"}}
  BY DEF Inv, ThreadInv, Save, Loses
<1>2. dao[t] \in ExtensionDocs /\ id[t] \in {0} \cup OldExtensions
      /\ (id[t] # 0 => Names(dao[t], id[t]))
  BY <1>1 DEF ThreadOK, EditSteps
<1>3. UNCHANGED <<accounts, newAccount>>
  BY DEF Save
<1>4. CASE /\ newExtension <= MaxExtensions
           /\ extensions' = [extensions EXCEPT ![newExtension] = dao[t]]
           /\ newExtension' = newExtension + 1
  <2>1. newExtension \in ExtensionIds /\ newExtension \in Nat /\ MaxExtensions \in Nat
    BY <1>1, <1>4, ConstantsAssumption DEF TypeOK, ExtensionIds
  <2>2. Keep
    BY <1>1, <1>3, <1>4, <2>1
       DEF TypeOK, Keep, KeepAccounts, KeepExtensions, OldExtensions, ExtensionIds
  <2>3. extensions' \in [ExtensionIds -> ExtensionDocs \cup {NoExtension}]
    BY <1>1, <1>2, <1>4 DEF TypeOK
  <2>4. \A e \in ExtensionIds : e >= newExtension' => extensions'[e] = NoExtension
    BY <1>1, <1>4, <2>1 DEF TypeOK, ExtensionIds
  <2>5. newExtension' \in 1..(MaxExtensions + 1)
    BY <1>4, <2>1
  <2> QED BY <1>1, <1>3, <2>2, <2>3, <2>4, <2>5, Finishing DEF TypeOK
<1>5. CASE /\ id[t] # 0 /\ UNCHANGED newExtension
           /\ extensions' = Updated(extensions, id[t], dao[t], NoExtension)
  <2>1. Keep
    BY <1>1, <1>2, <1>3, <1>5
       DEF TypeOK, Keep, KeepAccounts, KeepExtensions, OldExtensions, Updated, Names
  <2>2. /\ extensions' \in [ExtensionIds -> ExtensionDocs \cup {NoExtension}]
        /\ \A e \in ExtensionIds : e >= newExtension' => extensions'[e] = NoExtension
    BY <1>1, <1>2, <1>5 DEF TypeOK, Updated, OldExtensions
  <2> QED BY <1>1, <1>3, <1>5, <2>1, <2>2, Finishing DEF TypeOK
<1> QED BY <1>4, <1>5 DEF Save

LEMMA DeleteExtensionStep ==
  ASSUME Inv, NEW t \in Threads, DeleteExtension(t)
  PROVE  TypeOK' /\ Keep /\ ThreadInv'
<1>1. PICK e \in ExtensionIds : /\ extensions[e] # NoExtension
                               /\ Starts(t, "remove", {})
                               /\ id' = [id EXCEPT ![t] = e]
  BY DEF DeleteExtension
<1>2. UNCHANGED <<docVars, dao, username, other, otherDao>>
  BY DEF DeleteExtension
<1>3. TypeOK /\ e \in OldExtensions
  BY <1>1, DocsAreOld DEF Inv
<1>4. TypeOK'
  BY <1>1, <1>2, <1>3 DEF TypeOK, Starts, docVars, Steps
<1>5. ThreadOK(t)'
  BY <1>1, <1>2, <1>3 DEF TypeOK, ThreadOK, Starts, docVars, EditSteps, OldExtensions, ExtensionIds
<1>6. Others(t)
  BY <1>1, <1>2, <1>3 DEF TypeOK, Others, Starts
<1> QED BY <1>2, <1>4, <1>5, <1>6, Reading

LEMMA RemoveStep ==
  ASSUME Inv, NEW t \in Threads, Remove(t)
  PROVE  TypeOK' /\ Keep /\ ThreadInv'
<1>1. TypeOK /\ ThreadOK(t) /\ at[t] = "remove"
  BY DEF Inv, ThreadInv, Remove
<1>2. /\ extensions' = [extensions EXCEPT ![id[t]] = NoExtension]
      /\ at' = [at EXCEPT ![t] = "replace"] /\ past' \in {past, past \cup {"lost"}}
      /\ UNCHANGED <<accounts, newAccount, newExtension, daoVars>>
  BY DEF Remove, Loses
<1>3. TypeOK'
  BY <1>1, <1>2 DEF TypeOK, daoVars, Steps
<1>4. Keep
  BY <1>1, <1>2 DEF TypeOK, Keep, KeepExtensions, KeepAccounts, OldExtensions
<1>5. ThreadOK(t)'
  BY <1>1, <1>2 DEF TypeOK, ThreadOK, EditSteps
<1>6. Others(t)
  BY <1>1, <1>2 DEF TypeOK, Others, daoVars
<1> QED BY <1>3, <1>4, <1>5, <1>6, Frame DEF Others

LEMMA CreateAccountStep ==
  ASSUME Inv, NEW t \in Threads, CreateAccount(t)
  PROVE  TypeOK' /\ Keep /\ ThreadInv'
<1>1. PICK n \in Usernames : /\ Starts(t, "insertAccount", Creates(t, {"insertAccount"}))
                            /\ username' = [username EXCEPT ![t] = n]
  BY DEF CreateAccount
<1>2. UNCHANGED <<docVars, id, dao, other, otherDao>> /\ TypeOK
  BY DEF CreateAccount, Inv
<1>3. TypeOK'
  BY <1>1, <1>2, EditTypes DEF TypeOK, Starts, docVars, Steps
<1>4. ThreadOK(t)'
  BY <1>1, <1>2 DEF TypeOK, ThreadOK, Starts, EditSteps
<1>5. Others(t)
  BY <1>1, <1>2 DEF TypeOK, Others, Starts
<1> QED BY <1>2, <1>3, <1>4, <1>5, Reading

LEMMA InsertAccountStep ==
  ASSUME Inv, NEW t \in Threads, InsertAccount(t)
  PROVE  TypeOK' /\ Keep /\ ThreadInv'
<1>1. TypeOK /\ username[t] \in Usernames /\ Ends(t) /\ past' = past
  BY DEF Inv, ThreadInv, ThreadOK, InsertAccount, Done
<1>2. /\ newAccount <= MaxAccounts /\ newAccount' = newAccount + 1
      /\ accounts' = [accounts EXCEPT ![newAccount] = username[t]]
      /\ UNCHANGED <<extensions, newExtension>>
  BY DEF InsertAccount
<1>3. newAccount \in AccountIds /\ newAccount \in Nat /\ MaxAccounts \in Nat
  BY <1>1, <1>2, ConstantsAssumption DEF TypeOK, AccountIds
<1>4. Keep
  BY <1>1, <1>2, <1>3 DEF TypeOK, Keep, KeepAccounts, KeepExtensions, OldAccounts, OldExtensions,
                          AccountIds
<1>5. /\ accounts' \in [AccountIds -> Usernames \cup {NoUsername}]
      /\ \A a \in AccountIds : a >= newAccount' => accounts'[a] = NoUsername
      /\ newAccount' \in 1..(MaxAccounts + 1)
  BY <1>1, <1>2, <1>3 DEF TypeOK, AccountIds
<1> QED BY <1>1, <1>2, <1>4, <1>5, Finishing DEF TypeOK

LEMMA ModifyAccountStep ==
  ASSUME Inv, NEW t \in Threads, ModifyAccount(t)
  PROVE  TypeOK' /\ Keep /\ ThreadInv'
<1>1. PICK a \in AccountIds : /\ accounts[a] # NoUsername
                             /\ Starts(t, "updateAccount", {})
                             /\ id' = [id EXCEPT ![t] = a]
                             /\ username' = [username EXCEPT ![t] = accounts[a]]
  BY DEF ModifyAccount
<1>2. UNCHANGED <<docVars, dao, other, otherDao>> /\ TypeOK
  BY DEF ModifyAccount, Inv
<1>3. a \in OldAccounts /\ accounts[a] \in Usernames
  BY <1>1, <1>2, DocsAreOld
<1>4. TypeOK'
  BY <1>1, <1>2, <1>3 DEF TypeOK, Starts, docVars, Steps
<1>5. ThreadOK(t)'
  BY <1>1, <1>2, <1>3 DEF TypeOK, ThreadOK, Starts, docVars, EditSteps, OldAccounts, AccountIds
<1>6. Others(t)
  BY <1>1, <1>2 DEF TypeOK, Others, Starts
<1> QED BY <1>2, <1>4, <1>5, <1>6, Reading

LEMMA UpdateAccountStep ==
  ASSUME Inv, NEW t \in Threads, UpdateAccount(t)
  PROVE  TypeOK' /\ Keep /\ ThreadInv'
<1>1. TypeOK /\ ThreadOK(t) /\ at[t] = "updateAccount" /\ Ends(t) /\ past' = past
  BY DEF Inv, ThreadInv, UpdateAccount, Done
<1>2. /\ accounts' = Updated(accounts, id[t], username[t], NoUsername)
      /\ UNCHANGED <<extensions, newAccount, newExtension>>
  BY DEF UpdateAccount
<1>3. username[t] \in Usernames /\ id[t] \in OldAccounts
      /\ accounts[id[t]] \in {username[t], NoUsername}
  BY <1>1 DEF ThreadOK
<1>4. Keep
  BY <1>1, <1>2, <1>3
     DEF TypeOK, Keep, KeepAccounts, KeepExtensions, OldAccounts, OldExtensions, Updated
<1>5. /\ accounts' \in [AccountIds -> Usernames \cup {NoUsername}]
      /\ \A a \in AccountIds : a >= newAccount' => accounts'[a] = NoUsername
  BY <1>1, <1>2, <1>3 DEF TypeOK, Updated, OldAccounts
<1> QED BY <1>1, <1>2, <1>4, <1>5, Finishing DEF TypeOK

LEMMA DeleteAccountStep ==
  ASSUME Inv, NEW t \in Threads, DeleteAccount(t)
  PROVE  TypeOK' /\ Keep /\ ThreadInv'
<1>1. PICK a \in AccountIds : /\ accounts[a] # NoUsername
                             /\ Starts(t, "removeAccount", {})
                             /\ id' = [id EXCEPT ![t] = a]
  BY DEF DeleteAccount
<1>2. UNCHANGED <<docVars, dao, username, other, otherDao>> /\ TypeOK
  BY DEF DeleteAccount, Inv
<1>3. a \in OldAccounts
  BY <1>1, <1>2, DocsAreOld
<1>4. TypeOK'
  BY <1>1, <1>2, <1>3 DEF TypeOK, Starts, docVars, Steps
<1>5. ThreadOK(t)'
  BY <1>1, <1>2, <1>3 DEF TypeOK, ThreadOK, Starts, docVars, EditSteps, OldAccounts, AccountIds
<1>6. Others(t)
  BY <1>1, <1>2 DEF TypeOK, Others, Starts
<1> QED BY <1>2, <1>4, <1>5, <1>6, Reading

LEMMA RemoveAccountStep ==
  ASSUME Inv, NEW t \in Threads, RemoveAccount(t)
  PROVE  TypeOK' /\ Keep /\ ThreadInv'
<1>1. TypeOK /\ Ends(t) /\ past' = past
  BY DEF Inv, RemoveAccount, Done
<1>2. /\ accounts' = [accounts EXCEPT ![id[t]] = NoUsername]
      /\ UNCHANGED <<extensions, newAccount, newExtension>>
  BY DEF RemoveAccount
<1>3. Keep
  BY <1>1, <1>2 DEF TypeOK, Keep, KeepAccounts, KeepExtensions, OldAccounts, OldExtensions
<1>4. /\ accounts' \in [AccountIds -> Usernames \cup {NoUsername}]
      /\ \A a \in AccountIds : a >= newAccount' => accounts'[a] = NoUsername
  BY <1>1, <1>2 DEF TypeOK
<1> QED BY <1>1, <1>2, <1>3, <1>4, Finishing DEF TypeOK

------------------------------------------------------------------------------
(* Every step, and the theorems.                                            *)

LEMMA InitInv == Init => Inv
<1> SUFFICES ASSUME Init PROVE Inv
  OBVIOUS
<1>1. TypeOK
  BY ConstantsAssumption DEF Init, TypeOK, Steps
<1>2. ThreadInv
  BY DEF Init, ThreadInv, ThreadOK, EditSteps
<1> QED BY <1>1, <1>2 DEF Inv

LEMMA NextInv == Inv /\ [Next]_vars => Inv' /\ (Keep \/ UNCHANGED vars)
<1> SUFFICES ASSUME Inv, [Next]_vars PROVE Inv' /\ (Keep \/ UNCHANGED vars)
  OBVIOUS
<1>1. CASE UNCHANGED vars
  <2>1. TypeOK'
    BY <1>1 DEF Inv, TypeOK, vars, docVars, daoVars
  <2>2. ThreadInv'
    BY <1>1 DEF Inv, ThreadInv, ThreadOK, Names, OldExtensions, OldAccounts, vars, docVars, daoVars
  <2> QED BY <1>1, <2>1, <2>2 DEF Inv
<1>2. ASSUME NEW t \in Threads, ExtensionStep(t)
      PROVE  TypeOK' /\ Keep /\ ThreadInv'
  BY <1>2, CreateExtensionStep, ModifyExtensionStep, FindAccountStep, ListStep, DemoteStep,
     SaveStep, DeleteExtensionStep, RemoveStep, ReplaceStep DEF ExtensionStep
<1>3. ASSUME NEW t \in Threads, AccountStep(t)
      PROVE  TypeOK' /\ Keep /\ ThreadInv'
  BY <1>3, CreateAccountStep, InsertAccountStep, ModifyAccountStep, UpdateAccountStep,
     DeleteAccountStep, RemoveAccountStep DEF AccountStep
<1> QED BY <1>1, <1>2, <1>3, FailStep DEF Next, Inv

\* Every variable keeps its type, whatever methods run side by side and fail, and a
\* thread takes the flag away only from an extension it has found
\* (SipExtensionCreateMethod.java:53-58).
THEOREM DocumentsTyped == Spec => []TypeOK
<1>1. Inv => TypeOK
  BY DEF Inv
<1> QED BY <1>1, InitInv, NextInv, PTL DEF Spec

\* Whatever methods run side by side and fail, no store changes a document's number
\* or username, and none brings a deleted document back (DatabaseObject.java:60-66).
THEOREM IdentityKept == Spec => DocumentsKeepIdentity
<1> DEFINE A == /\ \A e \in OldExtensions :
                     extensions'[e] = NoExtension
                     \/ (extensions[e] # NoExtension
                         /\ extensions'[e].number = extensions[e].number)
                /\ \A a \in OldAccounts : accounts'[a] \in {accounts[a], NoUsername}
<1>1. Inv /\ [Next]_vars => [A]_vars
  BY NextInv DEF Keep, KeepExtensions, KeepAccounts
<1> QED BY <1>1, InitInv, NextInv, PTL DEF Spec, DocumentsKeepIdentity

------------------------------------------------------------------------------
(* One primary extension, while extensions are edited one at a time.        *)

Editing(t) == at[t] \in EditSteps
Alone == "edits" \notin past => \A t, u \in Threads : Editing(t) /\ Editing(u) => t = u

\* Thread t has found the extension that has to yield, or seen to it that only its
\* own one can be primary.
Sure(t) ==
  /\ at[t] = "demote" => PrimariesOf(dao[t].account) \subseteq {other[t]}
  /\ at[t] = "save" /\ dao[t].primary => PrimariesOf(dao[t].account) \subseteq {id[t]}

PrimaryInv == "edits" \notin past => AtMostOnePrimary /\ \A t \in Threads : Sure(t)
IInv       == Inv /\ Alone /\ PrimaryInv

\* No extension becomes primary for an account.
Shrink == \A a : PrimariesOf(a)' \subseteq PrimariesOf(a)

LEMMA SameDocs == ASSUME UNCHANGED extensions PROVE Shrink
BY DEF Shrink, PrimariesOf, ExtensionsOf

\* A step of t that makes no extension primary and leaves t sure of what it does.
LEMMA StaySure ==
  ASSUME IInv, Shrink, NEW t \in Threads, past \subseteq past',
         \A u \in Threads \ {t} : /\ at'[u] = at[u] /\ id'[u] = id[u] /\ dao'[u] = dao[u]
                                  /\ other'[u] = other[u],
         "edits" \notin past' => Sure(t)'
  PROVE  PrimaryInv'
<1> SUFFICES ASSUME "edits" \notin past' PROVE AtMostOnePrimary' /\ \A u \in Threads : Sure(u)'
  BY DEF PrimaryInv
<1>1. "edits" \notin past /\ AtMostOnePrimary /\ \A u \in Threads : Sure(u)
  BY DEF IInv, PrimaryInv
<1>2. AtMostOnePrimary'
  BY <1>1 DEF AtMostOnePrimary, Shrink, AccountIds
<1>3. ASSUME NEW u \in Threads, u # t PROVE Sure(u)'
  BY <1>1, <1>3 DEF Sure, Shrink
<1> QED BY <1>2, <1>3

\* A step after which t edits only if it did before.
LEMMA StayAlone ==
  ASSUME Alone, NEW t \in Threads, past \subseteq past',
         \A u \in Threads \ {t} : at'[u] = at[u], at'[t] \in EditSteps => at[t] \in EditSteps
  PROVE  Alone'
BY DEF Alone, Editing, EditSteps

LEMMA EditStart ==
  ASSUME IInv, NEW t \in Threads, CreateExtension(t) \/ ModifyExtension(t)
  PROVE  Alone' /\ PrimaryInv'
<1>1. PICK what : Starts(t, "findAccount", Edits(t) \cup what)
  <2>1. Edits(t) = Edits(t) \cup {}
    OBVIOUS
  <2> QED BY <2>1 DEF CreateExtension, ModifyExtension
<1>2. TypeOK /\ UNCHANGED <<extensions, other>>
  BY DEF IInv, Inv, CreateExtension, ModifyExtension, docVars
<1>3. /\ at' = [at EXCEPT ![t] = "findAccount"] /\ past \subseteq past'
      /\ "edits" \notin past' => \A u \in Threads \ {t} : at[u] \notin EditSteps
  BY <1>1 DEF Starts, Edits
<1>4. Alone'
  BY <1>2, <1>3 DEF TypeOK, Alone, Editing
<1>5. Sure(t)'
  BY <1>2, <1>3 DEF TypeOK, Sure
<1>6. \A u \in Threads \ {t} : id'[u] = id[u] /\ dao'[u] = dao[u]
  BY <1>2 DEF TypeOK, CreateExtension, ModifyExtension
<1> QED BY <1>2, <1>3, <1>4, <1>5, <1>6, SameDocs, StaySure DEF TypeOK

\* A step after which t is at neither of the two statements that need to be sure.
LEMMA Elsewhere ==
  ASSUME IInv, Shrink, NEW t \in Threads, past \subseteq past',
         \A u \in Threads \ {t} : /\ at'[u] = at[u] /\ id'[u] = id[u] /\ dao'[u] = dao[u]
                                  /\ other'[u] = other[u],
         at'[t] \in Steps \ {"demote", "save"}, at'[t] \in EditSteps => at[t] \in EditSteps
  PROVE  Alone' /\ PrimaryInv'
<1>1. Alone'
  BY StayAlone DEF IInv
<1>2. Sure(t)'
  BY DEF Sure
<1> QED BY <1>1, <1>2, StaySure

LEMMA FindAccountPrimary ==
  ASSUME IInv, NEW t \in Threads, FindAccount(t)
  PROVE  Alone' /\ PrimaryInv'
<1>1. TypeOK /\ extensions' = extensions /\ past' = past /\ at[t] = "findAccount"
      /\ (at' = [at EXCEPT ![t] = "list"] \/ at' = [at EXCEPT ![t] = "idle"])
      /\ (UNCHANGED daoVars \/ Forget(t))
  BY DEF IInv, Inv, FindAccount, Done, Ends, Goto, docVars
<1>2. Others(t)
  BY <1>1, ForgetType DEF Others, TypeOK, daoVars
<1> QED BY <1>1, <1>2, SameDocs, Elsewhere DEF Others, TypeOK, Steps, EditSteps

LEMMA ListPrimary ==
  ASSUME IInv, NEW t \in Threads, List(t)
  PROVE  Alone' /\ PrimaryInv'
<1>1. TypeOK /\ UNCHANGED <<extensions, id>> /\ past' = past /\ at[t] = "list"
      /\ dao[t] \in ExtensionDocs
  BY DEF IInv, Inv, ThreadInv, ThreadOK, EditSteps, List, Goto, docVars
<1>2. at' = [at EXCEPT ![t] = "save"] \/ at' = [at EXCEPT ![t] = "demote"]
  BY DEF List, Goto
<1>3. \A u \in Threads \ {t} : at'[u] = at[u] /\ dao'[u] = dao[u] /\ other'[u] = other[u]
  BY <1>1 DEF List, TypeOK, Goto
<1>4. ASSUME "edits" \notin past' PROVE Sure(t)'
  <2>1. AtMostOnePrimary /\ dao[t].account \in AccountIds
    BY <1>1, <1>4 DEF IInv, PrimaryInv, ExtensionDocs
  <2>2. \A a : PrimariesOf(a)' = PrimariesOf(a)
    BY <1>1 DEF PrimariesOf, ExtensionsOf
  <2>3. CASE /\ PrimariesOf(dao[t].account) = {}
             /\ dao' = [dao EXCEPT ![t].primary = TRUE] /\ Goto(t, "save")
    <3>1. dao'[t].account = dao[t].account /\ at'[t] = "save"
      BY <1>1, <2>3, PrimaryField DEF TypeOK, Goto
    <3> QED BY <2>2, <2>3, <3>1 DEF Sure
  <2>4. CASE ~dao[t].primary /\ Goto(t, "save") /\ UNCHANGED dao
    BY <1>1, <2>4 DEF Sure, Goto, TypeOK
  <2>5. CASE /\ \E e \in PrimariesOf(dao[t].account) : other' = [other EXCEPT ![t] = e]
             /\ Goto(t, "demote") /\ UNCHANGED dao
    <3>1. other'[t] \in PrimariesOf(dao[t].account) /\ at'[t] = "demote" /\ dao' = dao
      BY <1>1, <2>5 DEF TypeOK, Goto
    <3>2. PrimariesOf(dao[t].account) \subseteq {other'[t]}
      BY <1>4, <1>1, <2>1, <3>1 DEF AtMostOnePrimary
    <3> QED BY <2>2, <3>1, <3>2 DEF Sure
  <2> QED BY <2>3, <2>4, <2>5 DEF List
<1>5. Alone'
  BY <1>1, <1>2, <1>3, StayAlone DEF IInv, EditSteps
<1> QED BY <1>1, <1>3, <1>4, <1>5, SameDocs, StaySure

LEMMA DemotePrimary ==
  ASSUME IInv, NEW t \in Threads, Demote(t)
  PROVE  Alone' /\ PrimaryInv'
<1> DEFINE d == [otherDao[t] EXCEPT !.primary = FALSE]
<1>1. TypeOK /\ ThreadOK(t) /\ at[t] = "demote"
  BY DEF IInv, Inv, ThreadInv, Demote
<1>2. other[t] \in ExtensionIds /\ otherDao[t] \in ExtensionDocs
  BY <1>1 DEF ThreadOK, OldExtensions, Names
<1>3. d \in ExtensionDocs /\ d.primary = FALSE
  BY <1>2, PrimaryField
<1> HIDE DEF d
<1>4. extensions' = IF extensions[other[t]] = NoExtension THEN extensions
                    ELSE [extensions EXCEPT ![other[t]] = d]
  BY DEF Demote, Updated, d
<1>5. at' = [at EXCEPT ![t] = "save"] /\ past \subseteq past' /\ UNCHANGED <<id, dao, other>>
  BY DEF Demote, Loses, daoVars
<1>6. \A a : PrimariesOf(a)' \subseteq PrimariesOf(a) \ {other[t]}
  BY <1>1, <1>2, <1>3, <1>4 DEF TypeOK, PrimariesOf, ExtensionsOf, ExtensionIds
<1>7. Shrink
  BY <1>6 DEF Shrink
<1>8. ASSUME "edits" \notin past' PROVE Sure(t)'
  <2>1. PrimariesOf(dao[t].account) \subseteq {other[t]}
    BY <1>1, <1>5, <1>8 DEF IInv, PrimaryInv, Sure
  <2>2. PrimariesOf(dao[t].account)' = {}
    BY <1>5, <1>6, <2>1
  <2> QED BY <1>1, <1>5, <2>2 DEF Sure, TypeOK
<1>9. Alone'
  BY <1>1, <1>5, StayAlone DEF IInv, EditSteps, TypeOK
<1> QED BY <1>1, <1>5, <1>7, <1>8, <1>9, StaySure DEF TypeOK

LEMMA SavePrimary ==
  ASSUME IInv, NEW t \in Threads, Save(t)
  PROVE  Alone' /\ PrimaryInv'
<1>1. TypeOK /\ ThreadOK(t) /\ at[t] = "save" /\ Ends(t) /\ past \subseteq past'
  BY DEF IInv, Inv, ThreadInv, Save, Loses
<1>2. dao[t] \in ExtensionDocs /\ at' = [at EXCEPT ![t] = "idle"]
  BY <1>1 DEF ThreadOK, EditSteps, Ends
<1>3. \A u \in Threads \ {t} : at'[u] = at[u]
  BY <1>1, <1>2 DEF TypeOK
<1>4. Alone'
  BY <1>1, <1>2, <1>3, StayAlone DEF IInv, EditSteps, TypeOK
<1>5. ASSUME "edits" \notin past' PROVE AtMostOnePrimary' /\ \A u \in Threads : Sure(u)'
  <2>1. /\ AtMostOnePrimary /\ Sure(t)
        /\ \A u \in Threads \ {t} : at[u] \notin EditSteps
    BY <1>1, <1>2, <1>5 DEF IInv, PrimaryInv, Alone, Editing, EditSteps
  <2>2. \A u \in Threads : Sure(u)'
    BY <1>1, <1>2, <1>3, <2>1 DEF Sure, EditSteps, TypeOK
  <2>3. PICK k \in ExtensionIds :
          \/ /\ extensions' = [extensions EXCEPT ![k] = dao[t]]
             /\ id[t] = k \/ (id[t] = 0 /\ extensions[k] = NoExtension)
          \/ extensions' = extensions
    <3>1. CASE id[t] = 0
      BY <1>1, <3>1, ConstantsAssumption DEF Save, TypeOK, ExtensionIds
    <3>2. CASE id[t] # 0
      BY <1>1, <3>2, ConstantsAssumption DEF Save, Updated, ThreadOK, EditSteps, OldExtensions,
         ExtensionIds
    <3> QED BY <3>1, <3>2
  <2>4. AtMostOnePrimary'
    <3>1. CASE extensions' = extensions
      BY <1>1, <1>5, <2>1, <3>1 DEF AtMostOnePrimary, PrimariesOf, ExtensionsOf
    <3>2. CASE /\ extensions' = [extensions EXCEPT ![k] = dao[t]]
               /\ (id[t] = k \/ (id[t] = 0 /\ extensions[k] = NoExtension))
      <4>1. \A a : PrimariesOf(a)' \subseteq PrimariesOf(a) \cup {k}
        BY <1>1, <3>2 DEF TypeOK, PrimariesOf, ExtensionsOf, ExtensionIds
      <4>2. \A a : k \in PrimariesOf(a)' => a = dao[t].account /\ dao[t].primary
        BY <1>1, <3>2 DEF TypeOK, PrimariesOf, ExtensionsOf
      <4>3. dao[t].primary => PrimariesOf(dao[t].account) \subseteq {k}
        BY <1>1, <2>1, <3>2 DEF Sure, PrimariesOf, ExtensionsOf, ExtensionIds
      <4> QED BY <1>1, <1>2, <1>5, <2>1, <4>1, <4>2, <4>3 DEF AtMostOnePrimary, AccountIds
    <3> QED BY <2>3, <3>1, <3>2
  <2> QED BY <2>2, <2>4
<1> QED BY <1>4, <1>5 DEF PrimaryInv

LEMMA OtherPrimary ==
  ASSUME IInv, NEW t \in Threads,
         DeleteExtension(t) \/ Remove(t) \/ Replace(t) \/ AccountStep(t) \/ Fail(t)
  PROVE  Alone' /\ PrimaryInv'
<1>1. TypeOK
  BY DEF IInv, Inv
<1>2. CASE DeleteExtension(t)
  <2>1. /\ at' = [at EXCEPT ![t] = "remove"] /\ past \subseteq past'
        /\ UNCHANGED <<extensions, dao, other>> /\ \A u \in Threads \ {t} : id'[u] = id[u]
    BY <1>1, <1>2 DEF DeleteExtension, Starts, docVars, TypeOK
  <2> QED BY <1>1, <2>1, SameDocs, Elsewhere DEF TypeOK, Steps, EditSteps
<1>3. CASE Remove(t)
  <2>1. at' = [at EXCEPT ![t] = "replace"] /\ past \subseteq past' /\ UNCHANGED <<id, dao, other>>
    BY <1>3 DEF Remove, Loses, daoVars
  <2>2. Shrink
    BY <1>1, <1>3 DEF Remove, Shrink, PrimariesOf, ExtensionsOf, TypeOK
  <2> QED BY <1>1, <2>1, <2>2, Elsewhere DEF TypeOK, Steps, EditSteps
<1>4. CASE Replace(t) \/ InsertAccount(t) \/ UpdateAccount(t) \/ RemoveAccount(t) \/ Fail(t)
  <2>1. /\ at' = [at EXCEPT ![t] = "idle"] /\ past \subseteq past'
        /\ extensions' = extensions /\ Forget(t)
    BY <1>4 DEF Replace, InsertAccount, UpdateAccount, RemoveAccount, Fail, Done, Ends, Loses,
                docVars
  <2>2. Others(t)
    BY <1>1, <2>1, ForgetType DEF Others, TypeOK
  <2> QED BY <1>1, <2>1, <2>2, SameDocs, Elsewhere DEF Others, TypeOK, Steps, EditSteps
<1>5. CASE CreateAccount(t) \/ ModifyAccount(t) \/ DeleteAccount(t)
  <2>1. /\ \/ at' = [at EXCEPT ![t] = "insertAccount"]
           \/ at' = [at EXCEPT ![t] = "updateAccount"]
           \/ at' = [at EXCEPT ![t] = "removeAccount"]
        /\ past \subseteq past' /\ UNCHANGED <<extensions, dao, other>>
        /\ \A u \in Threads \ {t} : id'[u] = id[u]
    BY <1>1, <1>5 DEF CreateAccount, ModifyAccount, DeleteAccount, Starts, docVars, TypeOK
  <2> QED BY <1>1, <2>1, SameDocs, Elsewhere DEF TypeOK, Steps, EditSteps
<1> QED BY <1>2, <1>3, <1>4, <1>5 DEF AccountStep

LEMMA InitPrimary == Init => IInv
<1> SUFFICES ASSUME Init PROVE Alone /\ PrimaryInv
  BY InitInv DEF IInv
<1>1. Alone
  BY DEF Init, Alone, Editing, EditSteps
<1>2. \A a : PrimariesOf(a) = {}
  BY DEF Init, PrimariesOf, ExtensionsOf
<1> QED BY <1>1, <1>2 DEF Init, PrimaryInv, AtMostOnePrimary, Sure

LEMMA NextPrimary == IInv /\ [Next]_vars => IInv'
<1> SUFFICES ASSUME IInv, [Next]_vars PROVE Alone' /\ PrimaryInv'
  BY NextInv DEF IInv
<1>1. CASE UNCHANGED vars
  BY <1>1 DEF IInv, Alone, Editing, PrimaryInv, AtMostOnePrimary, Sure, PrimariesOf, ExtensionsOf,
              vars, docVars, daoVars
<1>2. ASSUME NEW t \in Threads, ExtensionStep(t) PROVE Alone' /\ PrimaryInv'
  BY <1>2, EditStart, FindAccountPrimary, ListPrimary, DemotePrimary, SavePrimary, OtherPrimary
     DEF ExtensionStep
<1>3. ASSUME NEW t \in Threads, AccountStep(t) \/ Fail(t) PROVE Alone' /\ PrimaryInv'
  BY <1>3, OtherPrimary
<1> QED BY <1>1, <1>2, <1>3 DEF Next

\* As long as extensions are created and modified one at a time, an account never has
\* two primary ones, whatever else runs beside that and whatever fails
\* (SipExtensionCreateMethod.java:53-67, SipExtensionModifyMethod.java:46-60).
THEOREM OnePrimary == Spec => []AtMostOnePrimary
<1>1. IInv => AtMostOnePrimary
  BY DEF IInv, PrimaryInv, AtMostOnePrimary
<1> QED BY <1>1, InitPrimary, NextPrimary, PTL DEF Spec

------------------------------------------------------------------------------
(* Names that are given once, while documents are created one at a time.    *)

Creating(t)  == Editing(t) /\ id[t] = 0
Inserting(t) == at[t] = "insertAccount"

OneCreator == \A t, u \in Threads :
                (Creating(t) /\ Creating(u)) \/ (Inserting(t) /\ Inserting(u)) => t = u

\* The name that t has looked up and is about to give to a new document is still free.
Fresh(t) ==
  /\ Creating(t) => \A e \in ExtensionIds :
                      extensions[e] # NoExtension => extensions[e].number # dao[t].number
  /\ Inserting(t) => \A a \in AccountIds : accounts[a] # username[t]

NamesInv ==
  /\ \A t \in Threads : Inserting(t) => id[t] = 0
  /\ "creates" \notin past => NamesAreUnique /\ OneCreator /\ \A t \in Threads : Fresh(t)

\* No document gets a name.
NoNewNames ==
  /\ \A e \in ExtensionIds :
       extensions'[e] = NoExtension
       \/ (extensions[e] # NoExtension /\ extensions'[e].number = extensions[e].number)
  /\ \A a \in AccountIds : accounts'[a] \in {accounts[a], NoUsername}

LEMMA NoNewDocuments ==
  ASSUME TypeOK', Keep, newExtension' = newExtension, newAccount' = newAccount, TypeOK
  PROVE  NoNewNames
BY DEF TypeOK, Keep, KeepExtensions, KeepAccounts, NoNewNames, OldExtensions, OldAccounts,
       ExtensionIds, AccountIds

\* A step of t that gives no name.
LEMMA NamesStay ==
  ASSUME Inv, NamesInv, NoNewNames, NEW t \in Threads, Others(t), past \subseteq past',
         Inserting(t)' => id'[t] = 0,
         ASSUME "creates" \notin past'
         PROVE  /\ Fresh(t)'
                /\ \A u \in Threads \ {t} : ~(Creating(t)' /\ Creating(u))
                                            /\ ~(Inserting(t)' /\ Inserting(u))
  PROVE  NamesInv'
<1>1. \A u \in Threads \ {t} : /\ Creating(u)' <=> Creating(u)
                               /\ Inserting(u)' <=> Inserting(u)
  BY DEF Others, Creating, Editing, Inserting
<1>2. \A u \in Threads : Inserting(u)' => id'[u] = 0
  BY <1>1 DEF NamesInv, Others
<1>3. ASSUME "creates" \notin past'
      PROVE  NamesAreUnique' /\ OneCreator' /\ \A u \in Threads : Fresh(u)'
  <2>1. "creates" \notin past /\ NamesAreUnique /\ OneCreator /\ \A u \in Threads : Fresh(u)
    BY <1>3 DEF NamesInv
  <2>2. NamesAreUnique'
    BY <2>1 DEF NamesAreUnique, NoNewNames
  <2>3. OneCreator'
    BY <1>1, <1>3, <2>1 DEF OneCreator
  <2>4. ASSUME NEW u \in Threads, u # t PROVE Fresh(u)'
    <3>1. dao'[u] = dao[u] /\ username'[u] = username[u]
      BY <2>4 DEF Others
    <3>2. Inserting(u) => username[u] \in Usernames
      BY DEF Inv, ThreadInv, ThreadOK, Inserting
    <3> QED BY <1>1, <2>1, <2>4, <3>1, <3>2, ConstantsAssumption DEF Fresh, NoNewNames
  <2> QED BY <1>3, <2>2, <2>3, <2>4
<1> QED BY <1>2, <1>3 DEF NamesInv

\* A step after which t creates a document only if it did before, under the same name.
LEMMA NamesGoOn ==
  ASSUME Inv, NamesInv, NoNewNames, NEW t \in Threads, Others(t), past \subseteq past',
         Creating(t)' => Creating(t) /\ dao'[t].number = dao[t].number, ~Inserting(t)'
  PROVE  NamesInv'
<1>1. ASSUME "creates" \notin past'
      PROVE  /\ Fresh(t)'
             /\ \A u \in Threads \ {t} : ~(Creating(t)' /\ Creating(u))
                                         /\ ~(Inserting(t)' /\ Inserting(u))
  BY <1>1 DEF NamesInv, OneCreator, Fresh, NoNewNames
<1> QED BY <1>1, NamesStay

LEMMA CreateNames ==
  ASSUME Inv, NamesInv, NEW t \in Threads, CreateExtension(t) \/ CreateAccount(t)
  PROVE  NamesInv'
<1>1. TypeOK /\ id[t] = 0 /\ UNCHANGED <<extensions, accounts, id>>
  BY DEF Inv, ThreadInv, ThreadOK, CreateExtension, CreateAccount, Starts, docVars
<1>2. NoNewNames
  BY <1>1 DEF NoNewNames
<1>3. Others(t)
  BY <1>1 DEF Others, TypeOK, CreateExtension, CreateAccount, Starts
<1>4. past \subseteq past'
  BY DEF CreateExtension, CreateAccount, Starts
<1>5. CASE CreateExtension(t)
  <2>1. PICK x \in Numbers, a \in OldAccounts, p \in BOOLEAN :
          /\ ~\E e \in ExtensionIds : extensions[e] # NoExtension /\ extensions[e].number = x
          /\ Starts(t, "findAccount", Edits(t) \cup Creates(t, EditSteps))
          /\ dao' = [dao EXCEPT ![t] = [number |-> x, account |-> a, primary |-> p]]
    BY <1>5 DEF CreateExtension
  <2>2. at'[t] = "findAccount" /\ dao'[t].number = x
    BY <1>1, <2>1 DEF Starts, TypeOK
  <2>3. "creates" \notin past' => \A u \in Threads \ {t} : ~Creating(u)
    BY <2>1 DEF Starts, Creates, Creating, Editing
  <2>4. Fresh(t)' /\ ~Inserting(t)'
    BY <1>1, <2>1, <2>2 DEF Fresh, Inserting
  <2> QED BY <1>2, <1>3, <1>4, <2>3, <2>4, NamesStay
<1>6. CASE CreateAccount(t)
  <2>1. PICK n \in Usernames :
          /\ ~\E a \in AccountIds : accounts[a] = n
          /\ Starts(t, "insertAccount", Creates(t, {"insertAccount"}))
          /\ username' = [username EXCEPT ![t] = n]
    BY <1>6 DEF CreateAccount
  <2>2. at'[t] = "insertAccount" /\ username'[t] = n
    BY <1>1, <2>1 DEF Starts, TypeOK
  <2>3. "creates" \notin past' => \A u \in Threads \ {t} : ~Inserting(u)
    BY <2>1 DEF Starts, Creates, Inserting, NamesInv
  <2>4. Fresh(t)' /\ ~Creating(t)' /\ id'[t] = 0
    BY <1>1, <2>1, <2>2 DEF Fresh, Creating, Editing, EditSteps
  <2> QED BY <1>2, <1>3, <1>4, <2>3, <2>4, NamesStay
<1> QED BY <1>5, <1>6

LEMMA ModifyNames ==
  ASSUME Inv, NamesInv, NEW t \in Threads,
         ModifyExtension(t) \/ DeleteExtension(t) \/ ModifyAccount(t) \/ DeleteAccount(t)
  PROVE  NamesInv'
<1>1. TypeOK /\ UNCHANGED <<extensions, accounts>>
  BY DEF Inv, ModifyExtension, DeleteExtension, ModifyAccount, DeleteAccount, docVars
<1>2. NoNewNames
  BY <1>1 DEF NoNewNames
<1>3. Others(t)
  BY <1>1 DEF Others, TypeOK, ModifyExtension, DeleteExtension, ModifyAccount, DeleteAccount, Starts
<1>4. past \subseteq past'
  BY DEF ModifyExtension, DeleteExtension, ModifyAccount, DeleteAccount, Starts
<1>5. id'[t] # 0
  <2>1. PICK i \in ExtensionIds \cup AccountIds : id' = [id EXCEPT ![t] = i]
    BY DEF ModifyExtension, DeleteExtension, ModifyAccount, DeleteAccount
  <2> QED BY <1>1, <2>1 DEF TypeOK, ExtensionIds, AccountIds
<1>6. at'[t] # "insertAccount"
  BY <1>1 DEF TypeOK, ModifyExtension, DeleteExtension, ModifyAccount, DeleteAccount, Starts
<1> QED BY <1>2, <1>3, <1>4, <1>5, <1>6, NamesGoOn DEF Creating, Inserting

\* A method that ends without having created anything.
LEMMA EndNames ==
  ASSUME Inv, NamesInv, NoNewNames, NEW t \in Threads, Forget(t), past \subseteq past',
         at' = [at EXCEPT ![t] = "idle"]
  PROVE  NamesInv'
<1>1. Others(t) /\ at'[t] = "idle"
  BY ForgetType DEF Inv, TypeOK, Others
<1> QED BY <1>1, NamesGoOn DEF Creating, Editing, Inserting, EditSteps

LEMMA MiddleNames ==
  ASSUME Inv, NamesInv, NEW t \in Threads,
         \/ FindAccount(t) \/ List(t) \/ Demote(t) \/ Remove(t) \/ Replace(t)
         \/ UpdateAccount(t) \/ RemoveAccount(t) \/ Fail(t)
  PROVE  NamesInv'
<1>1. TypeOK /\ TypeOK' /\ Keep
  BY FindAccountStep, ListStep, DemoteStep, RemoveStep, ReplaceStep, UpdateAccountStep,
     RemoveAccountStep, FailStep DEF Inv
<1>2. /\ newExtension' = newExtension /\ newAccount' = newAccount /\ past \subseteq past'
  BY DEF FindAccount, List, Demote, Remove, Replace, UpdateAccount, RemoveAccount, Fail, Done,
         Goto, Loses, docVars
<1>3. NoNewNames
  BY <1>1, <1>2, NoNewDocuments
<1>4. CASE Forget(t) /\ at' = [at EXCEPT ![t] = "idle"]
  BY <1>2, <1>3, <1>4, EndNames
<1>5. CASE FindAccount(t) /\ UNCHANGED daoVars
  <2>1. at[t] = "findAccount" /\ \E step \in Steps \ {"insertAccount"} : at' = [at EXCEPT ![t] = step]
    BY <1>5 DEF FindAccount, Goto, Done, Ends, Steps
  <2>2. Others(t) /\ at'[t] # "insertAccount" /\ id' = id /\ dao' = dao
    BY <1>1, <1>5, <2>1 DEF TypeOK, Others, daoVars
  <2> QED BY <1>2, <1>3, <2>1, <2>2, NamesGoOn DEF Creating, Editing, EditSteps, Inserting
<1>6. CASE List(t) \/ Demote(t) \/ Remove(t)
  <2>1. /\ \E step \in {"save", "demote", "replace"} : at' = [at EXCEPT ![t] = step]
        /\ Remove(t) => at' = [at EXCEPT ![t] = "replace"]
        /\ List(t) \/ Demote(t) => at[t] \in EditSteps
    BY <1>6 DEF List, Demote, Remove, Goto, EditSteps
  <2>2. Others(t) /\ id' = id /\ at'[t] # "insertAccount"
    BY <1>1, <1>6, <2>1 DEF TypeOK, Others, List, Demote, Remove, daoVars
  <2>3. List(t) \/ Demote(t) => dao'[t].number = dao[t].number
    <3>1. CASE List(t)
      <4>1. dao[t] \in ExtensionDocs
        BY <2>1, <3>1 DEF Inv, ThreadInv, ThreadOK
      <4>2. dao' = dao \/ dao' = [dao EXCEPT ![t].primary = TRUE]
        BY <3>1 DEF List
      <4> QED BY <1>1, <4>1, <4>2, PrimaryField DEF TypeOK
    <3>2. CASE Demote(t)
      BY <3>2 DEF Demote, daoVars
    <3> QED BY <3>1, <3>2
  <2>4. Creating(t)' => Creating(t) /\ dao'[t].number = dao[t].number
    BY <1>1, <1>6, <2>1, <2>2, <2>3 DEF Creating, Editing, EditSteps, TypeOK
  <2> QED BY <1>2, <1>3, <2>2, <2>4, NamesGoOn DEF Inserting
<1>7. FindAccount(t) => UNCHANGED daoVars \/ (Forget(t) /\ at' = [at EXCEPT ![t] = "idle"])
  BY DEF FindAccount, Done, Ends
<1>8. Replace(t) \/ UpdateAccount(t) \/ RemoveAccount(t) \/ Fail(t) =>
        Forget(t) /\ at' = [at EXCEPT ![t] = "idle"]
  BY DEF Replace, UpdateAccount, RemoveAccount, Fail, Done, Ends
<1> QED BY <1>4, <1>5, <1>6, <1>7, <1>8

\* The only step that gives a number, and the only one that gives a username.
LEMMA InsertNames ==
  ASSUME Inv, NamesInv, NEW t \in Threads, Save(t) \/ InsertAccount(t)
  PROVE  NamesInv'
<1>1. /\ TypeOK /\ TypeOK' /\ Keep /\ Forget(t) /\ past \subseteq past'
      /\ at' = [at EXCEPT ![t] = "idle"]
  BY SaveStep, InsertAccountStep DEF Inv, Save, InsertAccount, Done, Ends, Loses
<1>2. CASE Save(t) /\ id[t] # 0
  <2>1. newExtension' = newExtension /\ newAccount' = newAccount
    BY <1>2 DEF Save
  <2> QED BY <1>1, <2>1, NoNewDocuments, EndNames
<1>3. CASE (Save(t) /\ id[t] = 0) \/ InsertAccount(t)
  <2>1. /\ Others(t) /\ at'[t] = "idle" /\ (Creating(t) \/ Inserting(t))
        /\ ~Creating(t)' /\ ~Inserting(t)'
    BY <1>1, <1>3, ForgetType DEF TypeOK, Others, Save, InsertAccount, Creating, Editing,
                                  Inserting, EditSteps
  <2>2. \A u \in Threads \ {t} : /\ Creating(u)' <=> Creating(u)
                                 /\ Inserting(u)' <=> Inserting(u)
    BY <2>1 DEF Others, Creating, Editing, Inserting
  <2>3. \A u \in Threads : Inserting(u)' => id'[u] = 0
    BY <2>1, <2>2 DEF NamesInv, Others
  <2>4. ASSUME "creates" \notin past'
        PROVE  NamesAreUnique' /\ OneCreator' /\ \A u \in Threads : Fresh(u)'
    <3>1. "creates" \notin past /\ NamesAreUnique /\ OneCreator /\ \A u \in Threads : Fresh(u)
      BY <1>1, <2>4 DEF NamesInv
    <3>2. OneCreator'
      BY <2>1, <2>2, <3>1 DEF OneCreator
    <3>3. CASE Save(t) /\ id[t] = 0
      <4>1. /\ extensions' = [extensions EXCEPT ![newExtension] = dao[t]] /\ accounts' = accounts
            /\ newExtension \in ExtensionIds /\ Creating(t)
        BY <1>1, <3>3, ConstantsAssumption DEF Save, TypeOK, ExtensionIds, Creating, Editing, EditSteps
      <4>2. NamesAreUnique'
        BY <1>1, <3>1, <4>1 DEF NamesAreUnique, Fresh, TypeOK
      <4>3. \A u \in Threads \ {t} : Fresh(u)'
        BY <2>1, <2>2, <3>1, <4>1 DEF Fresh, OneCreator, Others
      <4> QED BY <2>1, <3>2, <4>2, <4>3 DEF Fresh
    <3>4. CASE InsertAccount(t)
      <4>1. /\ accounts' = [accounts EXCEPT ![newAccount] = username[t]]
            /\ extensions' = extensions /\ newAccount \in AccountIds /\ Inserting(t)
        BY <1>1, <3>4, ConstantsAssumption DEF InsertAccount, TypeOK, AccountIds, Inserting
      <4>2. NamesAreUnique'
        BY <1>1, <3>1, <4>1 DEF NamesAreUnique, Fresh, TypeOK
      <4>3. \A u \in Threads \ {t} : Fresh(u)'
        BY <2>1, <2>2, <3>1, <4>1 DEF Fresh, OneCreator, Others
      <4> QED BY <2>1, <3>2, <4>2, <4>3 DEF Fresh
    <3> QED BY <1>3, <3>3, <3>4
  <2> QED BY <2>3, <2>4 DEF NamesInv
<1> QED BY <1>2, <1>3

LEMMA InitNames == Init => NamesInv
BY DEF Init, NamesInv, NamesAreUnique, OneCreator, Fresh, Creating, Editing, Inserting, EditSteps

LEMMA NextNames == Inv /\ NamesInv /\ [Next]_vars => NamesInv'
<1> SUFFICES ASSUME Inv, NamesInv, [Next]_vars PROVE NamesInv'
  OBVIOUS
<1>1. CASE UNCHANGED vars
  BY <1>1 DEF NamesInv, NamesAreUnique, OneCreator, Fresh, Creating, Editing, Inserting,
              vars, docVars, daoVars
<1>2. ASSUME NEW t \in Threads, ExtensionStep(t) \/ AccountStep(t) \/ Fail(t) PROVE NamesInv'
  BY <1>2, CreateNames, ModifyNames, MiddleNames, InsertNames DEF ExtensionStep, AccountStep
<1> QED BY <1>1, <1>2 DEF Next

\* As long as documents of a kind are created one at a time, no number belongs to two
\* extensions and no username to two accounts: the lookup and the insert of one thread
\* are apart, but what the others store in between, from however old a DAO, gives no
\* document another name (SipExtensionCreateMethod.java:36-67, DatabaseObject.java:60-66).
THEOREM NamesGivenOnce == Spec => []NamesAreUnique
<1>1. NamesInv => NamesAreUnique
  BY DEF NamesInv, NamesAreUnique
<1> QED BY <1>1, InitInv, NextInv, InitNames, NextNames, PTL DEF Spec

------------------------------------------------------------------------------
(* A primary extension for every account, until a step loses it.            *)

\* Account a has a primary extension, or one that a thread is about to store after it
\* has taken the flag from another one.
Settles(t, a) == Between(t) /\ dao[t].account = a
Served(a)     == PrimariesOf(a) # {} \/ \E t \in Threads : Settles(t, a)

\* What t has seen to before it stores its extension.
Prepared(t) ==
  /\ other[t] # 0 => at[t] \in {"demote", "save"} /\ dao[t].primary
  /\ at[t] = "demote" => dao[t].primary /\ otherDao[t].account = dao[t].account
  /\ at[t] = "save" /\ ~dao[t].primary => Served(dao[t].account)

KeptInv ==
  "lost" \notin past =>
    /\ \A t \in Threads : Prepared(t)
    /\ \A a : ExtensionsOf(a) # {} => Served(a)

\* A step of t: no account is served before and not after it, and one that gets its
\* first extension is served.
LEMMA KeptStays ==
  ASSUME KeptInv, NEW t \in Threads, Others(t), past \subseteq past',
         ASSUME "lost" \notin past', Prepared(t), \A a : ExtensionsOf(a) # {} => Served(a)
         PROVE  /\ Prepared(t)'
                /\ \A a : /\ Served(a) => Served(a)'
                          /\ ExtensionsOf(a)' # {} => ExtensionsOf(a) # {} \/ Served(a)'
  PROVE  KeptInv'
<1> SUFFICES ASSUME "lost" \notin past'
             PROVE  /\ \A u \in Threads : Prepared(u)'
                    /\ \A a : ExtensionsOf(a)' # {} => Served(a)'
  BY DEF KeptInv
<1>1. (\A u \in Threads : Prepared(u)) /\ \A a : ExtensionsOf(a) # {} => Served(a)
  BY DEF KeptInv
<1>2. /\ Prepared(t)'
      /\ \A a : /\ Served(a) => Served(a)'
                /\ ExtensionsOf(a)' # {} => ExtensionsOf(a) # {} \/ Served(a)'
  BY <1>1
<1>3. ASSUME NEW u \in Threads \ {t} PROVE Prepared(u)'
  <2>1. /\ other'[u] = other[u] /\ at'[u] = at[u] /\ dao'[u] = dao[u]
        /\ otherDao'[u] = otherDao[u] /\ Prepared(u)
    BY <1>1 DEF Others
  <2>2. Served(dao[u].account) => Served(dao[u].account)'
    BY <1>2, <2>1 DEF Served, Settles, PrimariesOf, ExtensionsOf
  <2> QED BY <2>1, <2>2 DEF Prepared
<1> QED BY <1>1, <1>2, <1>3

\* The other threads go on serving whom they serve.
LEMMA OthersSettle ==
  ASSUME NEW t \in Threads, Others(t), NEW a, NEW u \in Threads \ {t}, Settles(u, a)
  PROVE  Settles(u, a)'
BY DEF Others, Settles, Between

\* A step that changes no extension, of a thread that is not between its two stores.
LEMMA QuietKept ==
  ASSUME KeptInv, NEW t \in Threads, Others(t), past \subseteq past', UNCHANGED extensions,
         ASSUME "lost" \notin past', Prepared(t), \A a : ExtensionsOf(a) # {} => Served(a),
                \A a : Served(a) => Served(a)'
         PROVE  Prepared(t)',
         "lost" \notin past' => ~Between(t)
  PROVE  KeptInv'
<1>1. \A a : ExtensionsOf(a)' = ExtensionsOf(a) /\ PrimariesOf(a)' = PrimariesOf(a)
  BY DEF ExtensionsOf, PrimariesOf
<1>2. ASSUME "lost" \notin past', NEW a, Served(a) PROVE Served(a)'
  <2>1. CASE PrimariesOf(a) # {}
    BY <1>1, <2>1 DEF Served
  <2>2. ASSUME NEW u \in Threads, Settles(u, a) PROVE Served(a)'
    BY <1>2, <2>2, OthersSettle DEF Settles, Served
  <2> QED BY <1>2, <2>1, <2>2 DEF Served
<1> QED BY <1>1, <1>2, KeptStays

\* The steps after which t has nothing in hand.
LEMMA IdleKept ==
  ASSUME KeptInv, NEW t \in Threads, Others(t), past \subseteq past', UNCHANGED extensions,
         other'[t] = 0, at'[t] \notin {"demote", "save"}, "lost" \notin past' => ~Between(t)
  PROVE  KeptInv'
<1>1. Prepared(t)'
  BY DEF Prepared
<1> QED BY <1>1, QuietKept

LEMMA StartKept ==
  ASSUME Inv, KeptInv, NEW t \in Threads,
         \/ CreateExtension(t) \/ ModifyExtension(t) \/ DeleteExtension(t)
         \/ CreateAccount(t) \/ ModifyAccount(t) \/ DeleteAccount(t)
  PROVE  KeptInv'
<1>1. TypeOK /\ UNCHANGED <<extensions, other>>
  BY DEF Inv, CreateExtension, ModifyExtension, DeleteExtension, CreateAccount, ModifyAccount,
         DeleteAccount, docVars
<1>2. PICK step \in {"findAccount", "remove", "insertAccount", "updateAccount", "removeAccount"} :
        at[t] = "idle" /\ at' = [at EXCEPT ![t] = step] /\ past \subseteq past'
  BY DEF CreateExtension, ModifyExtension, DeleteExtension, CreateAccount, ModifyAccount,
         DeleteAccount, Starts
<1>3. Others(t) /\ at'[t] = step
  BY <1>1, <1>2 DEF TypeOK, Others, CreateExtension, ModifyExtension, DeleteExtension,
                    CreateAccount, ModifyAccount, DeleteAccount
<1>4. Prepared(t) => Prepared(t)'
  BY <1>1, <1>2, <1>3 DEF Prepared
<1> QED BY <1>1, <1>2, <1>3, <1>4, QuietKept DEF Between

\* The steps that end a method without storing an extension.
LEMMA EndKept ==
  ASSUME Inv, KeptInv, NEW t \in Threads,
         Fail(t) \/ Replace(t) \/ InsertAccount(t) \/ UpdateAccount(t) \/ RemoveAccount(t)
  PROVE  KeptInv'
<1>1. /\ TypeOK /\ UNCHANGED extensions /\ Ends(t) /\ past \subseteq past'
      /\ "lost" \notin past' => ~Between(t)
  BY DEF Inv, Fail, Replace, InsertAccount, UpdateAccount, RemoveAccount, Done, Loses, Between,
         docVars
<1>2. Others(t) /\ other'[t] = 0 /\ at'[t] = "idle"
  BY <1>1, ForgetType DEF TypeOK, Others, Ends, Forget
<1> QED BY <1>1, <1>2, IdleKept

LEMMA FindAccountKept ==
  ASSUME Inv, KeptInv, NEW t \in Threads, FindAccount(t)
  PROVE  KeptInv'
<1>1. TypeOK /\ UNCHANGED extensions /\ past' = past /\ at[t] = "findAccount"
  BY DEF Inv, FindAccount, Goto, Done, docVars
<1>2. CASE Goto(t, "list") /\ UNCHANGED daoVars
  <2>1. Others(t) /\ at'[t] = "list" /\ other'[t] = other[t]
    BY <1>1, <1>2 DEF TypeOK, Others, Goto, daoVars
  <2>2. Prepared(t) => Prepared(t)'
    BY <1>1, <2>1 DEF Prepared
  <2> QED BY <1>1, <2>1, <2>2, QuietKept DEF Between
<1>3. CASE Done(t)
  <2>1. Others(t) /\ other'[t] = 0 /\ at'[t] = "idle"
    BY <1>1, <1>3, ForgetType DEF TypeOK, Others, Done, Ends, Forget
  <2> QED BY <1>1, <2>1, IdleKept DEF Between
<1> QED BY <1>2, <1>3 DEF FindAccount

LEMMA ListKept ==
  ASSUME Inv, KeptInv, NEW t \in Threads, List(t)
  PROVE  KeptInv'
<1>1. /\ TypeOK /\ at[t] = "list" /\ past' = past /\ UNCHANGED extensions
      /\ dao[t] \in ExtensionDocs
  BY DEF Inv, ThreadInv, ThreadOK, EditSteps, List, Goto, docVars
<1>2. Others(t)
  BY <1>1 DEF TypeOK, Others, List, Goto
<1>3. \A a : PrimariesOf(a)' = PrimariesOf(a)
  BY <1>1 DEF PrimariesOf, ExtensionsOf
<1>4. ASSUME Prepared(t) PROVE Prepared(t)'
  <2>1. other[t] = 0
    BY <1>1, <1>4 DEF Prepared
  <2>2. CASE dao' = [dao EXCEPT ![t].primary = TRUE] /\ Goto(t, "save") /\ other' = other
    <3>1. dao'[t].primary /\ at'[t] = "save" /\ other'[t] = 0
      BY <1>1, <2>1, <2>2, PrimaryField DEF TypeOK, Goto
    <3> QED BY <3>1 DEF Prepared
  <2>3. CASE /\ PrimariesOf(dao[t].account) # {} /\ ~dao[t].primary
             /\ Goto(t, "save") /\ UNCHANGED <<dao, other>>
    <3>1. Served(dao[t].account)' /\ at'[t] = "save"
      BY <1>1, <1>3, <2>3 DEF TypeOK, Goto, Served
    <3> QED BY <2>1, <2>3, <3>1 DEF Prepared, Served, Settles, PrimariesOf, ExtensionsOf
  <2>4. CASE /\ dao[t].primary
             /\ \E e \in PrimariesOf(dao[t].account) :
                  /\ other' = [other EXCEPT ![t] = e]
                  /\ otherDao' = [otherDao EXCEPT ![t] = extensions[e]]
             /\ Goto(t, "demote") /\ UNCHANGED dao
    <3>1. /\ at'[t] = "demote" /\ dao' = dao /\ otherDao'[t].account = dao[t].account
      BY <1>1, <2>4 DEF TypeOK, Goto, PrimariesOf, ExtensionsOf
    <3> QED BY <2>4, <3>1 DEF Prepared
  <2> QED BY <2>2, <2>3, <2>4 DEF List
<1> QED BY <1>1, <1>2, <1>4, QuietKept DEF Between

\* The account is served by t from now on.
LEMMA DemoteKept ==
  ASSUME Inv, KeptInv, NEW t \in Threads, Demote(t)
  PROVE  KeptInv'
<1> DEFINE d == [otherDao[t] EXCEPT !.primary = FALSE]
<1>1. TypeOK /\ ThreadOK(t) /\ at[t] = "demote"
  BY DEF Inv, ThreadInv, Demote
<1>2. other[t] \in ExtensionIds /\ other[t] # 0 /\ otherDao[t] \in ExtensionDocs
  BY <1>1, ConstantsAssumption DEF ThreadOK, OldExtensions, Names, ExtensionIds
<1>3. d \in ExtensionDocs /\ d.account = otherDao[t].account
  BY <1>2, PrimaryField
<1> HIDE DEF d
<1>4. extensions' = IF extensions[other[t]] = NoExtension THEN extensions
                    ELSE [extensions EXCEPT ![other[t]] = d]
  BY DEF Demote, Updated, d
<1>5. /\ at' = [at EXCEPT ![t] = "save"] /\ past \subseteq past' /\ UNCHANGED daoVars
      /\ "lost" \notin past' => ~Moves(extensions, other[t], otherDao[t])
  BY DEF Demote, Loses
<1>6. Others(t)
  BY <1>1, <1>5 DEF TypeOK, Others, daoVars
<1>7. ASSUME "lost" \notin past', Prepared(t)
      PROVE  /\ Prepared(t)'
             /\ \A a : /\ Served(a) => Served(a)'
                       /\ ExtensionsOf(a)' # {} => ExtensionsOf(a) # {} \/ Served(a)'
  <2>1. dao[t].primary /\ d.account = dao[t].account
    BY <1>1, <1>3, <1>7 DEF Prepared
  <2>2. Settles(t, dao[t].account)' /\ Prepared(t)'
    BY <1>1, <1>2, <1>5, <2>1 DEF TypeOK, Settles, Between, Prepared, daoVars
  <2>3. ASSUME NEW a, a # dao[t].account
        PROVE  PrimariesOf(a) \subseteq PrimariesOf(a)' /\ ExtensionsOf(a)' \subseteq ExtensionsOf(a)
    <3>1. CASE extensions[other[t]] = NoExtension
      BY <1>4, <3>1 DEF PrimariesOf, ExtensionsOf
    <3>2. CASE extensions[other[t]] # NoExtension
      <4>1. extensions' = [extensions EXCEPT ![other[t]] = d]
        BY <1>4, <3>2
      <4>2. other[t] \notin PrimariesOf(a)
        BY <1>3, <1>5, <1>7, <2>1, <2>3, <3>2 DEF Moves, PrimariesOf, ExtensionsOf
      <4> QED BY <1>1, <1>2, <2>1, <2>3, <4>1, <4>2 DEF TypeOK, PrimariesOf, ExtensionsOf
    <3> QED BY <3>1, <3>2
  <2>4. ASSUME NEW a, a # dao[t].account, Served(a) PROVE Served(a)'
    <3>1. \A u \in Threads : Settles(u, a) => u # t
      BY <1>1, <2>4 DEF Settles, Between
    <3> QED BY <1>6, <2>3, <2>4, <3>1, OthersSettle DEF Served
  <2>5. \A a : a = dao[t].account => Served(a)'
    BY <1>5, <2>2 DEF Served, Settles, daoVars
  <2> QED BY <2>2, <2>3, <2>4, <2>5
<1> QED BY <1>5, <1>6, <1>7, KeptStays

\* An extension is stored that is primary, or one of an account that is served.
LEMMA SaveKept ==
  ASSUME Inv, KeptInv, NEW t \in Threads, Save(t)
  PROVE  KeptInv'
<1>1. TypeOK /\ ThreadOK(t) /\ at[t] = "save" /\ Ends(t) /\ past \subseteq past'
  BY DEF Inv, ThreadInv, Save, Loses
<1>2. Others(t) /\ at'[t] = "idle" /\ other'[t] = 0 /\ dao[t] \in ExtensionDocs
  BY <1>1, ForgetType DEF TypeOK, Others, Ends, Forget, ThreadOK, EditSteps
<1>3. CASE extensions' = extensions /\ ("lost" \notin past' => ~Between(t))
  BY <1>1, <1>2, <1>3, IdleKept
<1>4. ASSUME NEW k \in ExtensionIds, extensions' = [extensions EXCEPT ![k] = dao[t]],
             "lost" \notin past' => \A a : k \in PrimariesOf(a) => dao[t].primary /\ dao[t].account = a
      PROVE  KeptInv'
  <2> SUFFICES ASSUME "lost" \notin past', Prepared(t)
               PROVE  /\ Prepared(t)'
                      /\ \A a : /\ Served(a) => Served(a)'
                                /\ ExtensionsOf(a)' # {} => ExtensionsOf(a) # {} \/ Served(a)'
    BY <1>1, <1>2, KeptStays
  <2>1. Prepared(t)'
    BY <1>2 DEF Prepared
  <2>2. \A a : a = dao[t].account /\ dao[t].primary => k \in PrimariesOf(a)'
    BY <1>1, <1>2, <1>4, ConstantsAssumption DEF TypeOK, PrimariesOf, ExtensionsOf
  <2>3. \A a : PrimariesOf(a) \subseteq PrimariesOf(a)'
    BY <1>1, <1>4, <2>2 DEF TypeOK, PrimariesOf, ExtensionsOf
  <2>4. ASSUME NEW a, Served(a) PROVE Served(a)'
    <3>1. Settles(t, a) => PrimariesOf(a)' # {}
      BY <2>2 DEF Settles, Between, Prepared
    <3> QED BY <1>2, <2>3, <2>4, <3>1, OthersSettle DEF Served
  <2>5. ASSUME NEW a, a # dao[t].account PROVE ExtensionsOf(a)' \subseteq ExtensionsOf(a)
    BY <1>1, <1>4, <2>5 DEF TypeOK, ExtensionsOf
  <2>6. \A a : a = dao[t].account => Served(a) \/ PrimariesOf(a)' # {}
    BY <1>1, <2>2 DEF Prepared
  <2>7. ASSUME NEW a, ExtensionsOf(a)' # {} PROVE ExtensionsOf(a) # {} \/ Served(a)'
    <3>1. CASE a = dao[t].account
      BY <2>4, <2>6, <3>1 DEF Served
    <3> QED BY <2>5, <2>7, <3>1
  <2> QED BY <2>1, <2>4, <2>7
<1>5. CASE id[t] = 0
  <2>1. /\ newExtension \in ExtensionIds /\ extensions[newExtension] = NoExtension
        /\ extensions' = [extensions EXCEPT ![newExtension] = dao[t]]
    BY <1>1, <1>5, ConstantsAssumption DEF Save, TypeOK, ExtensionIds
  <2> QED BY <1>4, <2>1 DEF PrimariesOf, ExtensionsOf
<1>6. CASE id[t] # 0
  <2>1. /\ id[t] \in ExtensionIds
        /\ "lost" \notin past' => ~Takes(t)
        /\ extensions' = Updated(extensions, id[t], dao[t], NoExtension)
    BY <1>1, <1>6 DEF Save, Loses, ThreadOK, EditSteps, OldExtensions
  <2>2. CASE extensions[id[t]] = NoExtension
    BY <1>3, <2>1, <2>2 DEF Updated, Takes
  <2>3. CASE extensions[id[t]] # NoExtension
    <3>1. extensions' = [extensions EXCEPT ![id[t]] = dao[t]]
      BY <2>1, <2>3 DEF Updated
    <3>2. "lost" \notin past' =>
            \A a : id[t] \in PrimariesOf(a) => dao[t].primary /\ dao[t].account = a
      BY <2>1, <2>3 DEF Takes, Moves, PrimariesOf, ExtensionsOf
    <3> QED BY <1>4, <2>1, <3>1, <3>2
  <2> QED BY <2>2, <2>3
<1> QED BY <1>5, <1>6

\* A delete of an extension that is not primary changes nothing for its account.
LEMMA RemoveKept ==
  ASSUME Inv, KeptInv, NEW t \in Threads, Remove(t)
  PROVE  KeptInv'
<1>1. TypeOK /\ at[t] = "remove" /\ extensions' = [extensions EXCEPT ![id[t]] = NoExtension]
  BY DEF Inv, Remove
<1>2. /\ Others(t) /\ at'[t] = "replace" /\ other' = other /\ past \subseteq past'
      /\ "lost" \notin past' => extensions[id[t]] = NoExtension \/ ~extensions[id[t]].primary
  BY <1>1 DEF Remove, TypeOK, Others, Loses, daoVars
<1>3. ASSUME "lost" \notin past', Prepared(t)
      PROVE  /\ Prepared(t)'
             /\ \A a : /\ Served(a) => Served(a)'
                       /\ ExtensionsOf(a)' # {} => ExtensionsOf(a) # {} \/ Served(a)'
  <2>1. Prepared(t)'
    BY <1>1, <1>2, <1>3 DEF Prepared
  <2>2. \A a : PrimariesOf(a) \subseteq PrimariesOf(a)' /\ ExtensionsOf(a)' \subseteq ExtensionsOf(a)
    BY <1>1, <1>2, <1>3 DEF TypeOK, PrimariesOf, ExtensionsOf
  <2>3. ASSUME NEW a, Served(a) PROVE Served(a)'
    <3>1. \A u \in Threads : Settles(u, a) => u # t
      BY <1>1 DEF Settles, Between
    <3> QED BY <1>2, <2>2, <2>3, <3>1, OthersSettle DEF Served
  <2> QED BY <2>1, <2>2, <2>3
<1> QED BY <1>2, <1>3, KeptStays

LEMMA InitKept == Init => KeptInv
BY DEF Init, KeptInv, Prepared, ExtensionsOf

LEMMA NextKept == Inv /\ KeptInv /\ [Next]_vars => KeptInv'
<1> SUFFICES ASSUME Inv, KeptInv, [Next]_vars PROVE KeptInv'
  OBVIOUS
<1>1. CASE UNCHANGED vars
  <2>1. \A a : /\ ExtensionsOf(a)' = ExtensionsOf(a) /\ PrimariesOf(a)' = PrimariesOf(a)
               /\ \A t \in Threads : Settles(t, a)' <=> Settles(t, a)
    BY <1>1 DEF ExtensionsOf, PrimariesOf, Settles, Between, vars, docVars, daoVars
  <2>2. \A a : Served(a)' <=> Served(a)
    BY <2>1 DEF Served
  <2>3. UNCHANGED <<at, dao, other, otherDao, past>>
    BY <1>1 DEF vars, daoVars
  <2>4. ASSUME NEW t \in Threads, Prepared(t) PROVE Prepared(t)'
    <3>1. Served(dao[t].account)' <=> Served(dao[t].account)
      BY <2>1, <2>3 DEF Served, Settles, PrimariesOf, ExtensionsOf
    <3> QED BY <2>3, <2>4, <3>1 DEF Prepared
  <2> QED BY <2>1, <2>2, <2>3, <2>4 DEF KeptInv
<1>2. ASSUME NEW t \in Threads, ExtensionStep(t) \/ AccountStep(t) \/ Fail(t) PROVE KeptInv'
  BY <1>2, StartKept, EndKept, FindAccountKept, ListKept, DemoteKept, SaveKept, RemoveKept
     DEF ExtensionStep, AccountStep
<1> QED BY <1>1, <1>2 DEF Next

\* Any number of threads may create, modify and delete extensions side by side, and fail:
\* when they have finished, every account with extensions has a primary one, although they
\* take the flag from one another's, unless one of the steps that Extensions!PrimaryIsKept
\* names has lost it (SipExtensionCreateMethod.java:53-67).
THEOREM PrimaryStays == Spec => []PrimaryIsKept
<1>1. KeptInv => PrimaryIsKept
  BY DEF KeptInv, PrimaryIsKept, Served, Settles, Between
<1> QED BY <1>1, InitInv, NextInv, InitKept, NextKept, PTL DEF Spec
==============================================================================
