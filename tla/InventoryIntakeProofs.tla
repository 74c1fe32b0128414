------------------------- MODULE InventoryIntakeProofs -------------------------
(***************************************************************************)
(* What holds of uploads and imports for every number of API processes,    *)
(* organisations, documents and hosts, however requests interleave and     *)
(* break off.                                                              *)
(***************************************************************************)
EXTENDS InventoryIntake, FiniteSetTheorems, TLAPS

-----------------------------------------------------------------------------
(* The invariant.                                                           *)

\* An asset that is waiting for its hostname belongs to one import.
AliasInv ==
  \A s \in Sessions :
    session[s].pc = "alias" =>
      /\ assets[session[s].asset] = [org |-> session[s].org, host |-> None]
      /\ \A t \in Sessions \ {s} :
           session[t].pc = "alias" => session[t].asset # session[s].asset

\* A request with this organisation and document.
Serves(s, r) == session[s].org = r.org /\ session[s].doc = r.doc

\* The unique constraint holds between committed rows, and between them and the
\* transactions under way; an answer names a committed row.
UniqueInv ==
  /\ \A r, q \in documents : r.org = q.org /\ r.doc = q.doc => r = q
  /\ \A s \in Uncommitted : \A r \in documents : ~Serves(s, r)
  /\ \A s, t \in Uncommitted : s # t => ~Serves(s, session[t])
  /\ \A s \in Sessions : session[s].pc = "reply" =>
       \E r \in documents : r.id = session[s].id /\ Serves(s, r)
  /\ \A a \in replies : \E r \in documents : r.id = a.id /\ r.org = a.org /\ r.doc = a.doc

\* Past the object store, an upload has its bytes there.
BytesInv ==
  /\ BytesBehindDocuments
  /\ \A s \in Sessions : session[s].pc \in {"insert", "fill", "commit"} =>
       <<session[s].org, session[s].doc>> \in objects

Bound(a, o, d) == a \in Ids /\ HostOf[d] # None /\ assets[a] = [org |-> o, host |-> HostOf[d]]

\* What is bound, in a document or in an upload, bears the declared host.
BindingInv ==
  /\ \A r \in documents : r.asset # None => Bound(r.asset, r.org, r.doc)
  /\ \A s \in Sessions :
       session[s].pc \in Uploading \ {"lookup", "reply"} /\ session[s].asset # None =>
         Bound(session[s].asset, session[s].org, session[s].doc)

-----------------------------------------------------------------------------
(* Types.                                                                   *)

LEMMA IdleType == Idle \in SessionRow /\ SessionOK(Idle) /\ Idle.pc = "idle"
  <1>1. <<>> \in Seq(Hosts)
    OBVIOUS
  <1> QED BY <1>1 DEF Idle, SessionRow, SessionOK, Uploading

\* A step that changes one request keeps the others as they are.
LEMMA OneRow ==
  ASSUME TypeOK, NEW s \in Sessions, NEW me \in SessionRow, SessionOK(me),
         session' = [session EXCEPT ![s] = me]
  PROVE  /\ session' \in [Sessions -> SessionRow]
         /\ \A t \in Sessions : SessionOK(session'[t])
         /\ session'[s] = me
         /\ \A t \in Sessions \ {s} : session'[t] = session[t]
  BY DEF TypeOK

LEMMA DoneType ==
  ASSUME TypeOK, NEW s \in Sessions, Done(s)
  PROVE  /\ session' \in [Sessions -> SessionRow]
         /\ \A t \in Sessions : SessionOK(session'[t])
         /\ session'[s] = Idle
         /\ \A t \in Sessions \ {s} : session'[t] = session[t]
  BY IdleType, OneRow DEF Done

LEMMA DeclaredType ==
  ASSUME NEW o, NEW d
  PROVE  DeclaredAsset(o, d) \in Ids \cup {None}
  BY DEF DeclaredAsset, Reconcile

LEMMA RowsType ==
  ASSUME NEW rows \in Seq(Hosts), rows # <<>>
  PROVE  Head(rows) \in Hosts /\ Tail(rows) \in Seq(Hosts)
  OBVIOUS

LEMMA FoundType ==
  ASSUME TypeOK, NEW i \in Ids, NEW p \in UNION {Contents[d] : d \in Documents}
  PROVE  Found(p, i) \subseteq Component
  BY DEF TypeOK, Found, Component

\* What a step of a request makes of its row.
RowStep(s) ==
  \E me \in SessionRow : SessionOK(me) /\ session' = [session EXCEPT ![s] = me]

LEMMA IdleRow ==
  ASSUME NEW s \in Sessions, Done(s)
  PROVE  RowStep(s)
  BY IdleType DEF Done, RowStep

LEMMA UploadRow ==
  ASSUME TypeOK, NEW s \in Sessions, Upload(s)
  PROVE  RowStep(s)
  <1> DEFINE my == session[s]
  <1>0. my \in SessionRow /\ SessionOK(my)
    BY DEF TypeOK
  <1>1. CASE Replay(s)
    <2>1. PICK r \in Stored(my.org, my.doc) :
            session' = [session EXCEPT ![s].pc = "reply", ![s].id = r.id]
      BY <1>1 DEF Replay
    <2>2. r.id \in Ids /\ my.pc = "lookup"
      BY <1>1, <2>1 DEF Replay, Stored, TypeOK
    <2> DEFINE me == [my EXCEPT !.pc = "reply", !.id = r.id]
    <2>3. me \in SessionRow /\ SessionOK(me)
      BY <1>0, <2>2 DEF SessionRow, SessionOK, Uploading
    <2> QED BY <2>1, <2>3 DEF RowStep
  <1>2. CASE Lookup(s)
    <2> DEFINE me == [my EXCEPT !.pc = "put", !.asset = DeclaredAsset(my.org, my.doc)]
    <2>1. me \in SessionRow /\ SessionOK(me)
      BY <1>0, <1>2, DeclaredType DEF Lookup, SessionRow, SessionOK, Uploading
    <2> QED BY <1>2, <2>1 DEF Lookup, RowStep
  <1>3. CASE Put(s)
    <2> DEFINE me == [my EXCEPT !.pc = "insert"]
    <2>1. me \in SessionRow /\ SessionOK(me)
      BY <1>0, <1>3 DEF Put, SessionRow, SessionOK, Uploading
    <2> QED BY <1>3, <2>1 DEF Put, Goto, RowStep
  <1>4. CASE PutFails(s) \/ Refuse(s)
    BY <1>4, IdleRow DEF PutFails, AfterPutFailure, Refuse, Done
  <1>5. CASE Insert(s)
    <2>1. PICK i \in Ids : session' = [session EXCEPT ![s].pc = "fill", ![s].id = i]
      BY <1>5 DEF Insert
    <2> DEFINE me == [my EXCEPT !.pc = "fill", !.id = i]
    <2>2. me \in SessionRow /\ SessionOK(me)
      BY <1>0, <1>5 DEF Insert, SessionRow, SessionOK, Uploading
    <2> QED BY <2>1, <2>2 DEF RowStep
  <1>6. CASE Fill(s)
    <2> DEFINE missing == Contents[my.doc] \ {c.purl : c \in my.parts}
    <2>0. my.pc = "fill" /\ my.doc \in Documents /\ my.id \in Ids
      BY <1>0, <1>6 DEF Fill, SessionOK, Uploading
    <2>1. CASE missing = {}
      <3> DEFINE me == [my EXCEPT !.pc = "commit"]
      <3>1. me \in SessionRow /\ SessionOK(me)
        BY <1>0, <2>0 DEF SessionRow, SessionOK, Uploading
      <3> QED BY <1>6, <2>1, <3>1 DEF Fill, Goto, RowStep
    <2>2. CASE missing # {}
      <3>1. PICK p \in missing : \E c \in Found(p, my.id) :
              session' = [session EXCEPT ![s].parts = @ \cup {c}]
        BY <1>6, <2>2 DEF Fill
      <3>9. PICK c \in Found(p, my.id) : session' = [session EXCEPT ![s].parts = @ \cup {c}]
        BY <3>1
      <3>2. c \in Component
        BY <2>0, <3>1, FoundType
      <3> DEFINE me == [my EXCEPT !.parts = @ \cup {c}]
      <3>3. me \in SessionRow /\ SessionOK(me)
        BY <1>0, <2>0, <3>2 DEF SessionRow, SessionOK, Uploading
      <3> QED BY <3>9, <3>3 DEF RowStep
    <2> QED BY <2>1, <2>2
  <1>7. CASE Commit(s)
    <2> DEFINE me == [my EXCEPT !.pc = "reply"]
    <2>1. me \in SessionRow /\ SessionOK(me)
      BY <1>0, <1>7 DEF Commit, SessionRow, SessionOK, Uploading
    <2> QED BY <1>7, <2>1 DEF Commit, Goto, RowStep
  <1>8. CASE Reply(s)
    BY <1>8, IdleRow DEF Reply
  <1> QED BY <1>1, <1>2, <1>3, <1>4, <1>5, <1>6, <1>7, <1>8 DEF Upload

LEMMA ImportRow ==
  ASSUME TypeOK, NEW s \in Sessions, ImportRows(s)
  PROVE  RowStep(s)
  <1> DEFINE my == session[s]
  <1>0. my \in SessionRow /\ SessionOK(my)
    BY DEF TypeOK
  <1>1. CASE SkipRow(s) \/ UpdateRow(s)
    <2>1. my.pc = "row" /\ my.rows # <<>> /\ session' = [session EXCEPT ![s].rows = Tail(@)]
      BY <1>1 DEF SkipRow, UpdateRow
    <2> DEFINE me == [my EXCEPT !.rows = Tail(@)]
    <2>2. me \in SessionRow /\ SessionOK(me)
      BY <1>0, <2>1, RowsType DEF SessionRow, SessionOK, Uploading
    <2> QED BY <2>1, <2>2 DEF RowStep
  <1>2. CASE CreateAsset(s)
    <2>1. PICK a \in Ids : session' = [session EXCEPT ![s].pc = "alias", ![s].asset = a]
      BY <1>2 DEF CreateAsset
    <2> DEFINE me == [my EXCEPT !.pc = "alias", !.asset = a]
    <2>2. me \in SessionRow /\ SessionOK(me)
      BY <1>0, <1>2 DEF CreateAsset, SessionRow, SessionOK, Uploading
    <2> QED BY <2>1, <2>2 DEF RowStep
  <1>3. CASE AddAlias(s)
    <2> DEFINE me == [my EXCEPT !.pc = "row", !.asset = None, !.rows = Tail(@)]
    <2>1. my.pc = "alias" /\ my.rows # <<>>
      BY <1>0, <1>3 DEF AddAlias, SessionOK
    <2>2. me \in SessionRow /\ SessionOK(me)
      BY <1>0, <2>1, RowsType DEF SessionRow, SessionOK, Uploading
    <2> QED BY <1>3, <2>2 DEF AddAlias, RowStep
  <1>4. CASE Finish(s)
    BY <1>4, IdleRow DEF Finish
  <1> QED BY <1>1, <1>2, <1>3, <1>4 DEF ImportRows

LEMMA BeginRow ==
  ASSUME TypeOK, NEW s \in Sessions,
         \/ \E sent \in Sent : Submit(s, sent[1], sent[2])
         \/ \E list \in Imported : Import(s, list[1], list[2])
  PROVE  RowStep(s)
  <1>1. ASSUME NEW sent \in Sent, Submit(s, sent[1], sent[2]) PROVE RowStep(s)
    <2> DEFINE me == [Idle EXCEPT !.pc = "lookup", !.org = sent[1], !.doc = sent[2]]
    <2>1. sent[1] \in Orgs /\ sent[2] \in Documents
      BY IntakeConstants
    <2>2. me \in SessionRow /\ SessionOK(me)
      BY <2>1, IdleType DEF Idle, SessionRow, SessionOK, Uploading
    <2> QED BY <1>1, <2>2 DEF Submit, RowStep
  <1>2. ASSUME NEW list \in Imported, Import(s, list[1], list[2]) PROVE RowStep(s)
    <2> DEFINE me == [Idle EXCEPT !.pc = "row", !.org = list[1], !.rows = list[2]]
    <2>1. list[1] \in Orgs /\ list[2] \in Seq(Hosts)
      BY IntakeConstants
    <2>2. me \in SessionRow /\ SessionOK(me)
      BY <2>1, IdleType DEF Idle, SessionRow, SessionOK, Uploading
    <2> QED BY <1>2, <2>2 DEF Import, RowStep
  <1> QED BY <1>1, <1>2

\* Every step is a step of one request.
LEMMA NextRow ==
  ASSUME TypeOK, Next
  PROVE  \E s \in Sessions : RowStep(s)
  <1> PICK s \in Sessions :
        \/ \E sent \in Sent : Submit(s, sent[1], sent[2])
        \/ \E list \in Imported : Import(s, list[1], list[2])
        \/ Upload(s) \/ ImportRows(s) \/ Interrupt(s)
    BY DEF Next
  <1>1. CASE Interrupt(s)
    BY <1>1, IdleRow DEF Interrupt
  <1> QED BY <1>1, BeginRow, UploadRow, ImportRow

LEMMA TablesType ==
  ASSUME TypeOK, AliasInv, NEW s \in Sessions, Upload(s) \/ ImportRows(s)
  PROVE  /\ documents' \subseteq [id : Ids, org : Orgs, doc : Documents,
                                  asset : Ids \cup {None}, parts : SUBSET Component]
         /\ components' \subseteq Component
         /\ objects' \subseteq Orgs \X Documents
         /\ assets' \in [Ids -> [org : Orgs, host : Hosts \cup {None}] \cup {NoAsset}]
         /\ replies' \subseteq [org : Orgs, doc : Documents, id : Ids]
         /\ faults' \in Nat
  <1> DEFINE my == session[s]
  <1>0. my \in SessionRow /\ SessionOK(my)
    BY DEF TypeOK
  <1>1. CASE Put(s)
    BY <1>0, <1>1 DEF Put, TypeOK, SessionOK, Uploading
  <1>2. CASE Commit(s)
    <2>1. my.org \in Orgs /\ my.doc \in Documents /\ my.id \in Ids
          /\ my.asset \in Ids \cup {None} /\ my.parts \subseteq Component
      BY <1>0, <1>2 DEF Commit, SessionRow, SessionOK, Uploading
    <2> QED BY <1>2, <2>1 DEF Commit, TypeOK
  <1>3. CASE Reply(s)
    BY <1>0, <1>3 DEF Reply, TypeOK, SessionOK, Uploading, tables
  <1>4. CASE CreateAsset(s)
    <2>1. PICK a \in Ids :
            assets' = [assets EXCEPT ![a] = [NoAsset EXCEPT !.org = my.org]]
      BY <1>4 DEF CreateAsset
    <2>2. my.org \in Orgs
      BY <1>0, <1>4 DEF CreateAsset, SessionOK
    <2>3. [NoAsset EXCEPT !.org = my.org] \in [org : Orgs, host : Hosts \cup {None}]
      BY <2>2 DEF NoAsset
    <2>4. assets' \in [Ids -> [org : Orgs, host : Hosts \cup {None}] \cup {NoAsset}]
      BY <2>1, <2>3 DEF TypeOK
    <2> QED BY <1>4, <2>4 DEF CreateAsset, TypeOK
  <1>5. CASE AddAlias(s)
    <2> DEFINE host == Head(my.rows)
    <2>1. my.asset \in Ids /\ host \in Hosts
      BY <1>0, <1>5, RowsType DEF AddAlias, SessionRow, SessionOK
    <2>2. assets' = [assets EXCEPT ![my.asset] = [assets[my.asset] EXCEPT !.host = host]]
      BY <1>5 DEF AddAlias, TypeOK
    <2>3. assets[my.asset] = [org |-> my.org, host |-> None] /\ my.org \in Orgs
      BY <1>0, <1>5 DEF AddAlias, AliasInv, SessionOK
    <2>4. [assets[my.asset] EXCEPT !.host = host] = [org |-> my.org, host |-> host]
      BY <2>3
    <2>5. [assets[my.asset] EXCEPT !.host = host] \in
            [org : Orgs, host : Hosts \cup {None}]
      BY <2>1, <2>3, <2>4
    <2>6. assets' \in [Ids -> [org : Orgs, host : Hosts \cup {None}] \cup {NoAsset}]
      BY <2>1, <2>2, <2>5 DEF TypeOK
    <2> QED BY <1>5, <2>6 DEF AddAlias, TypeOK
  <1>6. CASE UNCHANGED <<tables, replies>> /\ faults' \in Nat
    BY <1>6 DEF TypeOK, tables
  <1> QED BY <1>1, <1>2, <1>3, <1>4, <1>5, <1>6
      DEF Upload, ImportRows, Replay, Lookup, PutFails, Insert, Refuse, Fill, SkipRow,
          UpdateRow, Finish, TypeOK

LEMMA TypeStep == TypeOK /\ AliasInv /\ [Next]_vars => TypeOK'
  <1> SUFFICES ASSUME TypeOK, AliasInv, [Next]_vars PROVE TypeOK'
    OBVIOUS
  <1>1. CASE Next
    <2>1. session' \in [Sessions -> SessionRow] /\ \A t \in Sessions : SessionOK(session'[t])
      <3> PICK s \in Sessions : RowStep(s)
        BY <1>1, NextRow
      <3> QED BY OneRow DEF RowStep
    <2> PICK s \in Sessions :
          \/ \E sent \in Sent : Submit(s, sent[1], sent[2])
          \/ \E list \in Imported : Import(s, list[1], list[2])
          \/ Upload(s) \/ ImportRows(s) \/ Interrupt(s)
      BY <1>1 DEF Next
    <2>2. CASE Upload(s) \/ ImportRows(s)
      BY <2>1, <2>2, TablesType DEF TypeOK
    <2>3. CASE ~(Upload(s) \/ ImportRows(s))
      <3>1. UNCHANGED <<tables, replies>>
        BY <2>3 DEF Submit, Import, Interrupt
      <3>2. faults' = faults \/ faults' = faults + 1
        BY <2>3 DEF Submit, Import, Interrupt
      <3>3. faults' \in Nat
        BY <3>2 DEF TypeOK
      <3> QED BY <2>1, <3>1, <3>3 DEF TypeOK, tables
    <2> QED BY <2>2, <2>3
  <1>2. CASE UNCHANGED vars
    BY <1>2 DEF vars, tables, TypeOK
  <1> QED BY <1>1, <1>2

LEMMA TypeInit == Init => TypeOK /\ AliasInv
  <1> SUFFICES ASSUME Init PROVE TypeOK /\ AliasInv
    OBVIOUS
  <1>1. TypeOK
    BY IdleType DEF Init, TypeOK, NoAsset
  <1> QED BY <1>1, IdleType DEF Init, AliasInv

\* Where a request gets to that neither creates an asset nor names one.
LEMMA OtherSteps ==
  ASSUME TypeOK, NEW s \in Sessions, ~CreateAsset(s), ~AddAlias(s),
         \/ \E sent \in Sent : Submit(s, sent[1], sent[2])
         \/ \E list \in Imported : Import(s, list[1], list[2])
         \/ Upload(s) \/ ImportRows(s) \/ Interrupt(s)
  PROVE  /\ UNCHANGED assets
         /\ session'[s].pc # "alias"
         /\ \A t \in Sessions \ {s} : session'[t] = session[t]
  <1> USE IdleType DEF Goto, Done, tables
  <1>1. CASE \E sent \in Sent : Submit(s, sent[1], sent[2])
    BY <1>1 DEF Submit, TypeOK, Idle
  <1>2. CASE \E list \in Imported : Import(s, list[1], list[2])
    BY <1>2 DEF Import, TypeOK, Idle
  <1>3. CASE Replay(s) \/ Lookup(s)
    BY <1>3 DEF Replay, Lookup, TypeOK, SessionRow
  <1>4. CASE Put(s) \/ Commit(s)
    BY <1>4 DEF Put, Commit, TypeOK, SessionRow
  <1>5. CASE PutFails(s) \/ Refuse(s) \/ Reply(s) \/ Finish(s) \/ Interrupt(s)
    BY <1>5 DEF PutFails, AfterPutFailure, Refuse, Reply, Finish, Interrupt, TypeOK
  <1>6. CASE Insert(s)
    <2>1. PICK i \in Ids : session' = [session EXCEPT ![s].pc = "fill", ![s].id = i]
      BY <1>6 DEF Insert
    <2>2. session'[s].pc = "fill" /\ \A t \in Sessions \ {s} : session'[t] = session[t]
      BY <2>1 DEF TypeOK, SessionRow
    <2> QED BY <1>6, <2>2 DEF Insert
  <1>7. CASE Fill(s)
    <2> DEFINE missing == Contents[session[s].doc] \ {c.purl : c \in session[s].parts}
    <2>0. session[s] \in SessionRow /\ session[s].pc = "fill" /\ UNCHANGED assets
      BY <1>7 DEF Fill, TypeOK
    <2>1. PICK me \in {[session[s] EXCEPT !.pc = "commit"]}
                      \cup {[session[s] EXCEPT !.parts = session[s].parts \cup {c}] :
                             c \in UNION {Found(p, session[s].id) : p \in missing}} :
            session' = [session EXCEPT ![s] = me]
      BY <1>7 DEF Fill, TypeOK
    <2>2. me.pc \in {"fill", "commit"}
      BY <2>0, <2>1 DEF SessionRow
    <2>3. session'[s] = me /\ \A t \in Sessions \ {s} : session'[t] = session[t]
      BY <2>1 DEF TypeOK
    <2> QED BY <2>0, <2>2, <2>3
  <1>8. CASE SkipRow(s) \/ UpdateRow(s)
    BY <1>8 DEF SkipRow, UpdateRow, TypeOK, SessionRow
  <1> QED BY <1>1, <1>2, <1>3, <1>4, <1>5, <1>6, <1>7, <1>8 DEF Upload, ImportRows

\* Only the request that moves changes, and unless it gets to an alias, no
\* import waits for its hostname that did not before.
LEMMA AliasStep ==
  ASSUME TypeOK, AliasInv, [Next]_vars
  PROVE  AliasInv'
  <1>1. CASE UNCHANGED vars
    BY <1>1 DEF vars, tables, AliasInv
  <1>2. CASE Next
    <2> PICK s \in Sessions :
          \/ \E sent \in Sent : Submit(s, sent[1], sent[2])
          \/ \E list \in Imported : Import(s, list[1], list[2])
          \/ Upload(s) \/ ImportRows(s) \/ Interrupt(s)
      BY <1>2 DEF Next
    <2>1. CASE CreateAsset(s)
      <3>1. PICK a \in Ids :
              /\ assets[a] = NoAsset
              /\ assets' = [assets EXCEPT ![a] = [NoAsset EXCEPT !.org = session[s].org]]
              /\ session' = [session EXCEPT ![s].pc = "alias", ![s].asset = a]
        BY <2>1 DEF CreateAsset, IsFresh
      <3>2. /\ session'[s].pc = "alias" /\ session'[s].asset = a
            /\ session'[s].org = session[s].org
            /\ \A t \in Sessions \ {s} : session'[t] = session[t]
        BY <3>1 DEF TypeOK, SessionRow
      <3>3. assets'[a] = [org |-> session[s].org, host |-> None]
            /\ \A b \in Ids \ {a} : assets'[b] = assets[b]
        BY <3>1 DEF TypeOK, NoAsset
      <3>4. \A t \in Sessions : session[t].pc = "alias" =>
              session[t].asset \in Ids \ {a}
        <4> SUFFICES ASSUME NEW t \in Sessions, session[t].pc = "alias"
                     PROVE  session[t].asset \in Ids \ {a}
          OBVIOUS
        <4>1. session[t].asset \in Ids /\ session[t].org \in Orgs
          BY DEF TypeOK, SessionOK
        <4>2. assets[session[t].asset] = [org |-> session[t].org, host |-> None]
          BY DEF AliasInv
        <4>3. assets[session[t].asset].org \in Orgs
          BY <4>1, <4>2
        <4>4. assets[a].org = None
          BY <3>1 DEF NoAsset
        <4>5. session[t].asset # a
          BY <4>3, <4>4, IntakeConstants
        <4> QED BY <4>1, <4>5
      <3> QED BY <3>2, <3>3, <3>4 DEF AliasInv
    <2>2. CASE AddAlias(s)
      <3>1. session[s].pc = "alias" /\ session[s].asset \in Ids
        BY <2>2 DEF AddAlias, TypeOK, SessionOK
      <3>2. session'[s].pc = "row" /\ \A t \in Sessions \ {s} : session'[t] = session[t]
        BY <2>2 DEF AddAlias, TypeOK, SessionRow
      <3>3. \A b \in Ids \ {session[s].asset} : assets'[b] = assets[b]
        BY <2>2 DEF AddAlias, TypeOK
      <3> QED BY <3>1, <3>2, <3>3 DEF AliasInv, TypeOK, SessionOK
    <2>3. CASE ~CreateAsset(s) /\ ~AddAlias(s)
      BY <2>3, OtherSteps DEF AliasInv
    <2> QED BY <2>1, <2>2, <2>3
  <1> QED BY <1>1, <1>2

-----------------------------------------------------------------------------
\* Every table keeps its shape, and every request is where its fields say: an
\* upload that answers has an id, an import that names an asset has one
\* (SBOMService.ingest, import_assets).
THEOREM TypeCorrect == Spec => []TypeOK
  <1> QED BY TypeInit, TypeStep, AliasStep, PTL DEF Spec

-----------------------------------------------------------------------------
(* What a step leaves alone.                                                *)

\* What a step of an upload makes of its own row.
LEMMA UploadMoves ==
  ASSUME TypeOK, NEW s \in Sessions
  PROVE  LET my == session[s]
             me == session'[s]
             same == me.org = my.org /\ me.doc = my.doc
         IN /\ Replay(s) => me.pc = "reply" /\ same
            /\ Lookup(s) => me.pc = "put" /\ same /\ me.asset = DeclaredAsset(my.org, my.doc)
            /\ Put(s) => me.pc = "insert" /\ same /\ me.asset = my.asset
            /\ Insert(s) => me.pc = "fill" /\ same /\ me.asset = my.asset
            /\ Fill(s) => me.pc \in {"fill", "commit"} /\ same /\ me.asset = my.asset
            /\ Commit(s) => me.pc = "reply" /\ same /\ me.id = my.id
  <1> DEFINE my == session[s]
             me == session'[s]
             same == me.org = my.org /\ me.doc = my.doc
  <1> USE DEF Goto
  <1>0. my \in SessionRow
    BY DEF TypeOK
  <1>1. ASSUME Replay(s) PROVE me.pc = "reply" /\ same
    <2>1. PICK r \in documents : session' = [session EXCEPT ![s].pc = "reply", ![s].id = r.id]
      BY <1>1 DEF Replay, Stored
    <2>2. me = [my EXCEPT !.pc = "reply", !.id = r.id]
      BY <2>1 DEF TypeOK
    <2> QED BY <1>0, <2>2 DEF SessionRow
  <1>2. ASSUME Lookup(s)
        PROVE  me.pc = "put" /\ same /\ me.asset = DeclaredAsset(my.org, my.doc)
    <2>1. me = [my EXCEPT !.pc = "put", !.asset = DeclaredAsset(my.org, my.doc)]
      BY <1>2 DEF Lookup, TypeOK
    <2> QED BY <1>0, <2>1 DEF SessionRow
  <1>3. ASSUME Put(s) PROVE me.pc = "insert" /\ same /\ me.asset = my.asset
    <2>1. me = [my EXCEPT !.pc = "insert"]
      BY <1>3 DEF Put, TypeOK
    <2> QED BY <1>0, <2>1 DEF SessionRow
  <1>4. ASSUME Insert(s) PROVE me.pc = "fill" /\ same /\ me.asset = my.asset
    <2>1. PICK i \in Ids : session' = [session EXCEPT ![s].pc = "fill", ![s].id = i]
      BY <1>4 DEF Insert
    <2>2. me = [my EXCEPT !.pc = "fill", !.id = i]
      BY <2>1 DEF TypeOK
    <2> QED BY <1>0, <2>2 DEF SessionRow
  <1>5. ASSUME Fill(s)
        PROVE  me.pc \in {"fill", "commit"} /\ same /\ me.asset = my.asset
    <2> DEFINE missing == Contents[my.doc] \ {c.purl : c \in my.parts}
    <2>1. CASE missing = {}
      <3>1. me = [my EXCEPT !.pc = "commit"]
        BY <1>5, <2>1 DEF Fill, TypeOK
      <3> QED BY <1>0, <3>1 DEF SessionRow
    <2>2. CASE missing # {}
      <3>1. PICK p \in missing : \E c \in Found(p, my.id) :
              session' = [session EXCEPT ![s].parts = @ \cup {c}]
        BY <1>5, <2>2 DEF Fill
      <3>2. PICK c \in Found(p, my.id) : session' = [session EXCEPT ![s].parts = @ \cup {c}]
        BY <3>1
      <3>3. me = [my EXCEPT !.parts = my.parts \cup {c}] /\ my.pc = "fill"
        BY <1>5, <3>2 DEF Fill, TypeOK
      <3> QED BY <1>0, <3>3 DEF SessionRow
    <2> QED BY <2>1, <2>2
  <1>6. ASSUME Commit(s) PROVE me.pc = "reply" /\ same /\ me.id = my.id
    <2>1. me = [my EXCEPT !.pc = "reply"]
      BY <1>6 DEF Commit, TypeOK
    <2> QED BY <1>0, <2>1 DEF SessionRow
  <1> QED BY <1>1, <1>2, <1>3, <1>4, <1>5, <1>6

\* The steps that leave a request outside an upload, or at its start.
Outside(s) ==
  \/ \E sent \in Sent : Submit(s, sent[1], sent[2])
  \/ \E list \in Imported : Import(s, list[1], list[2])
  \/ PutFails(s) \/ Refuse(s) \/ Reply(s) \/ ImportRows(s) \/ Interrupt(s)

LEMMA OutsideMoves ==
  ASSUME TypeOK, NEW s \in Sessions, Outside(s)
  PROVE  /\ session'[s].pc \in {"idle", "lookup", "row", "alias"}
         /\ UNCHANGED <<documents, components, objects>>
         /\ ~Reply(s) => UNCHANGED replies
  <1> USE IdleType DEF Goto, Done, tables
  <1>1. CASE \E sent \in Sent : Submit(s, sent[1], sent[2])
    BY <1>1 DEF Submit, TypeOK, Idle
  <1>2. CASE \E list \in Imported : Import(s, list[1], list[2])
    BY <1>2 DEF Import, TypeOK, Idle
  <1>3. CASE PutFails(s) \/ Refuse(s) \/ Reply(s) \/ Finish(s) \/ Interrupt(s)
    BY <1>3 DEF PutFails, AfterPutFailure, Refuse, Reply, Finish, Interrupt, TypeOK
  <1>4. CASE SkipRow(s) \/ UpdateRow(s)
    BY <1>4 DEF SkipRow, UpdateRow, TypeOK, SessionRow
  <1>5. CASE CreateAsset(s)
    BY <1>5 DEF CreateAsset, TypeOK, SessionRow
  <1>6. CASE AddAlias(s)
    BY <1>6 DEF AddAlias, TypeOK, SessionRow
  <1> QED BY <1>1, <1>2, <1>3, <1>4, <1>5, <1>6 DEF Outside, ImportRows

\* The other requests are where they were.
LEMMA OthersStay ==
  ASSUME TypeOK, NEW s \in Sessions,
         \/ Outside(s)
         \/ Replay(s) \/ Lookup(s) \/ Put(s) \/ Insert(s) \/ Fill(s) \/ Commit(s)
  PROVE  \A t \in Sessions \ {s} : session'[t] = session[t]
  <1>1. RowStep(s)
    BY BeginRow, UploadRow, ImportRow, IdleRow DEF Outside, Upload, Interrupt
  <1> QED BY <1>1 DEF RowStep, TypeOK

\* Every step is one of these.
LEMMA NextSteps ==
  ASSUME Next
  PROVE  \E s \in Sessions :
           \/ Outside(s)
           \/ Replay(s) \/ Lookup(s) \/ Put(s) \/ Insert(s) \/ Fill(s) \/ Commit(s)
  BY DEF Next, Upload, Outside

-----------------------------------------------------------------------------
(* Bytes.                                                                   *)

LEMMA BytesStep ==
  ASSUME TypeOK, BytesInv, [Next]_vars
  PROVE  BytesInv'
  <1> USE DEF BytesInv, BytesBehindDocuments
  <1>1. CASE UNCHANGED vars
    BY <1>1 DEF vars, tables
  <1>2. CASE Next
    <2> PICK s \in Sessions :
          \/ Outside(s)
          \/ Replay(s) \/ Lookup(s) \/ Put(s) \/ Insert(s) \/ Fill(s) \/ Commit(s)
      BY <1>2, NextSteps
    <2>0. session[s] \in SessionRow /\ \A t \in Sessions \ {s} : session'[t] = session[t]
      BY OthersStay DEF TypeOK
    <2>1. CASE Outside(s)
      BY <2>0, <2>1, OutsideMoves
    <2>2. CASE Replay(s) \/ Lookup(s)
      <3>1. session'[s].pc \in {"reply", "put"}
        BY <2>0, <2>2, UploadMoves
      <3> QED BY <2>0, <2>2, <3>1 DEF Replay, Lookup, tables
    <2>3. CASE Put(s)
      <3>1. session'[s].org = session[s].org /\ session'[s].doc = session[s].doc
        BY <2>3, UploadMoves
      <3>2. /\ documents' = documents
            /\ objects' = objects \cup {<<session[s].org, session[s].doc>>}
        BY <2>3 DEF Put
      <3>3. BytesBehindDocuments'
        BY <3>2
      <3>4. \A t \in Sessions : session'[t].pc \in {"insert", "fill", "commit"} =>
              <<session'[t].org, session'[t].doc>> \in objects'
        BY <2>0, <3>1, <3>2
      <3> QED BY <3>3, <3>4
    <2>4. CASE Insert(s) \/ Fill(s)
      <3>1. /\ session'[s].org = session[s].org /\ session'[s].doc = session[s].doc
            /\ session[s].pc \in {"insert", "fill"}
        BY <2>0, <2>4, UploadMoves DEF Insert, Fill
      <3> QED BY <2>0, <2>4, <3>1 DEF Insert, Fill, tables
    <2>5. CASE Commit(s)
      <3>1. session'[s].pc = "reply"
        BY <2>0, <2>5, UploadMoves
      <3> QED BY <2>0, <2>5, <3>1 DEF Commit
    <2> QED BY <2>1, <2>2, <2>3, <2>4, <2>5
  <1> QED BY <1>1, <1>2

\* A stored document's bytes are in the object store, whatever fails between
\* the put and the commit (persist_sbom_raw_bytes, SBOMService.ingest).
THEOREM BytesKept == Spec => []BytesBehindDocuments
  <1>1. Init => BytesInv
    BY IdleType DEF Init, BytesInv, BytesBehindDocuments
  <1>2. BytesInv => BytesBehindDocuments
    BY DEF BytesInv
  <1> QED BY <1>1, <1>2, TypeCorrect, BytesStep, PTL DEF Spec

-----------------------------------------------------------------------------
(* Bindings.                                                                *)

\* What a document declares is bound when it is looked up.
LEMMA DeclaredBound ==
  ASSUME TypeOK, NEW o \in Orgs, NEW d \in Documents, DeclaredAsset(o, d) # None
  PROVE  Bound(DeclaredAsset(o, d), o, d)
  <1> DEFINE R == IF HostOf[d] = None THEN {} ELSE Reconcile(o, HostOf[d])
             a == DeclaredAsset(o, d)
  <1>1. a \in R /\ HostOf[d] # None
    BY DEF DeclaredAsset
  <1>2. a \in Ids /\ assets[a].host = HostOf[d] /\ assets[a].org = o
    BY <1>1 DEF Reconcile
  <1>3. assets[a] \in [org : Orgs, host : Hosts \cup {None}]
    BY <1>1, <1>2 DEF TypeOK, NoAsset
  <1>4. assets[a] = [org |-> o, host |-> HostOf[d]]
    BY <1>2, <1>3
  <1> QED BY <1>1, <1>2, <1>4 DEF Bound

\* An asset with a hostname is never touched again.
LEMMA NamedAssetsStay ==
  ASSUME TypeOK, AliasInv, NEW s \in Sessions,
         \/ Outside(s)
         \/ Replay(s) \/ Lookup(s) \/ Put(s) \/ Insert(s) \/ Fill(s) \/ Commit(s),
         NEW a \in Ids, assets[a].host # None
  PROVE  assets'[a] = assets[a]
  <1>1. CASE CreateAsset(s)
    <2>1. PICK b \in Ids :
            /\ assets[b] = NoAsset
            /\ assets' = [assets EXCEPT ![b] = [NoAsset EXCEPT !.org = session[s].org]]
      BY <1>1 DEF CreateAsset, IsFresh
    <2>2. a # b
      BY <2>1 DEF NoAsset
    <2> QED BY <2>1, <2>2 DEF TypeOK
  <1>2. CASE AddAlias(s)
    <2>1. session[s].pc = "alias"
      BY <1>2 DEF AddAlias
    <2>2. assets[session[s].asset] = [org |-> session[s].org, host |-> None]
      BY <2>1 DEF AliasInv
    <2>3. a # session[s].asset
      BY <2>2
    <2> QED BY <1>2, <2>3 DEF AddAlias, TypeOK
  <1>3. CASE ~CreateAsset(s) /\ ~AddAlias(s)
    BY <1>3, OtherSteps DEF Outside, Upload
  <1> QED BY <1>1, <1>2, <1>3

LEMMA BindingStep ==
  ASSUME TypeOK, AliasInv, BindingInv, [Next]_vars
  PROVE  BindingInv'
  <1>1. CASE UNCHANGED vars
    BY <1>1 DEF vars, tables, BindingInv, Bound
  <1>2. CASE Next
    <2> PICK s \in Sessions :
          \/ Outside(s)
          \/ Replay(s) \/ Lookup(s) \/ Put(s) \/ Insert(s) \/ Fill(s) \/ Commit(s)
      BY <1>2, NextSteps
    <2> DEFINE my == session[s]
               me == session'[s]
               busy == Uploading \ {"lookup", "reply"}
    <2>0. my \in SessionRow /\ \A t \in Sessions \ {s} : session'[t] = session[t]
      BY OthersStay DEF TypeOK
    <2>1. \A r \in documents' : r.asset # None => Bound(r.asset, r.org, r.doc)
      <3>1. CASE Commit(s)
        <4>1. documents' = documents \cup {[id |-> my.id, org |-> my.org, doc |-> my.doc,
                                            asset |-> my.asset, parts |-> my.parts]}
              /\ my.pc = "commit"
          BY <3>1 DEF Commit
        <4>2. my.asset # None => Bound(my.asset, my.org, my.doc)
          BY <4>1 DEF BindingInv, Uploading
        <4> QED BY <4>1, <4>2 DEF BindingInv
      <3>2. CASE ~Commit(s)
        <4>1. documents' = documents
          BY <3>2, OutsideMoves DEF Replay, Lookup, Put, Insert, Fill, tables
        <4> QED BY <4>1 DEF BindingInv
      <3> QED BY <3>1, <3>2
    <2>2. me.pc \in busy /\ me.asset # None => Bound(me.asset, me.org, me.doc)
      <3>1. CASE Outside(s)
        BY <3>1, OutsideMoves DEF Uploading
      <3>2. CASE Lookup(s)
        <4>1. /\ my.org \in Orgs /\ my.doc \in Documents
              /\ me.org = my.org /\ me.doc = my.doc /\ me.asset = DeclaredAsset(my.org, my.doc)
          BY <2>0, <3>2, UploadMoves DEF Lookup, TypeOK, SessionOK, Uploading
        <4> QED BY <4>1, DeclaredBound
      <3>3. CASE Put(s) \/ Insert(s) \/ Fill(s)
        <4>1. /\ me.org = my.org /\ me.doc = my.doc /\ me.asset = my.asset
              /\ my.pc \in busy
          BY <2>0, <3>3, UploadMoves DEF Put, Insert, Fill, Uploading
        <4> QED BY <4>1 DEF BindingInv
      <3>4. CASE Replay(s) \/ Commit(s)
        <4>1. me.pc = "reply"
          BY <2>0, <3>4, UploadMoves
        <4> QED BY <4>1
      <3> QED BY <3>1, <3>2, <3>3, <3>4
    <2>3. \A t \in Sessions : session'[t].pc \in busy /\ session'[t].asset # None =>
            Bound(session'[t].asset, session'[t].org, session'[t].doc)
      BY <2>0, <2>2 DEF BindingInv
    <2>4. \A a, o, d : Bound(a, o, d) => a \in Ids /\ HostOf[d] # None
                          /\ assets'[a] = [org |-> o, host |-> HostOf[d]]
      <3> SUFFICES ASSUME NEW a, NEW o, NEW d, Bound(a, o, d)
                   PROVE  a \in Ids /\ HostOf[d] # None
                          /\ assets'[a] = [org |-> o, host |-> HostOf[d]]
        OBVIOUS
      <3>1. a \in Ids /\ HostOf[d] # None /\ assets[a] = [org |-> o, host |-> HostOf[d]]
        BY DEF Bound
      <3>2. assets[a].host # None
        BY <3>1
      <3> QED BY <3>1, <3>2, NamedAssetsStay
    <2> QED BY <2>1, <2>3, <2>4 DEF BindingInv, Bound
  <1> QED BY <1>1, <1>2

\* A document is bound to an asset of its organisation with the hostname it
\* declares, although the asset was looked up in an earlier transaction than
\* the one that stores the document (_declared_asset_id).
THEOREM BindingsHold == Spec => []BindingIsTrue
  <1>1. Init => BindingInv
    BY IdleType DEF Init, BindingInv, Uploading
  <1>2. BindingInv => BindingIsTrue
    <2> SUFFICES ASSUME BindingInv, NEW r \in documents, r.asset # None
                 PROVE  assets[r.asset].org = r.org /\ assets[r.asset].host = HostOf[r.doc]
      BY DEF BindingIsTrue
    <2>1. assets[r.asset] = [org |-> r.org, host |-> HostOf[r.doc]]
      BY DEF BindingInv, Bound
    <2> QED BY <2>1
  <1> QED BY <1>1, <1>2, TypeInit, TypeStep, AliasStep, BindingStep, PTL DEF Spec

-----------------------------------------------------------------------------
(* Identities.                                                              *)

LEMMA UniqueStep ==
  ASSUME TypeOK, UniqueInv, [Next]_vars
  PROVE  UniqueInv'
  <1>1. CASE UNCHANGED vars
    BY <1>1 DEF vars, tables, UniqueInv, Serves, Uncommitted
  <1>2. CASE Next
    <2> PICK s \in Sessions :
          \/ Outside(s)
          \/ Replay(s) \/ Lookup(s) \/ Put(s) \/ Insert(s) \/ Fill(s) \/ Commit(s)
      BY <1>2, NextSteps
    <2> DEFINE my == session[s]
               me == session'[s]
    <2>0. my \in SessionRow /\ \A t \in Sessions \ {s} : session'[t] = session[t]
      BY OthersStay DEF TypeOK
    \* Between committed rows and transactions under way.
    <2>1. CASE Insert(s)
      <3>1. me.org = my.org /\ me.doc = my.doc /\ me.pc = "fill"
        BY <2>0, <2>1, UploadMoves
      <3>2. UNCHANGED <<documents, replies>>
        BY <2>1 DEF Insert, tables
      <3>3. \A r \in documents : ~(my.org = r.org /\ my.doc = r.doc)
        <4>1. \A r \in documents : ~Clash(my.org, my.doc, r.org, r.doc)
          BY <2>1 DEF Insert, Clashing
        <4> QED BY <4>1 DEF Clash
      <3>4. \A t \in Uncommitted : ~(my.org = session[t].org /\ my.doc = session[t].doc)
        <4>1. \A t \in Uncommitted : ~Clash(my.org, my.doc, session[t].org, session[t].doc)
          BY <2>1 DEF Insert
        <4> QED BY <4>1 DEF Clash
      <3>5. Uncommitted' = Uncommitted \cup {s}
        BY <2>0, <3>1 DEF Uncommitted
      <3>6. \A t \in Uncommitted : t # s
        BY <2>1 DEF Insert, Uncommitted
      <3> QED BY <2>0, <3>1, <3>2, <3>3, <3>4, <3>5, <3>6 DEF UniqueInv, Serves, Uncommitted
    <2>2. CASE Fill(s)
      <3>1. me.org = my.org /\ me.doc = my.doc /\ me.pc \in {"fill", "commit"} /\ my.pc = "fill"
        BY <2>0, <2>2, UploadMoves DEF Fill
      <3>2. UNCHANGED <<documents, replies>>
        BY <2>2 DEF Fill, tables
      <3>3. Uncommitted' = Uncommitted
        BY <2>0, <3>1 DEF Uncommitted
      <3> QED BY <2>0, <3>1, <3>2, <3>3 DEF UniqueInv, Serves, Uncommitted
    <2>3. CASE Commit(s)
      <3> DEFINE new == [id |-> my.id, org |-> my.org, doc |-> my.doc,
                         asset |-> my.asset, parts |-> my.parts]
      <3>1. me.org = my.org /\ me.doc = my.doc /\ me.id = my.id /\ me.pc = "reply"
        BY <2>0, <2>3, UploadMoves
      <3>2. documents' = documents \cup {new} /\ UNCHANGED replies
        BY <2>3 DEF Commit
      <3>3. s \in Uncommitted
        BY <2>3 DEF Commit, Uncommitted
      <3>4. Uncommitted' = Uncommitted \ {s}
        BY <2>0, <3>1 DEF Uncommitted
      <3>5. \A r \in documents : ~(my.org = r.org /\ my.doc = r.doc)
        BY <3>3 DEF UniqueInv, Serves
      <3>6. \A t \in Uncommitted : t # s => ~(my.org = session[t].org /\ my.doc = session[t].doc)
        BY <3>3 DEF UniqueInv, Serves
      <3>7. new.org = my.org /\ new.doc = my.doc /\ new.id = my.id
        OBVIOUS
      <3>a. \A r, q \in documents' : r.org = q.org /\ r.doc = q.doc => r = q
        BY <3>2, <3>5, <3>7 DEF UniqueInv
      <3>b. \A t \in Uncommitted' : \A r \in documents' : ~Serves(t, r)'
        BY <2>0, <3>2, <3>4, <3>6, <3>7 DEF UniqueInv, Serves, Uncommitted
      <3>c. \A t, u \in Uncommitted' : t # u => ~(session'[t].org = session'[u].org
                                                  /\ session'[t].doc = session'[u].doc)
        BY <2>0, <3>4 DEF UniqueInv, Serves, Uncommitted
      <3>d. \A t \in Sessions : session'[t].pc = "reply" =>
              \E r \in documents' : r.id = session'[t].id /\ Serves(t, r)'
        <4> SUFFICES ASSUME NEW t \in Sessions, session'[t].pc = "reply"
                     PROVE  \E r \in documents' : /\ r.id = session'[t].id
                                                  /\ session'[t].org = r.org
                                                  /\ session'[t].doc = r.doc
          BY DEF Serves
        <4>1. CASE t = s
          BY <3>1, <3>2, <3>7, <4>1
        <4>2. CASE t # s
          BY <2>0, <3>2, <4>2 DEF UniqueInv, Serves
        <4> QED BY <4>1, <4>2
      <3>e. \A a \in replies' : \E r \in documents' :
              r.id = a.id /\ r.org = a.org /\ r.doc = a.doc
        BY <3>2 DEF UniqueInv
      <3> QED BY <3>a, <3>b, <3>c, <3>d, <3>e DEF UniqueInv, Serves
    <2>4. CASE Reply(s)
      <3>1. documents' = documents /\ me.pc \notin {"fill", "commit", "reply"} /\ my.pc = "reply"
        BY <2>4, IdleType DEF Reply, Done, TypeOK, tables
      <3>2. replies' = replies \cup {[org |-> my.org, doc |-> my.doc, id |-> my.id]}
        BY <2>4 DEF Reply
      <3>3. PICK r \in documents : r.id = my.id /\ r.org = my.org /\ r.doc = my.doc
        BY <3>1 DEF UniqueInv, Serves
      <3>4. \A a \in replies' : \E q \in documents' :
              q.id = a.id /\ q.org = a.org /\ q.doc = a.doc
        BY <3>1, <3>2, <3>3 DEF UniqueInv
      <3>5. Uncommitted' = Uncommitted /\ s \notin Uncommitted
        BY <2>0, <3>1 DEF Uncommitted
      <3> QED BY <2>0, <3>1, <3>4, <3>5 DEF UniqueInv, Serves, Uncommitted
    <2>5. CASE Replay(s)
      <3>1. PICK r \in Stored(my.org, my.doc) :
              session' = [session EXCEPT ![s].pc = "reply", ![s].id = r.id]
        BY <2>5 DEF Replay
      <3>2. me.org = my.org /\ me.doc = my.doc /\ me.id = r.id /\ me.pc = "reply"
        BY <2>0, <3>1 DEF TypeOK, SessionRow
      <3>3. r \in documents /\ Serves(s, r)'
        BY <3>1, <3>2 DEF Stored, Serves
      <3>4. UNCHANGED <<documents, replies>> /\ my.pc = "lookup"
        BY <2>5 DEF Replay, tables
      <3>5. Uncommitted' = Uncommitted /\ s \notin Uncommitted
        BY <2>0, <3>2, <3>4 DEF Uncommitted
      <3> QED BY <2>0, <3>2, <3>3, <3>4, <3>5 DEF UniqueInv, Serves, Uncommitted
    <2>6. CASE Lookup(s) \/ Put(s) \/ (Outside(s) /\ ~Reply(s))
      <3>1. UNCHANGED <<documents, replies>>
        BY <2>6, OutsideMoves DEF Lookup, Put, tables
      <3>2. me.pc \notin {"fill", "commit", "reply"}
        <4>1. CASE Lookup(s)
          BY <4>1, UploadMoves
        <4>2. CASE Put(s)
          BY <4>2, UploadMoves
        <4>3. CASE Outside(s) /\ ~Reply(s)
          BY <4>3, OutsideMoves
        <4> QED BY <2>6, <4>1, <4>2, <4>3
      <3>3. Uncommitted' = Uncommitted \ {s}
        BY <2>0, <3>2 DEF Uncommitted
      <3> QED BY <2>0, <3>1, <3>2, <3>3 DEF UniqueInv, Serves, Uncommitted
    <2> QED BY <2>1, <2>2, <2>3, <2>4, <2>5, <2>6
  <1> QED BY <1>1, <1>2

\* Whoever uploads a document is told the one id of the row that is stored for
\* it in the organisation, however the uploads of it race
\* (SBOMService.ingest, "Handles idempotent replay via content digest").
THEOREM OneIdPerDocument == Spec => []RepliesAgree
  <1>1. Init => UniqueInv
    BY IdleType DEF Init, UniqueInv, Uncommitted
  <1>2. UniqueInv => RepliesAgree
    BY DEF UniqueInv, RepliesAgree
  <1> QED BY <1>1, <1>2, TypeCorrect, UniqueStep, PTL DEF Spec

-----------------------------------------------------------------------------
(* How far a race can go.                                                   *)

\* Together no more than the requests that may be under way at once.
Within(S, T) ==
  /\ IsFiniteSet(S) /\ IsFiniteSet(T)
  /\ Cardinality(S) + Cardinality(T) <= Cardinality(Sessions)

LEMMA FewerOfBoth ==
  ASSUME IsFiniteSet(Sessions), NEW S, NEW T, Within(S, T), NEW A \in SUBSET S, NEW B \in SUBSET T
  PROVE  Within(A, B)
  <1>1. /\ IsFiniteSet(A) /\ Cardinality(A) <= Cardinality(S)
        /\ IsFiniteSet(B) /\ Cardinality(B) <= Cardinality(T)
    BY FS_Subset DEF Within
  <1>2. /\ Cardinality(A) \in Nat /\ Cardinality(B) \in Nat /\ Cardinality(S) \in Nat
        /\ Cardinality(T) \in Nat /\ Cardinality(Sessions) \in Nat
    BY <1>1, FS_CardinalityType DEF Within
  <1> QED BY <1>1, <1>2 DEF Within

\* One more of the first for one less of the second.
LEMMA OneForTheOther ==
  ASSUME IsFiniteSet(Sessions), NEW S, NEW T, Within(S, T), NEW x, NEW s \in T,
         NEW A \in SUBSET (S \cup {x}), NEW B \in SUBSET (T \ {s})
  PROVE  Within(A, B)
  <1> DEFINE S1 == S \cup {x}
             T1 == T \ {s}
  <1>1. /\ IsFiniteSet(S1) /\ Cardinality(S1) \in {Cardinality(S), Cardinality(S) + 1}
        /\ IsFiniteSet(T1) /\ Cardinality(T1) = Cardinality(T) - 1
    BY FS_AddElement, FS_RemoveElement DEF Within
  <1>2. Cardinality(S) \in Nat /\ Cardinality(T) \in Nat /\ Cardinality(Sessions) \in Nat
    BY FS_CardinalityType DEF Within
  <1>3. Within(S1, T1)
    BY <1>1, <1>2 DEF Within
  <1> QED BY <1>3, FewerOfBoth

LEMMA NoneOfTheFirst ==
  ASSUME IsFiniteSet(Sessions), NEW B \in SUBSET Sessions
  PROVE  Within({}, B)
  <1>1. IsFiniteSet(B) /\ Cardinality(B) <= Cardinality(Sessions)
    BY FS_Subset
  <1>2. IsFiniteSet({}) /\ Cardinality({}) = 0
    BY FS_EmptySet
  <1>3. Cardinality(B) \in Nat /\ Cardinality(Sessions) \in Nat
    BY <1>1, FS_CardinalityType
  <1> QED BY <1>1, <1>2, <1>3 DEF Within

\* The first alone keeps within.
LEMMA FirstWithin ==
  ASSUME IsFiniteSet(Sessions), NEW S, NEW T, Within(S, T)
  PROVE  IsFiniteSet(S) /\ Cardinality(S) <= Cardinality(Sessions)
  <1>1. Cardinality(S) \in Nat /\ Cardinality(T) \in Nat /\ Cardinality(Sessions) \in Nat
    BY FS_CardinalityType DEF Within
  <1> QED BY <1>1 DEF Within

\* What each of the two cases below makes of it.
LEMMA WithinStep ==
  ASSUME IsFiniteSet(Sessions), NEW S, NEW T, NEW A, NEW B, Within(S, T),
         \/ A \subseteq S /\ B \subseteq T
         \/ A = {} /\ B \subseteq Sessions
         \/ \E s \in T : \E x : A \subseteq S \cup {x} /\ B \subseteq T \ {s}
  PROVE  Within(A, B)
  <1>1. CASE A \subseteq S /\ B \subseteq T
    BY <1>1, FewerOfBoth
  <1>2. CASE A = {} /\ B \subseteq Sessions
    BY <1>2, NoneOfTheFirst
  <1>3. CASE \E s \in T : \E x : A \subseteq S \cup {x} /\ B \subseteq T \ {s}
    <2>1. PICK s \in T : \E x : A \subseteq S \cup {x} /\ B \subseteq T \ {s}
      BY <1>3
    <2>2. PICK x : A \subseteq S \cup {x} /\ B \subseteq T \ {s}
      BY <2>1
    <2>3. s \in T /\ A \in SUBSET (S \cup {x}) /\ B \in SUBSET (T \ {s})
      BY <2>1, <2>2
    <2> QED BY <2>3, OneForTheOther
  <1> QED BY <1>1, <1>2, <1>3

\* The imports that have an asset for the host and have yet to say so.
Naming(o, h) ==
  {s \in Sessions : session[s].pc = "alias" /\ session[s].org = o /\ Head(session[s].rows) = h}

\* Each of them may add one asset of that name to those there are.
NamesInv == \A o \in Orgs, h \in Hosts : Within(Reconcile(o, h), Naming(o, h))

\* An asset is named by an import that goes on from there, and an import gets
\* as far only when it finds none.
LEMMA NamesMove ==
  ASSUME TypeOK, AliasInv, [Next]_vars, NEW o \in Orgs, NEW h \in Hosts
  PROVE  \/ Reconcile(o, h)' \subseteq Reconcile(o, h) /\ Naming(o, h)' \subseteq Naming(o, h)
         \/ Reconcile(o, h)' = {} /\ Naming(o, h)' \subseteq Sessions
         \/ \E s \in Naming(o, h) : \E x :
              /\ Reconcile(o, h)' \subseteq Reconcile(o, h) \cup {x}
              /\ Naming(o, h)' \subseteq Naming(o, h) \ {s}
  <1>1. CASE UNCHANGED vars
    BY <1>1 DEF vars, tables, Reconcile, Naming
  <1>2. CASE Next
    <2> PICK s \in Sessions :
          \/ \E sent \in Sent : Submit(s, sent[1], sent[2])
          \/ \E list \in Imported : Import(s, list[1], list[2])
          \/ Upload(s) \/ ImportRows(s) \/ Interrupt(s)
      BY <1>2 DEF Next
    <2>1. CASE CreateAsset(s)
      <3>1. PICK a \in Ids :
              /\ assets' = [assets EXCEPT ![a] = [NoAsset EXCEPT !.org = session[s].org]]
              /\ session' = [session EXCEPT ![s].pc = "alias", ![s].asset = a]
        BY <2>1 DEF CreateAsset
      <3>2. assets'[a].host = None /\ \A b \in Ids \ {a} : assets'[b] = assets[b]
        BY <3>1 DEF TypeOK, NoAsset
      <3>3. Reconcile(o, h)' \subseteq Reconcile(o, h)
        BY <3>2, IntakeConstants DEF Reconcile
      <3>4. /\ session'[s].org = session[s].org /\ session'[s].rows = session[s].rows
            /\ \A t \in Sessions \ {s} : session'[t] = session[t]
        BY <3>1 DEF TypeOK, SessionRow
      <3>5. CASE session[s].org = o /\ Head(session[s].rows) = h
        BY <2>1, <3>3, <3>5 DEF CreateAsset, Naming
      <3>6. CASE ~(session[s].org = o /\ Head(session[s].rows) = h)
        BY <3>3, <3>4, <3>6 DEF Naming
      <3> QED BY <3>5, <3>6
    <2>2. CASE AddAlias(s)
      <3> DEFINE a == session[s].asset
      <3>1. /\ assets' = [assets EXCEPT ![a].host = Head(session[s].rows)]
            /\ session[s].pc = "alias" /\ a \in Ids
        BY <2>2 DEF AddAlias, TypeOK, SessionOK
      <3>2. assets[a] = [org |-> session[s].org, host |-> None]
        BY <3>1 DEF AliasInv
      <3>3. /\ assets'[a] = [org |-> session[s].org, host |-> Head(session[s].rows)]
            /\ \A b \in Ids \ {a} : assets'[b] = assets[b]
        BY <3>1, <3>2 DEF TypeOK
      <3>4. session'[s].pc = "row" /\ \A t \in Sessions \ {s} : session'[t] = session[t]
        BY <2>2 DEF AddAlias, TypeOK, SessionRow
      <3>5. Naming(o, h)' \subseteq Naming(o, h) \ {s}
        BY <3>4 DEF Naming
      <3>6. CASE s \in Naming(o, h)
        <4>1. Reconcile(o, h)' \subseteq Reconcile(o, h) \cup {a}
          BY <3>3 DEF Reconcile
        <4> QED BY <3>5, <3>6, <4>1
      <3>7. CASE s \notin Naming(o, h)
        <4>1. Reconcile(o, h)' \subseteq Reconcile(o, h)
          BY <3>1, <3>3, <3>7 DEF Reconcile, Naming
        <4> QED BY <3>5, <4>1
      <3> QED BY <3>6, <3>7
    <2>3. CASE ~CreateAsset(s) /\ ~AddAlias(s)
      BY <2>3, OtherSteps DEF Reconcile, Naming
    <2> QED BY <2>1, <2>2, <2>3
  <1> QED BY <1>1, <1>2

\* An organisation has at most as many assets of a name as requests that may
\* be under way at once.
FewAssetsPerHost ==
  \A o \in Orgs, h \in Hosts :
    /\ IsFiniteSet(Reconcile(o, h))
    /\ Cardinality(Reconcile(o, h)) <= Cardinality(Sessions)

\* The duplicates that the look-up and the two commits of import_assets let in
\* are bounded by the requests that can race: repeated imports, and those that
\* break off between the two commits, add none.
THEOREM FewTwinAssets ==
  ASSUME IsFiniteSet(Sessions)
  PROVE  Spec => []FewAssetsPerHost
  <1>1. Init => NamesInv
    <2> SUFFICES ASSUME Init, NEW o \in Orgs, NEW h \in Hosts
                 PROVE  Within(Reconcile(o, h), Naming(o, h))
      BY DEF NamesInv
    <2>1. Reconcile(o, h) = {} /\ Naming(o, h) \in SUBSET Sessions
      BY IntakeConstants DEF Init, Reconcile, Naming, NoAsset
    <2> QED BY <2>1, NoneOfTheFirst
  <1>2. TypeOK /\ AliasInv /\ NamesInv /\ [Next]_vars => NamesInv'
    <2> SUFFICES ASSUME TypeOK, AliasInv, NamesInv, [Next]_vars, NEW o \in Orgs, NEW h \in Hosts
                 PROVE  Within(Reconcile(o, h), Naming(o, h))'
      BY DEF NamesInv
    <2> DEFINE A == Reconcile(o, h)'
               B == Naming(o, h)'
               S == Reconcile(o, h)
               T == Naming(o, h)
    <2> SUFFICES Within(A, B)
      BY DEF Within
    <2>1. Within(S, T)
      BY DEF NamesInv
    <2>2. \/ A \subseteq S /\ B \subseteq T
          \/ A = {} /\ B \subseteq Sessions
          \/ \E s \in T : \E x : A \subseteq S \cup {x} /\ B \subseteq T \ {s}
      BY NamesMove
    <2> HIDE DEF A, B, S, T
    <2> QED BY <2>1, <2>2, WithinStep
  <1>3. NamesInv => FewAssetsPerHost
    <2> SUFFICES ASSUME NamesInv, NEW o \in Orgs, NEW h \in Hosts
                 PROVE  /\ IsFiniteSet(Reconcile(o, h))
                        /\ Cardinality(Reconcile(o, h)) <= Cardinality(Sessions)
      BY DEF FewAssetsPerHost
    <2> QED BY FirstWithin DEF NamesInv
  <1> QED BY <1>1, <1>2, <1>3, TypeInit, TypeStep, AliasStep, PTL DEF Spec

\* The components of a package URL.
OfPurl(p) == {c \in components : c.purl = p}

\* The uploads that are going to add one.
Bringing(p) ==
  {s \in Sessions : /\ session[s].pc \in {"fill", "commit"}
                    /\ \E c \in session[s].parts : c.purl = p /\ c \notin components}

\* An upload takes one component for each package URL, once it has inserted its
\* document.
OnePartEach(me) ==
  /\ \A b, c \in me.parts : b.purl = c.purl => b = c
  /\ me.pc \in {"lookup", "put", "insert"} => me.parts = {}

PartsInv == \A s \in Sessions : OnePartEach(session[s])

\* The row of s after it took another component, or had them all.
Filled(s) ==
  LET missing == Contents[session[s].doc] \ {c.purl : c \in session[s].parts}
  IN \/ session'[s] = [session[s] EXCEPT !.pc = "commit"]
     \/ \E p \in missing : \E c \in Found(p, session[s].id) :
          session'[s] = [session[s] EXCEPT !.parts = @ \cup {c}]

LEMMA FillMoves ==
  ASSUME TypeOK, NEW s \in Sessions, Fill(s)
  PROVE  Filled(s)
  <1> DEFINE missing == Contents[session[s].doc] \ {c.purl : c \in session[s].parts}
  <1>1. CASE missing = {}
    BY <1>1 DEF Fill, Goto, Filled, TypeOK
  <1>2. CASE missing # {}
    <2>1. PICK p \in missing : \E c \in Found(p, session[s].id) :
            session' = [session EXCEPT ![s].parts = @ \cup {c}]
      BY <1>2 DEF Fill
    <2>2. PICK c \in Found(p, session[s].id) :
            session' = [session EXCEPT ![s].parts = @ \cup {c}]
      BY <2>1
    <2>3. session'[s] = [session[s] EXCEPT !.parts = @ \cup {c}]
      BY <2>2 DEF TypeOK
    <2> QED BY <2>1, <2>2, <2>3 DEF Filled
  <1> QED BY <1>1, <1>2

LEMMA FoundPurl == \A p, i : \A c \in Found(p, i) : c.purl = p
  BY DEF Found

\* No other step gives a request components.
LEMMA PartsMove ==
  ASSUME TypeOK, PartsInv, NEW s \in Sessions,
         \/ Outside(s)
         \/ Replay(s) \/ Lookup(s) \/ Put(s) \/ Insert(s) \/ Fill(s) \/ Commit(s)
  PROVE  OnePartEach(session'[s])
  <1>0. session[s] \in SessionRow /\ OnePartEach(session[s])
    BY DEF TypeOK, PartsInv
  <1>1. Idle.parts = {}
    BY DEF Idle
  <1> USE DEF Goto, Done, OnePartEach
  <1>2. CASE \/ \E sent \in Sent : Submit(s, sent[1], sent[2])
             \/ \E list \in Imported : Import(s, list[1], list[2])
    <2>1. CASE \E sent \in Sent : Submit(s, sent[1], sent[2])
      BY <2>1 DEF Submit, TypeOK, Idle
    <2>2. CASE \E list \in Imported : Import(s, list[1], list[2])
      BY <2>2 DEF Import, TypeOK, Idle
    <2> QED BY <1>2, <2>1, <2>2
  <1>3. CASE PutFails(s) \/ Refuse(s) \/ Reply(s) \/ Finish(s) \/ Interrupt(s)
    <2>1. session'[s].parts = {}
      BY <1>1, <1>3 DEF PutFails, AfterPutFailure, Refuse, Reply, Finish, Interrupt, TypeOK
    <2> QED BY <2>1
  <1>4. CASE SkipRow(s) \/ UpdateRow(s) \/ AddAlias(s)
    <2>1. session'[s].parts = session[s].parts /\ session'[s].pc = "row"
      BY <1>0, <1>4 DEF SkipRow, UpdateRow, AddAlias, TypeOK, SessionRow
    <2> QED BY <1>0, <2>1
  <1>5. CASE CreateAsset(s)
    <2>1. PICK a \in Ids : session' = [session EXCEPT ![s].pc = "alias", ![s].asset = a]
      BY <1>5 DEF CreateAsset
    <2>2. session'[s].parts = session[s].parts /\ session'[s].pc = "alias"
      BY <1>0, <2>1 DEF TypeOK, SessionRow
    <2> QED BY <1>0, <2>2
  <1>6. CASE Lookup(s) \/ Put(s) \/ Commit(s)
    <2>1. session'[s].parts = session[s].parts
      BY <1>0, <1>6 DEF Lookup, Put, Commit, TypeOK, SessionRow
    <2>2. session[s].pc \in {"lookup", "put"} \/ session'[s].pc = "reply"
      BY <1>6, UploadMoves DEF Lookup, Put
    <2> QED BY <1>0, <2>1, <2>2
  <1>7. CASE Replay(s)
    <2>1. PICK r \in documents : session' = [session EXCEPT ![s].pc = "reply", ![s].id = r.id]
      BY <1>7 DEF Replay, Stored
    <2>2. session'[s].parts = session[s].parts /\ session'[s].pc = "reply"
      BY <1>0, <2>1 DEF TypeOK, SessionRow
    <2> QED BY <1>0, <2>2
  <1>8. CASE Insert(s)
    <2>1. PICK i \in Ids : session' = [session EXCEPT ![s].pc = "fill", ![s].id = i]
      BY <1>8 DEF Insert
    <2>2. session'[s].parts = session[s].parts /\ session'[s].pc = "fill"
      BY <1>0, <2>1 DEF TypeOK, SessionRow
    <2> QED BY <1>0, <2>2
  <1>9. CASE Fill(s)
    <2> DEFINE missing == Contents[session[s].doc] \ {c.purl : c \in session[s].parts}
    <2>0. session'[s].pc \in {"fill", "commit"}
      BY <1>9, UploadMoves
    <2>1. CASE session'[s] = [session[s] EXCEPT !.pc = "commit"]
      <3>1. session'[s].parts = session[s].parts
        BY <1>0, <2>1 DEF SessionRow
      <3> QED BY <1>0, <2>0, <3>1
    <2>2. CASE \E p \in missing : \E c \in Found(p, session[s].id) :
                 session'[s] = [session[s] EXCEPT !.parts = @ \cup {c}]
      <3>1. PICK p \in missing : \E c \in Found(p, session[s].id) :
              session'[s] = [session[s] EXCEPT !.parts = @ \cup {c}]
        BY <2>2
      <3>2. PICK c \in Found(p, session[s].id) :
              session'[s] = [session[s] EXCEPT !.parts = @ \cup {c}]
        BY <3>1
      <3>3. session'[s].parts = session[s].parts \cup {c}
        BY <1>0, <3>2 DEF SessionRow
      <3>4. c.purl = p
        BY <3>2, FoundPurl
      <3>5. \A b \in session[s].parts : b.purl # c.purl
        BY <3>1, <3>4
      <3> QED BY <1>0, <2>0, <3>3, <3>5
    <2> QED BY <1>9, <2>1, <2>2, FillMoves DEF Filled
  <1> QED BY <1>2, <1>3, <1>4, <1>5, <1>6, <1>7, <1>8, <1>9 DEF Outside, ImportRows

LEMMA PartsStep ==
  ASSUME TypeOK, PartsInv, [Next]_vars
  PROVE  PartsInv'
  <1>1. CASE UNCHANGED vars
    BY <1>1 DEF vars, PartsInv
  <1>2. CASE Next
    <2> PICK s \in Sessions :
          \/ Outside(s)
          \/ Replay(s) \/ Lookup(s) \/ Put(s) \/ Insert(s) \/ Fill(s) \/ Commit(s)
      BY <1>2, NextSteps
    <2> QED BY OthersStay, PartsMove DEF PartsInv
  <1> QED BY <1>1, <1>2

\* Each of the uploads that are going to may add one component to those there
\* are.
PurlsInv == \A p \in UNION {Contents[d] : d \in Documents} : Within(OfPurl(p), Bringing(p))

\* A component is added by an upload that has it, and an upload makes one of
\* its own only when it finds none.
LEMMA PurlsMove ==
  ASSUME TypeOK, PartsInv, [Next]_vars, NEW p
  PROVE  \/ OfPurl(p)' \subseteq OfPurl(p) /\ Bringing(p)' \subseteq Bringing(p)
         \/ OfPurl(p)' = {} /\ Bringing(p)' \subseteq Sessions
         \/ \E s \in Bringing(p) : \E x : /\ OfPurl(p)' \subseteq OfPurl(p) \cup {x}
                                          /\ Bringing(p)' \subseteq Bringing(p) \ {s}
  <1>1. CASE UNCHANGED vars
    BY <1>1 DEF vars, tables, OfPurl, Bringing
  <1>2. CASE Next
    <2> PICK s \in Sessions :
          \/ Outside(s)
          \/ Replay(s) \/ Lookup(s) \/ Put(s) \/ Insert(s) \/ Fill(s) \/ Commit(s)
      BY <1>2, NextSteps
    <2>0. session[s] \in SessionRow /\ \A t \in Sessions \ {s} : session'[t] = session[t]
      BY OthersStay DEF TypeOK
    <2>1. ASSUME UNCHANGED components, session'[s].pc \notin {"fill", "commit"}
          PROVE  OfPurl(p)' \subseteq OfPurl(p) /\ Bringing(p)' \subseteq Bringing(p)
      BY <2>0, <2>1 DEF OfPurl, Bringing
    <2>2. CASE Outside(s)
      BY <2>1, <2>2, OutsideMoves
    <2>3. CASE Replay(s) \/ Lookup(s) \/ Put(s)
      BY <2>1, <2>3, UploadMoves DEF Replay, Lookup, Put, tables
    <2>4. CASE Insert(s)
      <3>1. PICK i \in Ids : session' = [session EXCEPT ![s].pc = "fill", ![s].id = i]
        BY <2>4 DEF Insert
      <3>2. session'[s].parts = session[s].parts /\ session[s].pc = "insert"
        BY <2>0, <2>4, <3>1 DEF Insert, TypeOK, SessionRow
      <3>3. session'[s].parts = {} /\ UNCHANGED components
        BY <2>4, <3>2 DEF PartsInv, OnePartEach, Insert, tables
      <3> QED BY <2>0, <3>3 DEF OfPurl, Bringing
    <2>5. CASE Fill(s)
      <3>1. UNCHANGED components /\ session[s].pc = "fill" /\ session'[s].pc \in {"fill", "commit"}
        BY <2>5, UploadMoves DEF Fill, tables
      <3>2. CASE session'[s] = [session[s] EXCEPT !.pc = "commit"]
        <4>1. session'[s].parts = session[s].parts
          BY <2>0, <3>2 DEF SessionRow
        <4> QED BY <2>0, <3>1, <4>1 DEF OfPurl, Bringing
      <3>3. ASSUME NEW q, NEW c \in Found(q, session[s].id),
                   session'[s] = [session[s] EXCEPT !.parts = @ \cup {c}]
            PROVE  \/ OfPurl(p)' \subseteq OfPurl(p) /\ Bringing(p)' \subseteq Bringing(p)
                   \/ OfPurl(p)' = {} /\ Bringing(p)' \subseteq Sessions
        <4>1. session'[s].parts = session[s].parts \cup {c}
          BY <2>0, <3>3 DEF SessionRow
        <4>2. CASE c \in components \/ q # p
          <5>1. c.purl = p => c \in components
            BY <3>3, <4>2, FoundPurl
          <5> QED BY <2>0, <3>1, <4>1, <5>1 DEF OfPurl, Bringing
        <4>3. CASE c \notin components /\ q = p
          <5>1. OfPurl(p) = {}
            BY <3>3, <4>3 DEF Found, OfPurl
          <5> QED BY <3>1, <5>1 DEF OfPurl, Bringing
        <4> QED BY <4>2, <4>3
      <3> QED BY <2>5, <3>2, <3>3, FillMoves DEF Filled
    <2>6. CASE Commit(s)
      <3>1. /\ components' = components \cup session[s].parts
            /\ session[s].pc = "commit" /\ session'[s].pc = "reply"
        BY <2>6, UploadMoves DEF Commit
      <3>2. Bringing(p)' \subseteq Bringing(p) \ {s}
        BY <2>0, <3>1 DEF Bringing
      <3>3. CASE s \in Bringing(p)
        <4>1. PICK c \in session[s].parts : c.purl = p
          BY <3>3 DEF Bringing
        <4>2. OfPurl(p)' \subseteq OfPurl(p) \cup {c}
          BY <3>1, <4>1 DEF OfPurl, PartsInv, OnePartEach
        <4> QED BY <3>2, <3>3, <4>2
      <3>4. CASE s \notin Bringing(p)
        <4>1. OfPurl(p)' \subseteq OfPurl(p)
          BY <3>1, <3>4 DEF OfPurl, Bringing
        <4> QED BY <3>2, <4>1
      <3> QED BY <3>3, <3>4
    <2> QED BY <2>2, <2>3, <2>4, <2>5, <2>6
  <1> QED BY <1>1, <1>2

\* There are at most as many components of a package URL as requests that may
\* be under way at once.
FewComponentsPerPurl ==
  \A p \in UNION {Contents[d] : d \in Documents} :
    IsFiniteSet(OfPurl(p)) /\ Cardinality(OfPurl(p)) <= Cardinality(Sessions)

\* The duplicates that the look-up and the commit of SBOMService.ingest let in
\* are bounded by the uploads that can race: once a package URL has a
\* component, only the uploads already on their way add another.
THEOREM FewTwinComponents ==
  ASSUME IsFiniteSet(Sessions)
  PROVE  Spec => []FewComponentsPerPurl
  <1>1. Init => PurlsInv /\ PartsInv
    <2> SUFFICES ASSUME Init PROVE PurlsInv /\ PartsInv
      OBVIOUS
    <2>1. ASSUME NEW p PROVE Within(OfPurl(p), Bringing(p))
      <3>1. OfPurl(p) = {} /\ Bringing(p) \in SUBSET Sessions
        BY DEF Init, OfPurl, Bringing
      <3> QED BY <3>1, NoneOfTheFirst
    <2>2. PartsInv
      BY DEF Init, PartsInv, OnePartEach, Idle
    <2> QED BY <2>1, <2>2 DEF PurlsInv
  <1>2. TypeOK /\ PartsInv /\ PurlsInv /\ [Next]_vars => PurlsInv'
    <2> SUFFICES ASSUME TypeOK, PartsInv, PurlsInv, [Next]_vars,
                        NEW p \in UNION {Contents[d] : d \in Documents}
                 PROVE  Within(OfPurl(p), Bringing(p))'
      BY DEF PurlsInv
    <2> DEFINE A == OfPurl(p)'
               B == Bringing(p)'
               S == OfPurl(p)
               T == Bringing(p)
    <2> SUFFICES Within(A, B)
      BY DEF Within
    <2>1. Within(S, T)
      BY DEF PurlsInv
    <2>2. \/ A \subseteq S /\ B \subseteq T
          \/ A = {} /\ B \subseteq Sessions
          \/ \E s \in T : \E x : A \subseteq S \cup {x} /\ B \subseteq T \ {s}
      BY PurlsMove
    <2> HIDE DEF A, B, S, T
    <2> QED BY <2>1, <2>2, WithinStep
  <1>3. PurlsInv => FewComponentsPerPurl
    BY FirstWithin DEF PurlsInv, FewComponentsPerPurl
  <1> QED BY <1>1, <1>2, <1>3, PartsStep, TypeCorrect, PTL DEF Spec

LEMMA OneOfOne ==
  ASSUME NEW S, IsFiniteSet(S), Cardinality(S) <= 1, NEW a \in S, NEW b \in S
  PROVE  a = b
  <1> SUFFICES ASSUME a # b PROVE FALSE
    OBVIOUS
  <1>1. IsFiniteSet(S \ {a}) /\ Cardinality(S \ {a}) = Cardinality(S) - 1
    BY FS_RemoveElement
  <1>2. Cardinality(S \ {a}) \in Nat /\ Cardinality(S) \in Nat
    BY <1>1, FS_CardinalityType
  <1>3. Cardinality(S \ {a}) = 0
    BY <1>1, <1>2
  <1>4. S \ {a} = {}
    BY <1>1, <1>3, FS_EmptySet
  <1> QED BY <1>4

\* Served one at a time, requests leave no two assets of a name and no two
\* components of a package URL (import_assets, SBOMService.ingest), although
\* imports break off between their two commits.
THEOREM NoTwinsOneByOne ==
  ASSUME NEW only, Sessions = {only}
  PROVE  Spec => [](OneAssetPerHost /\ OneComponentPerPurl)
  <1>1. IsFiniteSet(Sessions) /\ Cardinality(Sessions) = 1
    BY FS_Singleton
  <1>2. FewAssetsPerHost => OneAssetPerHost
    <2> SUFFICES ASSUME FewAssetsPerHost, NEW o \in Orgs, NEW h \in Hosts,
                        NEW a \in Reconcile(o, h), NEW b \in Reconcile(o, h)
                 PROVE  a = b
      BY DEF OneAssetPerHost, Reconcile
    <2>1. IsFiniteSet(Reconcile(o, h)) /\ Cardinality(Reconcile(o, h)) <= 1
      BY <1>1 DEF FewAssetsPerHost
    <2> QED BY <2>1, OneOfOne
  <1>3. TypeOK /\ FewComponentsPerPurl => OneComponentPerPurl
    <2> SUFFICES ASSUME TypeOK, FewComponentsPerPurl, NEW b \in components, NEW c \in components,
                        b.purl = c.purl
                 PROVE  b = c
      BY DEF OneComponentPerPurl
    <2>1. b \in OfPurl(b.purl) /\ c \in OfPurl(b.purl)
          /\ b.purl \in UNION {Contents[d] : d \in Documents}
      BY DEF OfPurl, TypeOK, Component
    <2>2. IsFiniteSet(OfPurl(b.purl)) /\ Cardinality(OfPurl(b.purl)) <= 1
      BY <1>1, <2>1 DEF FewComponentsPerPurl
    <2> QED BY <2>1, <2>2, OneOfOne
  <1> QED BY <1>1, <1>2, <1>3, FewTwinAssets, FewTwinComponents, TypeCorrect, PTL
================================================================================
