---------------------------- MODULE InventoryIntake ----------------------------
(***************************************************************************)
(* What people and pipelines hand in: SBOM documents                       *)
(* (vulnops/sbom/service.py) and CSV inventories (vulnops/api/assets.py).  *)
(*                                                                         *)
(* A request is served in one go by its process, but several processes     *)
(* serve the same database: the steps of two requests interleave between   *)
(* their statements, and only the unique constraints on documents and      *)
(* snapshots hold them apart.  An upload looks for the document, resolves  *)
(* the host it declares, puts the bytes into the object store and then     *)
(* writes everything else in one transaction; an import commits row by     *)
(* row, and for a new host twice.                                          *)
(*                                                                         *)
(* A row of documents stands for all that its transaction writes: the      *)
(* document, its snapshot, its outbox event, its audit event and its       *)
(* occurrences.  Of an asset only the organisation and the hostname alias  *)
(* are kept: no property looks at its other columns.                       *)
(***************************************************************************)
EXTENDS Naturals, Sequences

CONSTANTS
  Sessions,    \* requests that may be under way at once
  Orgs,        \* organisations
  Documents,   \* SBOM contents, one per digest
  Named,       \* the documents with a serial number or namespace of their own
  Sent,        \* the pairs of organisation and document clients upload
  Contents,    \* per document, the package URLs in it
  HostOf,      \* per document, the hostname it declares, or None
  Hosts,       \* hostnames
  Imported,    \* the pairs of organisation and inventory imported, as a list of hosts
  Ids,         \* numbers for documents and assets
  MaxFaults,   \* bound on failures and crashes
  None

ASSUME IntakeConstants ==
  /\ Named \subseteq Documents
  /\ Sent \subseteq Orgs \X Documents
  /\ HostOf \in [Documents -> Hosts \cup {None}]
  /\ DOMAIN Contents = Documents
  /\ Imported \subseteq Orgs \X Seq(Hosts)
  /\ Ids \subseteq Nat /\ MaxFaults \in Nat
  /\ None \notin Ids /\ None \notin Hosts /\ None \notin Orgs /\ None \notin Documents

VARIABLES
  documents,   \* sbom_documents, with all that is written along with a row
  components,  \* components, named by the document that brought them
  objects,     \* the object store, by organisation and digest
  assets,      \* assets, each with its hostname alias once it has one
  session,     \* the requests under way
  replies,     \* the ids clients were given for their documents
  faults       \* failures and crashes so far

tables == <<documents, components, objects, assets>>
vars == <<tables, session, replies, faults>>

Idle == [pc |-> "idle", org |-> None, doc |-> None, id |-> None, asset |-> None,
         parts |-> {}, rows |-> <<>>]

NoAsset == [org |-> None, host |-> None]

Goto(s, pc) == session' = [session EXCEPT ![s].pc = pc]

\* A uuid nobody else has, the smallest for the sake of the state space.
IsFresh(i, used) == i \in Ids \ used /\ \A j \in Ids \ used : i <= j

\* The request of s is over.
Done(s) == session' = [session EXCEPT ![s] = Idle]

-----------------------------------------------------------------------------
(* Asset identity.                                                          *)

\* Faulty: the aliases of all organisations.
ReconcileAnywhere(o, h) == {a \in Ids : assets[a].host = h}

\* The assets with the alias h in organisation o.
Reconcile(o, h) == {a \in Ids : assets[a].host = h /\ assets[a].org = o}

\* The asset a document declares: one that is not unique is left unbound.
DeclaredAsset(o, d) ==
  LET R == IF HostOf[d] = None THEN {} ELSE Reconcile(o, HostOf[d])
  IN IF \E a \in R : R = {a} THEN CHOOSE a \in R : TRUE ELSE None

-----------------------------------------------------------------------------
(* SBOM uploads.                                                            *)

Submit(s, o, d) ==
  /\ session[s].pc = "idle"
  /\ session' = [session EXCEPT ![s] = [Idle EXCEPT !.pc = "lookup", !.org = o, !.doc = d]]
  /\ UNCHANGED <<tables, replies, faults>>

\* Faulty: the digest alone identifies a document.
StoredAnywhere(o, d) == {r \in documents : r.doc = d}

\* The rows of the document in the organisation.
Stored(o, d) == {r \in documents : r.doc = d /\ r.org = o}

\* A replay is answered with the document already there.
Replay(s) ==
  /\ session[s].pc = "lookup"
  /\ \E r \in Stored(session[s].org, session[s].doc) :
       session' = [session EXCEPT ![s].pc = "reply", ![s].id = r.id]
  /\ UNCHANGED <<tables, replies, faults>>

Lookup(s) ==
  /\ session[s].pc = "lookup"
  /\ Stored(session[s].org, session[s].doc) = {}
  /\ session' = [session EXCEPT ![s].pc = "put",
                   ![s].asset = DeclaredAsset(session[s].org, session[s].doc)]
  /\ UNCHANGED <<tables, replies, faults>>

Put(s) ==
  /\ session[s].pc = "put"
  /\ objects' = objects \cup {<<session[s].org, session[s].doc>>}
  /\ Goto(s, "insert")
  /\ UNCHANGED <<documents, components, assets, replies, faults>>

\* Faulty: the upload goes on without its bytes.
AfterPutFailureStored(s) == [session[s] EXCEPT !.pc = "insert"]

\* Faulty: a failed upload is answered as if it had been accepted.
AfterPutFailureAccepted(s) == [session[s] EXCEPT !.pc = "reply"]

\* An object store that fails fails the request.
AfterPutFailure(s) == Idle

PutFails(s) ==
  /\ session[s].pc = "put"
  /\ faults < MaxFaults
  /\ faults' = faults + 1
  /\ session' = [session EXCEPT ![s] = AfterPutFailure(s)]
  /\ UNCHANGED <<tables, replies>>

\* Faulty: digests are unique across organisations.
ClashAnywhere(o, d, p, e) == d = e

\* The unique constraints: one document per digest and organisation, one
\* snapshot per record id and digest, whatever the organisation.  A document
\* without a name of its own goes by its new id.
Clash(o, d, p, e) == d = e /\ (o = p \/ d \in Named)

Uncommitted == {t \in Sessions : session[t].pc \in {"fill", "commit"}}

\* Faulty: no constraint on documents.
ClashingNone(s) == {}

\* The committed rows in the way of what s inserts.
Clashing(s) == {r \in documents : Clash(session[s].org, session[s].doc, r.org, r.doc)}

\* The first flush.  It waits for a transaction that inserted the same keys.
Insert(s) ==
  /\ session[s].pc = "insert"
  /\ \A t \in Uncommitted :
       ~Clash(session[s].org, session[s].doc, session[t].org, session[t].doc)
  /\ Clashing(s) = {}
  /\ \E i \in Ids :
       /\ IsFresh(i, {r.id : r \in documents} \cup {session[t].id : t \in Uncommitted})
       /\ session' = [session EXCEPT ![s].pc = "fill", ![s].id = i]
  /\ UNCHANGED <<tables, replies, faults>>

\* An IntegrityError: the client gets a 500.
Refuse(s) ==
  /\ session[s].pc = "insert"
  /\ Clashing(s) # {}
  /\ Done(s)
  /\ UNCHANGED <<tables, replies, faults>>

\* The components of a package URL that an upload with the new id i may use:
\* one already there, or else one of its own.
Found(p, i) ==
  LET there == {c \in components : c.purl = p}
  IN IF there = {} THEN {[purl |-> p, by |-> i]} ELSE there

\* Components are found by package URL or made anew, one at a time.
Fill(s) ==
  /\ session[s].pc = "fill"
  /\ LET missing == Contents[session[s].doc] \ {c.purl : c \in session[s].parts}
     IN IF missing = {}
        THEN Goto(s, "commit")
        ELSE \E p \in missing : \E c \in Found(p, session[s].id) :
               session' = [session EXCEPT ![s].parts = @ \cup {c}]
  /\ UNCHANGED <<tables, replies, faults>>

Commit(s) ==
  /\ session[s].pc = "commit"
  /\ documents' = documents \cup
       {[id |-> session[s].id, org |-> session[s].org, doc |-> session[s].doc,
         asset |-> session[s].asset, parts |-> session[s].parts]}
  /\ components' = components \cup session[s].parts
  /\ Goto(s, "reply")
  /\ UNCHANGED <<objects, assets, replies, faults>>

Reply(s) ==
  /\ session[s].pc = "reply"
  /\ replies' = replies \cup
       {[org |-> session[s].org, doc |-> session[s].doc, id |-> session[s].id]}
  /\ Done(s)
  /\ UNCHANGED <<tables, faults>>

-----------------------------------------------------------------------------
(* Inventory imports.                                                       *)

Import(s, o, rows) ==
  /\ session[s].pc = "idle"
  /\ session' = [session EXCEPT ![s] = [Idle EXCEPT !.pc = "row", !.org = o, !.rows = rows]]
  /\ UNCHANGED <<tables, replies, faults>>

\* A collision is left to review.
SkipRow(s) ==
  /\ session[s].pc = "row" /\ session[s].rows # <<>>
  /\ \E a, b \in Reconcile(session[s].org, Head(session[s].rows)) : a # b
  /\ session' = [session EXCEPT ![s].rows = Tail(@)]
  /\ UNCHANGED <<tables, replies, faults>>

\* A known host is changed in place.
UpdateRow(s) ==
  /\ session[s].pc = "row" /\ session[s].rows # <<>>
  /\ \E a \in Ids : Reconcile(session[s].org, Head(session[s].rows)) = {a}
  /\ session' = [session EXCEPT ![s].rows = Tail(@)]
  /\ UNCHANGED <<tables, replies, faults>>

\* create_asset commits.
CreateAsset(s) ==
  /\ session[s].pc = "row" /\ session[s].rows # <<>>
  /\ Reconcile(session[s].org, Head(session[s].rows)) = {}
  /\ \E a \in Ids :
       /\ IsFresh(a, {b \in Ids : assets[b] # NoAsset})
       /\ assets' = [assets EXCEPT ![a] = [NoAsset EXCEPT !.org = session[s].org]]
       /\ session' = [session EXCEPT ![s].pc = "alias", ![s].asset = a]
  /\ UNCHANGED <<documents, components, objects, replies, faults>>

\* add_alias commits again.
AddAlias(s) ==
  /\ session[s].pc = "alias"
  /\ assets' = [assets EXCEPT ![session[s].asset].host = Head(session[s].rows)]
  /\ session' = [session EXCEPT ![s].pc = "row", ![s].asset = None, ![s].rows = Tail(@)]
  /\ UNCHANGED <<documents, components, objects, replies, faults>>

Finish(s) ==
  /\ session[s].pc = "row" /\ session[s].rows = <<>>
  /\ Done(s)
  /\ UNCHANGED <<tables, replies, faults>>

-----------------------------------------------------------------------------
\* A statement fails, or the process dies, before or after a commit: what is
\* not committed is gone, and so is an answer not given.
Interrupt(s) ==
  /\ session[s].pc # "idle"
  /\ faults < MaxFaults
  /\ faults' = faults + 1
  /\ Done(s)
  /\ UNCHANGED <<tables, replies>>

Init ==
  /\ documents = {} /\ components = {} /\ objects = {}
  /\ assets = [a \in Ids |-> NoAsset]
  /\ session = [s \in Sessions |-> Idle]
  /\ replies = {}
  /\ faults = 0

Upload(s) ==
  Replay(s) \/ Lookup(s) \/ Put(s) \/ PutFails(s) \/ Insert(s) \/ Refuse(s) \/ Fill(s)
  \/ Commit(s) \/ Reply(s)

ImportRows(s) ==
  SkipRow(s) \/ UpdateRow(s) \/ CreateAsset(s) \/ AddAlias(s) \/ Finish(s)

Next ==
  \E s \in Sessions :
    \/ \E sent \in Sent : Submit(s, sent[1], sent[2])
    \/ \E list \in Imported : Import(s, list[1], list[2])
    \/ Upload(s)
    \/ ImportRows(s)
    \/ Interrupt(s)

Spec == Init /\ [][Next]_vars

\* A request that runs is served to the end, and a client sends its document
\* again and again.
FairSpec ==
  /\ Spec
  /\ \A s \in Sessions : WF_vars(Upload(s) \/ ImportRows(s))
  /\ \A sent \in Sent : SF_vars(\E s \in Sessions : Submit(s, sent[1], sent[2]))

-----------------------------------------------------------------------------
(* Properties.                                                              *)

Component == [purl : UNION {Contents[d] : d \in Documents}, by : Ids]

Uploading == {"lookup", "put", "insert", "fill", "commit", "reply"}

SessionRow ==
  [pc : {"idle", "row", "alias"} \cup Uploading, org : Orgs \cup {None},
   doc : Documents \cup {None}, id : Ids \cup {None}, asset : Ids \cup {None},
   parts : SUBSET Component, rows : Seq(Hosts)]

\* An upload has a document, and an id once it is inserted; an import has an
\* organisation, and between its two commits an asset and the row it is for.
SessionOK(me) ==
  /\ me.pc \in Uploading => me.org \in Orgs /\ me.doc \in Documents
  /\ me.pc \in {"fill", "commit", "reply"} => me.id \in Ids
  /\ me.pc \in {"row", "alias"} => me.org \in Orgs
  /\ me.pc = "alias" => me.asset \in Ids /\ me.rows # <<>>

\* Every table keeps its shape, and every request is where its fields say.
TypeOK ==
  /\ documents \subseteq [id : Ids, org : Orgs, doc : Documents, asset : Ids \cup {None},
                          parts : SUBSET Component]
  /\ components \subseteq Component
  /\ objects \subseteq Orgs \X Documents
  /\ assets \in [Ids -> [org : Orgs, host : Hosts \cup {None}] \cup {NoAsset}]
  /\ session \in [Sessions -> SessionRow]
  /\ \A s \in Sessions : SessionOK(session[s])
  /\ replies \subseteq [org : Orgs, doc : Documents, id : Ids]
  /\ faults \in Nat

\* Whoever uploads a document is told one id for it, that of a stored document
\* of the organisation, however uploads of it race, fail after the commit or
\* are repeated (SBOMService.ingest, "Handles idempotent replay via content
\* digest").
RepliesAgree ==
  \A r \in replies :
    /\ \E d \in documents : d.id = r.id /\ d.org = r.org /\ d.doc = r.doc
    /\ \A d \in documents : d.org = r.org /\ d.doc = r.doc => d.id = r.id

\* A stored document's bytes are in the object store (persist_sbom_raw_bytes,
\* "Persist raw bytes first so the recorded URI is retrievable").
BytesBehindDocuments == \A d \in documents : <<d.org, d.doc>> \in objects

\* A document is bound to an asset of its own organisation that bears the host
\* it declares, although the asset was looked up in an earlier transaction
\* (_declared_asset_id).
BindingIsTrue ==
  \A d \in documents :
    d.asset # None => /\ assets[d.asset].org = d.org
                      /\ assets[d.asset].host = HostOf[d.doc]

\* A hostname names one asset of an organisation, whatever imports break off
\* (import_assets, "Existing assets are matched by hostname alias").
OneAssetPerHost ==
  \A o \in Orgs, h \in Hosts, a, b \in Ids :
    assets[a].org = o /\ assets[a].host = h /\ assets[b].org = o /\ assets[b].host = h => a = b

\* Package URLs name one component each (docs/data-model.md section 5).
OneComponentPerPurl == \A b, c \in components : b.purl = c.purl => b = c

\* A client that keeps sending a document is told its id at last, whoever else
\* sends it and whatever fails meanwhile (submit_sbom).
UploadsSucceed ==
  \A sent \in Sent : <>(\E r \in replies : r.org = sent[1] /\ r.doc = sent[2])
=============================================================================
