--------------------------- MODULE ArchiveRequests ---------------------------
(***************************************************************************)
(* Requests to archive a URI, published over BOSSWAVE as metadata          *)
(* (plugins/bosswave/service.go, archive.go).  Each message is handled by  *)
(* a goroutine, which registers each request of it and sets up a           *)
(* URIArchiver: subscriptions to metadata and to the URI, whose messages   *)
(* become readings and metadata of a stream.  One goroutine (Listen) does  *)
(* the readings of an archiver; each metadata message has its own, since   *)
(* the worker pool starts one when it has none.                            *)
(*                                                                         *)
(* BOSSWAVE is external: any call of it may fail, it hands on all that is  *)
(* published from the moment of a subscription, and it keeps the last      *)
(* message of each metadata URI.  A URI has one metadata key.  AddData is  *)
(* one step (module Ingest has its steps), and what it does after an error *)
(* is seen by nobody here.  Times, paths, values, metadata in the readings *)
(* themselves and messages with several objects are left out.              *)
(***************************************************************************)
EXTENDS Integers, FiniteSets, Sequences, SequencesExt

CONSTANTS
  Handlers,     \* goroutines of one message of requests each
  Message,      \* the requests in each handler's message, as they came
  URIs,         \* URIs published on
  Payloads,     \* payload objects published on URIs
  MsgPack,      \* types that the BOSSWAVE library takes for MsgPack
  MaxRune,      \* 16r10FFFF: the greatest Unicode code point
  MaxData,      \* bound on messages published on URIs
  MaxMetadata   \* bound on metadata messages

(* A string is a sequence of tokens; uuid and value are expressions, in    *)
(* requests, and uuid is empty if it is elided.                            *)
ASSUME ArchiveAssumption ==
  /\ Message \in [Handlers -> Seq([uri : STRING, po : Nat, uuid : Seq(STRING), value : Seq(STRING),
                                   inherit : BOOLEAN, sources : Seq(STRING)])]
  /\ URIs \subseteq STRING
  /\ Payloads \subseteq [po : Nat, uuid : Seq(STRING)]   \* uuid <<>>: not a string
  /\ MsgPack \subseteq Nat
  /\ {MaxRune, MaxData, MaxMetadata} \subseteq Nat

VARIABLES
  up,           \* the process has not panicked
  todo,         \* places of the requests that a handler has still to go through
  hpc,          \* where a handler stands with the first of them
  mu,           \* metadata URIs of it that the handler is done with
  requests,     \* objects registered
  skipped,      \* objects passed over
  failed,       \* objects whose ParseArchiveRequest returned an error
  uuidActual,   \* UUID of each object, as far as it is known
  listening,    \* objects with a URIArchiver
  lpc,          \* where Listen of an object stands
  luuid,        \* what it is about to assign to uuidActual
  data,         \* payloads an object has not yet listened to
  held,         \* metadata messages that wait for the worker pool
  working,      \* metadata messages that goroutines work on
  latest,       \* number of the last metadata message of each URI
  published,    \* messages published on URIs so far
  added,        \* what has been given to AddData
  kept          \* number of the metadata message stored last, of each URI

handlerVars == <<todo, hpc, mu, requests, skipped, failed>>
vars == <<up, handlerVars, uuidActual, listening, lpc, luuid, data, held,
          working, latest, published, added, kept>>

-----------------------------------------------------------------------------
(* Requests and strings.                                                   *)

NoUUID == [text |-> <<>>, po |-> 0]
Torn   == [text |-> <<"torn">>, po |-> 0]
Text(s) == [text |-> s, po |-> 0]

(* Requests without a type or a value are dropped: the places of those     *)
(* that are not.  A URI that was elided stays empty: lines 239-242 trim    *)
(* the request's own URI.                                                  *)
ExtractArchiveRequests(message) ==
  {i \in DOMAIN message : message[i].po # 0 /\ message[i].value # <<>>}

(* An object is a request of a handler's message. *)
Objects == UNION {{<<h, i>> : i \in ExtractArchiveRequests(Message[h])} : h \in Handlers}

Request_NoDefault(o) == Message[o[1]][o[2]]

(* Without metadata URIs, the request's own URI is the one. *)
Request(o) ==
  LET r == Message[o[1]][o[2]]
  IN  [r EXCEPT !.sources = IF @ = <<>> THEN <<r.uri>> ELSE @]

Hash(o) ==
  LET r == Request(o) IN [text |-> <<r.uri>> \o r.uuid \o r.value, po |-> r.po]

(* string(request.PO) is not the digits of that number but its character,  *)
(* and U+FFFD if it has none.                                              *)
StringOfInt(n) == IF n <= MaxRune THEN n ELSE 65533

(* Request.UUID as ParseArchiveRequest leaves it. *)
UUIDText(o) ==
  LET r == Request(o)
  IN  IF r.uuid = <<>>
        THEN [text |-> <<r.uri>> \o r.value, po |-> StringOfInt(r.po)]
        ELSE Text(r.uuid)

NoExpression(o) == Request(o).uuid = <<>>

UUIDs == {NoUUID, Torn} \cup {UUIDText(o) : o \in Objects} \cup {Text(p.uuid) : p \in Payloads}

(* The type that the BOSSWAVE library finds in a payload object. *)
IsType(payload, po) == payload.po = po

(* The request of its message that handler h is at. *)
Current(h) == <<h, Min(todo[h])>>

Init ==
  /\ up = TRUE
  /\ todo = [h \in Handlers |-> {}]
  /\ hpc = [h \in Handlers |-> "idle"]
  /\ mu = [h \in Handlers |-> 0]
  /\ requests = {} /\ skipped = {} /\ failed = {}
  /\ uuidActual = [o \in Objects |-> NoUUID]
  /\ listening = {}
  /\ lpc = [o \in Objects |-> "receive"]
  /\ luuid = [o \in Objects |-> NoUUID]
  /\ data = [o \in Objects |-> <<>>]
  /\ held = [o \in Objects |-> {}]
  /\ working = {}
  /\ latest = [u \in URIs |-> 0]
  /\ published = 0
  /\ added = {}
  /\ kept = [i \in UUIDs |-> [u \in URIs |-> 0]]

-----------------------------------------------------------------------------
(* A handler.                                                              *)

Go(h, from, to) == up /\ hpc[h] = from /\ hpc' = [hpc EXCEPT ![h] = to]

(* The round of the loop of handleArchiveRequest is over. *)
NextRequest(h, from) ==
  /\ Go(h, from, "add")
  /\ todo' = [todo EXCEPT ![h] = @ \ {Min(@)}]
  /\ mu' = [mu EXCEPT ![h] = 0]

Fail(h, from) ==
  /\ NextRequest(h, from)
  /\ failed' = failed \cup {Current(h)}

Add(o, kind, uri, number, uuid) ==
  added' = added \cup {[obj |-> o, kind |-> kind, uri |-> uri, number |-> number, uuid |-> uuid]}

(* The view hands on a message, in a goroutine of its own. *)
Receive(h) ==
  /\ Go(h, "idle", "add")
  /\ todo' = [todo EXCEPT ![h] = ExtractArchiveRequests(Message[h])]
  /\ UNCHANGED <<up, mu, requests, skipped, failed, uuidActual, listening, lpc, luuid, data,
                 held, working, latest, published, added, kept>>

addRequest_NoLookup(h) ==
  /\ todo[h] # {}
  /\ requests' = requests \cup {Current(h)}
  /\ Go(h, "add", IF Request(Current(h)).inherit THEN "inherit" ELSE "subscribe")
  /\ UNCHANGED <<up, mu, failed, uuidActual, listening, lpc, luuid, data, held, working, latest,
                 published, added, kept, todo, skipped>>

(* addRequest, and as far as there is no other request of its hash,        *)
(* ParseArchiveRequest up to its first call of BOSSWAVE.                   *)
addRequest(h) ==
  LET o == Current(h)
      found == \E p \in requests : Hash(p) = Hash(o)
  IN  /\ todo[h] # {}
      /\ \/ /\ ~found
            /\ requests' = requests \cup {o}
            /\ Go(h, "add", IF Request(o).inherit THEN "inherit" ELSE "subscribe")
            /\ UNCHANGED <<todo, mu, skipped>>
         \/ /\ found
            /\ skipped' = skipped \cup {o}
            /\ NextRequest(h, "add")
            /\ UNCHANGED requests
      /\ UNCHANGED <<up, failed, uuidActual, listening, lpc, luuid, data, held, working, latest,
                     published, added, kept>>

(* The metadata that bw2bind collects along the URI; the object's UUID is  *)
(* settled under its lock.                                                 *)
Inherit(h) ==
  LET o == Current(h)
      uuid == IF uuidActual[o] = NoUUID THEN UUIDText(o) ELSE uuidActual[o]
  IN  /\ \/ /\ Go(h, "inherit", "subscribe")
            /\ uuidActual' = [uuidActual EXCEPT ![o] = uuid]
            /\ Add(o, "inherited", Request(o).uri, 0, uuid)
            /\ UNCHANGED <<todo, mu, failed>>
         \/ Fail(h, "inherit") /\ UNCHANGED <<uuidActual, added>>
      /\ UNCHANGED <<up, requests, skipped, listening, lpc, luuid, data, held, working, latest, published, kept>>

Source(h) == Request(Current(h)).sources[mu[h] + 1]

(* A subscription to the metadata of the next metadata URI.  What arrives  *)
(* is held by the goroutine that forwards it, whatever becomes of the      *)
(* request.                                                                *)
SubscribeMetadata(h) ==
  /\ hpc[h] = "subscribe" /\ mu[h] < Len(Request(Current(h)).sources)
  /\ \/ Go(h, "subscribe", "query") /\ UNCHANGED <<todo, mu, failed>>
     \/ Fail(h, "subscribe")
  /\ UNCHANGED <<up, requests, skipped, uuidActual, listening, lpc, luuid, data, held, working,
                 latest, published, added, kept>>

QueryMetadata_First(h) ==
  LET o == Current(h)
      u == Source(h)
  IN  /\ Go(h, "query", "subscribe")
      /\ held' = [held EXCEPT ![o] = @ \cup
                    (IF u \in URIs /\ latest[u] > 0 /\ mu[h] = 0 THEN {[uri |-> u, number |-> latest[u], by |-> "query"]} ELSE {})]
      /\ mu' = [mu EXCEPT ![h] = @ + 1]
      /\ UNCHANGED <<todo, failed, up, requests, skipped, uuidActual, listening, lpc, luuid, data, working,
                     latest, published, added, kept>>

(* Then a query for what has been published there before. *)
QueryMetadata(h) ==
  LET o == Current(h)
      u == Source(h)
      found == IF u \in URIs /\ latest[u] > 0
                 THEN {[uri |-> u, number |-> latest[u], by |-> "query"]} ELSE {}
  IN  /\ \/ /\ Go(h, "query", "subscribe")
            /\ held' = [held EXCEPT ![o] = @ \cup found]
            /\ mu' = [mu EXCEPT ![h] = @ + 1]
            /\ UNCHANGED <<todo, failed>>
         \/ Fail(h, "query") /\ UNCHANGED held
      /\ UNCHANGED <<up, requests, skipped, uuidActual, listening, lpc, luuid, data, working,
                     latest, published, added, kept>>

(* The subscription to the URI itself, and go Listen. *)
SubscribeData(h) ==
  LET o == Current(h)
  IN  /\ hpc[h] = "subscribe" /\ mu[h] = Len(Request(o).sources)
      /\ \/ /\ NextRequest(h, "subscribe")
            /\ listening' = listening \cup {o}
            /\ UNCHANGED failed
         \/ Fail(h, "subscribe") /\ UNCHANGED listening
      /\ UNCHANGED <<up, requests, skipped, uuidActual, lpc, luuid, data, held, working, latest,
                     published, added, kept>>

-----------------------------------------------------------------------------
(* An archiver: readings.                                                  *)

listenUnchanged == <<handlerVars, listening, held, working, latest, published, kept>>

(* Listen takes the next payload object.  One of another type is passed    *)
(* over; GetSmapMessage looks whether the UUID is known, without a lock,   *)
(* and panics if its expression does not give a string.                    *)
Take(o) ==
  /\ up /\ o \in listening /\ lpc[o] = "receive" /\ data[o] # <<>>
  /\ LET payload == Head(data[o]).payload
         unknown == uuidActual[o] = NoUUID
     IN  \/ /\ ~IsType(payload, Request(o).po)
            /\ data' = [data EXCEPT ![o] = Tail(@)]
            /\ UNCHANGED <<up, lpc, luuid>>
         \/ /\ IsType(payload, Request(o).po)
            /\ payload.po \notin MsgPack \/ (unknown /\ ~NoExpression(o) /\ payload.uuid = <<>>)
            /\ up' = FALSE
            /\ UNCHANGED <<data, lpc, luuid>>
         \/ /\ IsType(payload, Request(o).po) /\ payload.po \in MsgPack /\ ~unknown
            /\ lpc' = [lpc EXCEPT ![o] = "send"]
            /\ UNCHANGED <<up, data, luuid>>
         \/ /\ IsType(payload, Request(o).po) /\ payload.po \in MsgPack /\ unknown
            /\ NoExpression(o) \/ payload.uuid # <<>>
            /\ lpc' = [lpc EXCEPT ![o] = "assign"]
            /\ luuid' = [luuid EXCEPT ![o] =
                           IF NoExpression(o) THEN UUIDText(o) ELSE Text(payload.uuid)]
            /\ UNCHANGED <<up, data>>
  /\ UNCHANGED <<uuidActual, added, listenUnchanged>>

Assign(o) ==
  /\ up /\ lpc[o] = "assign"
  /\ uuidActual' = [uuidActual EXCEPT ![o] = luuid[o]]
  /\ lpc' = [lpc EXCEPT ![o] = "send"]
  /\ UNCHANGED <<up, luuid, data, added, listenUnchanged>>

SendReading(o) ==
  /\ up /\ lpc[o] = "send"
  /\ Add(o, "reading", Request(o).uri, Head(data[o]).number, uuidActual[o])
  /\ data' = [data EXCEPT ![o] = Tail(@)]
  /\ lpc' = [lpc EXCEPT ![o] = "receive"]
  /\ UNCHANGED <<up, uuidActual, luuid, listenUnchanged>>

(* An archiver: metadata.                                                  *)

workUnchanged == <<handlerVars, listening, lpc, luuid, data, latest, published>>

(* The pool starts a goroutine for a message, and this settles the UUID    *)
(* under the lock, if it is not yet known.  An object that is not metadata *)
(* makes GetMetadata return nil, which AddData dereferences.               *)
StartWork(o) ==
  /\ up /\ o \in listening
  /\ \E m \in held[o] :
       /\ held' = [held EXCEPT ![o] = @ \ {m}]
       /\ \/ /\ working' = working \cup {[obj |-> o, msg |-> m]}
             /\ uuidActual' = [uuidActual EXCEPT ![o] = IF @ = NoUUID THEN UUIDText(o) ELSE @]
             /\ UNCHANGED up
          \/ up' = FALSE /\ UNCHANGED <<working, uuidActual>>
  /\ UNCHANGED <<added, kept, workUnchanged>>

(* It reads the UUID again without the lock.  While Listen is writing it,  *)
(* a reader may find the address of one string and the length of another.  *)
SendMetadata ==
  /\ up
  /\ \E w \in working :
       LET racing == lpc[w.obj] = "assign"
       IN  /\ working' = working \ {w}
           /\ \/ \E uuid \in {uuidActual[w.obj]} \cup
                            (IF racing /\ luuid[w.obj] # uuidActual[w.obj] THEN {Torn} ELSE {}) :
                   /\ Add(w.obj, "metadata", w.msg.uri, w.msg.number, uuid)
                   /\ kept' = [kept EXCEPT ![uuid][w.msg.uri] = w.msg.number]
                   /\ UNCHANGED up
              \/ racing /\ up' = FALSE /\ UNCHANGED <<added, kept>>
  /\ UNCHANGED <<uuidActual, held, workUnchanged>>

-----------------------------------------------------------------------------
(* What is published.                                                      *)

(* A message that nobody listens to changes nothing and is not counted. *)
PublishData(u) ==
  /\ up /\ published < MaxData
  /\ \E o \in listening : Request(o).uri = u
  /\ published' = published + 1
  /\ \E p \in Payloads :
       data' = [o \in Objects |->
                  IF o \in listening /\ Request(o).uri = u
                    THEN Append(data[o], [payload |-> p, number |-> published + 1]) ELSE data[o]]
  /\ UNCHANGED <<up, handlerVars, uuidActual, listening, lpc, luuid, held, working, latest, added, kept>>

(* The metadata URIs that an object is subscribed to.  If its request has  *)
(* failed, nothing comes of what arrives there.                            *)
Subscribed(o) ==
  LET h == o[1]
      sources == Request(o).sources
      count == CASE o \in listening -> Len(sources)
                 [] o \in requests \ (listening \cup failed) ->
                      mu[h] + (IF hpc[h] = "query" THEN 1 ELSE 0)
                 [] OTHER -> 0
  IN  {sources[i] : i \in 1..count}

PublishMetadata(u) ==
  /\ up /\ latest[u] < MaxMetadata
  /\ latest' = [latest EXCEPT ![u] = @ + 1]
  /\ held' = [o \in Objects |-> held[o] \cup
                IF u \in Subscribed(o)
                  THEN {[uri |-> u, number |-> latest[u] + 1, by |-> "subscription"]} ELSE {}]
  /\ UNCHANGED <<up, handlerVars, uuidActual, listening, lpc, luuid, data, working, published, added, kept>>

-----------------------------------------------------------------------------

Handle(h) == Receive(h) \/ addRequest(h) \/ Inherit(h) \/ SubscribeMetadata(h)
               \/ QueryMetadata(h) \/ SubscribeData(h)

Listen(o) == Take(o) \/ Assign(o) \/ SendReading(o) \/ StartWork(o)

Next ==
  \/ \E h \in Handlers : Handle(h)
  \/ \E o \in Objects : Listen(o)
  \/ SendMetadata
  \/ \E u \in URIs : PublishData(u) \/ PublishMetadata(u)

Spec == Init /\ [][Next]_vars

-----------------------------------------------------------------------------
(* Properties.                                                             *)

(* Every variable has its type; whatever a handler goes through is an      *)
(* object with metadata URIs; Listen has a payload in hand, and work is    *)
(* done, only for objects that have an archiver.                           *)
TypeOK ==
  /\ up \in BOOLEAN
  /\ hpc \in [Handlers -> {"idle", "add", "inherit", "subscribe", "query"}]
  /\ \A h \in Handlers :
       /\ \A i \in todo[h] : <<h, i>> \in Objects /\ Request(<<h, i>>).sources # <<>>
       /\ mu[h] > 0 \/ hpc[h] = "query" => todo[h] # {} /\ Current(h) \in requests
       /\ mu[h] \in Nat /\ (hpc[h] = "query" => mu[h] < Len(Request(Current(h)).sources))
  /\ requests \subseteq Objects /\ skipped \subseteq Objects
  /\ failed \subseteq requests /\ listening \subseteq requests \ failed
  /\ uuidActual \in [Objects -> UUIDs] /\ luuid \in [Objects -> UUIDs]
  /\ lpc \in [Objects -> {"receive", "assign", "send"}]
  /\ \A o \in Objects :
       /\ Len(data[o]) <= published /\ (lpc[o] # "receive" => o \in listening /\ data[o] # <<>>)
       /\ lpc[o] = "send" => uuidActual[o] # NoUUID
       /\ \A m \in held[o] : m.uri \in URIs /\ m.number \in 1..latest[m.uri]
  /\ \A w \in working : w.obj \in listening /\ uuidActual[w.obj] # NoUUID
  /\ latest \in [URIs -> 0..MaxMetadata] /\ published \in 0..MaxData
  /\ \A a \in added : a.obj \in requests /\ a.uuid \in UUIDs \ {NoUUID}
  /\ kept \in [UUIDs -> [URIs -> 0..MaxMetadata]]

(* addRequest: requests that ask the same are archived once, however their *)
(* handlers interleave, and if they leave the UUID to the archiver, all    *)
(* their readings and metadata are of one stream, though its UUID is set   *)
(* and read by several goroutines.                                         *)
OneStreamPerHash ==
  \A a, b \in added :
    Hash(a.obj) = Hash(b.obj) =>
      /\ NoExpression(a.obj) => a.uuid = b.uuid
      /\ a.kind = "reading" /\ b.kind = "reading" /\ a.number = b.number => a = b

(* ParseArchiveRequest subscribes to each metadata URI and then queries    *)
(* it: whatever was or is published there while the request is set up, an  *)
(* archiver that listens has the last of it, or will be given it.          *)
MetadataIsNotMissed ==
  \A o \in listening : \A u \in URIs \cap Range(Request(o).sources) :
    up /\ latest[u] > 0 =>
      \E m \in held[o] \cup {w.msg : w \in {v \in working : v.obj = o}}
             \cup {a \in added : a.obj = o /\ a.kind = "metadata"} :
        m.uri = u /\ m.number = latest[u]

(* archive.go:22-24: a request translates messages into a single stream. *)
SingleStream == \A a, b \in added : a.obj = b.obj => a.uuid = b.uuid

(* archive.go:37-39: the URI, type and value make the UUID. *)
StreamsAreDistinct ==
  \A a, b \in added :
    a.uuid = b.uuid /\ NoExpression(a.obj) /\ NoExpression(b.obj) => Hash(a.obj) = Hash(b.obj)

(* archive.go:211, service.go:103: what is passed over is archived. *)
PassedOverIsArchived ==
  \A o \in skipped : \E p \in requests \ failed :
    /\ Request(p).uri = Request(o).uri /\ Request(p).po = Request(o).po
    /\ Request(p).uuid = Request(o).uuid /\ Request(p).value = Request(o).value

(* Once all has been worked on, what was published last is stored. *)
LatestMetadataStays ==
  \A o \in listening : \A u \in URIs \cap Range(Request(o).sources) :
    up /\ NoExpression(o) /\ held[o] = {} /\ working = {} => kept[UUIDText(o)][u] = latest[u]

=============================================================================
