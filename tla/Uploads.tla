------------------------------- MODULE Uploads -------------------------------
(***************************************************************************)
(* How the adapters take data in: HTTP and TCP uploads, each a JSON object *)
(* of paths and messages whose metadata is inherited along the paths       *)
(* (common/message.go), and MsgPack packets, whose message objects and     *)
(* byte buffers come from sync.Pools (plugins/msgpack).  A handler is the  *)
(* goroutine of one request or packet.  Archiver.AddData is one step here, *)
(* and its caches answer as the store does: module Ingest has its steps    *)
(* and its caches.  One client is subscribed to the streams Watched.       *)
(*                                                                         *)
(* Actuator is merged and saved exactly as Metadata, and StreamType as     *)
(* UnitOfTime; one of each is modelled.  A JSON null is not a message.     *)
(***************************************************************************)
EXTENDS Naturals, FiniteSets, Sequences, SequencesExt

CONSTANTS
  Handlers,    \* goroutines of one request each
  Mixes,       \* assignments of protocols to handlers to consider
  Paths,       \* paths of an upload
  Above,       \* prefixes of each path but itself, the longest first
  UUIDs,       \* streams
  Keys,        \* metadata keys
  Values,      \* values of a key or of a property
  NA,          \* the unit of measure "n/a"
  Unset,       \* no value
  None,        \* no UUID, no Properties, no object
  Uploads,     \* JSON bodies
  Packets,     \* MsgPack packets
  Objects,     \* message objects of msgpool
  Buffers,     \* byte buffers of bufpool
  Watched,     \* streams the client is subscribed to
  StoreFails,  \* may AddData return an error?
  Cap          \* buffer size of Subscriber.C

Dicts == [Keys -> Values \cup {Unset}]
Properties == [uot : Values \cup {Unset}, uom : Values \cup {Unset, NA}]

Messages == [uuid : UUIDs \cup {None}, md : Dicts, props : Properties \cup {None}]

(* A packet is no msgpack map, or has a field that is missing or wrong, or *)
(* has a UUID and perhaps Metadata and Properties, in this order; it ends  *)
(* after so many of the three, though its map may announce more.           *)
PacketType == [kind : {"whole", "partial", "garbled"}, uuid : UUIDs,
               md : Dicts \cup {None}, props : Properties \cup {None}, ends : 0..3]

Announced(packet) == IF packet.props # None THEN 3 ELSE IF packet.md # None THEN 2 ELSE 1
IsCut(packet) == packet.ends < Announced(packet)

(* What a buffer holds at the places of the three fields.                  *)
Images == [uuid : UUIDs \cup {None}, md : Dicts \cup {None}, props : Properties \cup {None}]
Zeros == [uuid |-> None, md |-> None, props |-> None]

ASSUME UploadsAssumption ==
  /\ Mixes \subseteq [Handlers -> {"http", "tcp", "udp"}]
  /\ Above \in [Paths -> Seq(Paths)]
  /\ \A p \in Paths : \A i \in DOMAIN Above[p] :  \* those of a prefix are the shorter ones
       Above[Above[p][i]] = SubSeq(Above[p], i + 1, Len(Above[p]))
  /\ \A up \in Uploads : DOMAIN up \subseteq Paths /\ \A p \in DOMAIN up : up[p] \in Messages
  /\ Packets \subseteq PacketType
  /\ Watched \subseteq UUIDs
  /\ \A packet \in Packets : packet.ends <= Announced(packet)
  /\ None \notin UUIDs \cup Objects \cup Buffers \cup Properties \cup Dicts \cup Uploads \cup Packets
  /\ Unset \notin Values \cup {NA}
  /\ StoreFails \in BOOLEAN
  /\ Cap \in Nat \ {0}

VARIABLES
  protocol, \* of each handler, never changed
  up,       \* is the process running?
  pc,       \* where each handler stands
  sent,     \* what it was sent
  tier,     \* its TieredSmapMessage
  todo,     \* paths its loop has not come to
  added,    \* paths it has added
  obj,      \* the pooled object it uses
  content,  \* message in each object
  pooled,   \* objects in the pool
  buffer,   \* the buffer it uses
  bytes,    \* what each buffer holds
  spare,    \* buffers in their pool
  store,    \* metadata document of each stream
  chan      \* Subscriber.C: references to messages

pools == <<obj, content, pooled, buffer, bytes, spare>>
vars == <<protocol, up, pc, sent, tier, todo, added, pools, store, chan>>

NoTags == [k \in Keys |-> Unset]
NoProperties == [uot |-> Unset, uom |-> Unset]
Fresh == [uuid |-> None, md |-> NoTags, props |-> None]

IsEmpty(props) == props \in {None, NoProperties}

Init ==
  /\ protocol \in Mixes
  /\ up = TRUE
  /\ pc = [h \in Handlers |-> "idle"]
  /\ sent = [h \in Handlers |-> None]
  /\ tier = [h \in Handlers |-> <<>>]
  /\ todo = [h \in Handlers |-> {}]
  /\ added = [h \in Handlers |-> {}]
  /\ obj = [h \in Handlers |-> None]
  /\ content = [o \in Objects |-> Fresh]
  /\ pooled = {}
  /\ buffer = [h \in Handlers |-> None]
  /\ bytes = [b \in Buffers |-> Zeros]
  /\ spare = {}
  /\ store = [u \in UUIDs |-> [md |-> NoTags, props |-> NoProperties]]
  /\ chan = <<>>

GoTo(h, l) == pc' = [pc EXCEPT ![h] = l]

-----------------------------------------------------------------------------
(* JSON uploads.                                                           *)

Timeseries(t) == {p \in DOMAIN t : t[p].uuid # None}

(* handleJSON; an undecodable body is answered with an error. *)
ReceiveJSON(h) ==
  /\ pc[h] = "idle" /\ protocol[h] \in {"http", "tcp"}
  /\ \/ /\ \E body \in Uploads :
             /\ sent' = [sent EXCEPT ![h] = body]
             /\ tier' = [tier EXCEPT ![h] = body]
             /\ todo' = [todo EXCEPT ![h] = Timeseries(body)]
        /\ GoTo(h, "collapse")
     \/ /\ GoTo(h, "rejected")
        /\ UNCHANGED <<sent, tier, todo>>
  /\ UNCHANGED <<protocol, up, added, pools, store, chan>>

InheritTags_Overwrite(own, prefix) ==
  [k \in Keys |-> IF prefix[k] # Unset THEN prefix[k] ELSE own[k]]

InheritTags(own, prefix) ==
  [k \in Keys |-> IF own[k] # Unset THEN own[k] ELSE prefix[k]]

(* A property that the stream has is replaced by its prefix's. *)
InheritProperties(own, prefix) ==
  IF IsEmpty(prefix) THEN own
  ELSE [f \in DOMAIN own |-> IF own[f] # Unset THEN prefix[f] ELSE Unset]

Inherit(own, prefix) ==
  [uuid |-> own.uuid, md |-> InheritTags(own.md, prefix.md),
   props |-> InheritProperties(own.props, prefix.props)]

(* The message at p after each of its prefixes, nearest first. *)
After(t, p) ==
  LET prefix == Above[p]
      after[i \in 0..Len(prefix)] ==
        IF i = 0 THEN t[p]
        ELSE IF prefix[i] \in DOMAIN t THEN Inherit(after[i - 1], t[prefix[i]])
        ELSE after[i - 1]
  IN  after

Collapsed(t, p) == After(t, p)[Len(Above[p])]

(* msg.Properties is dereferenced when a prefix has Properties. *)
NilProperties(t, p) ==
  t[p].props = None /\ \E q \in Range(Above[p]) \cap DOMAIN t : ~IsEmpty(t[q].props)

(* One round of CollapseToTimeseries, in the order of a map.  A panic ends *)
(* an HTTP request, and with any other goroutine the process.              *)
CollapsePath(h) ==
  /\ pc[h] = "collapse"
  /\ \E p \in todo[h] :
       \/ /\ NilProperties(tier[h], p)
          /\ GoTo(h, "panicked")
          /\ up' = (protocol[h] = "http")
          /\ todo' = [todo EXCEPT ![h] = {}]
          /\ UNCHANGED tier
       \/ /\ ~NilProperties(tier[h], p)
          /\ tier' = [tier EXCEPT ![h][p] = Collapsed(tier[h], p)]
          /\ todo' = [todo EXCEPT ![h] = @ \ {p}]
          /\ UNCHANGED <<up, pc>>
  /\ UNCHANGED <<protocol, sent, added, pools, store, chan>>

(* Paths that are no timeseries are deleted. *)
CollapseDone(h) ==
  /\ pc[h] = "collapse" /\ todo[h] = {}
  /\ tier' = [tier EXCEPT ![h] = Restrict(@, Timeseries(@))]
  /\ todo' = [todo EXCEPT ![h] = Timeseries(tier[h])]
  /\ GoTo(h, "add")
  /\ UNCHANGED <<protocol, up, sent, added, pools, store, chan>>

-----------------------------------------------------------------------------
(* Archiver.AddData.                                                       *)

(* SaveTags sets the keys that the message has. *)
Saved(doc, m) ==
  [md    |-> [k \in Keys |-> IF m.md[k] # Unset THEN m.md[k] ELSE doc.md[k]],
   props |-> IF IsEmpty(m.props) THEN doc.props ELSE m.props]

(* A stream that has no unit of measure gets "n/a", and so does the message. *)
Defaulted(doc, m) ==
  IF doc.props.uom # Unset THEN m
  ELSE [m EXCEPT !.props = [uot |-> IF m.props = None THEN Unset ELSE m.props.uot, uom |-> NA]]

(* A reference to a message is a pooled object, or a message of its own. *)
Deref(ref) == IF ref \in Objects THEN content[ref] ELSE ref

MessageToAdd(m) == Defaulted(Saved(store[m.uuid], m), m)

(* The broker queues a reference, not a copy; a full channel drops it. *)
AddSucceeds(m, ref) ==
  /\ store' = [store EXCEPT ![m.uuid] = Saved(@, MessageToAdd(m))]
  /\ chan' = IF m.uuid \in Watched /\ Len(chan) < Cap THEN Append(chan, ref) ELSE chan

(* Nothing was saved, or the tags were and then a lookup or the saving of  *)
(* the default failed; left is the message as AddData leaves it.           *)
AddFails(m, left) ==
  /\ StoreFails
  /\ \/ store' = store /\ left = m
     \/ store' = [store EXCEPT ![m.uuid] = Saved(@, m)] /\ left \in {m, MessageToAdd(m)}
  /\ UNCHANGED chan

AddMessage_GoOn(h) ==
  /\ pc[h] = "add"
  /\ \E p \in todo[h] :
       LET m == tier[h][p] IN
         /\ \/ /\ AddSucceeds(m, MessageToAdd(m))
               /\ added' = [added EXCEPT ![h] = @ \cup {p}]
            \/ AddFails(m, m) /\ UNCHANGED added
         /\ todo' = [todo EXCEPT ![h] = @ \ {p}]
  /\ UNCHANGED <<protocol, up, pc, sent, tier, pools>>

(* One round of the loop of handleAdd, in the order of a map; the first    *)
(* error ends it, and is the answer.                                       *)
AddMessage(h) ==
  /\ pc[h] = "add"
  /\ \E p \in todo[h] :
       LET m == tier[h][p] IN
         \/ /\ AddSucceeds(m, MessageToAdd(m))
            /\ added' = [added EXCEPT ![h] = @ \cup {p}]
            /\ todo' = [todo EXCEPT ![h] = @ \ {p}]
            /\ UNCHANGED pc
         \/ /\ AddFails(m, m)
            /\ todo' = [todo EXCEPT ![h] = {}]
            /\ GoTo(h, "failed")
            /\ UNCHANGED added
  /\ UNCHANGED <<protocol, up, sent, tier, pools>>

Respond(h) ==
  /\ pc[h] = "add" /\ todo[h] = {}
  /\ GoTo(h, "ok")
  /\ UNCHANGED <<protocol, up, sent, tier, todo, added, pools, store, chan>>

-----------------------------------------------------------------------------
(* MsgPack packets.                                                        *)

(* What decode leaves in an object that held m: what the packet has        *)
(* replaces it, field by field, up to the first field that is wrong.       *)
Decoded(m, packet) ==
  LET named  == [m EXCEPT !.uuid = packet.uuid]
      tagged == IF packet.md = None THEN named ELSE [named EXCEPT !.md = packet.md]
      whole  == IF packet.props = None THEN tagged ELSE [tagged EXCEPT !.props = packet.props]
  IN  CASE packet.kind = "garbled" -> {m}
        [] packet.kind = "partial" -> {m, named, tagged}
        [] packet.kind = "whole"   -> {whole}

(* msgpool.New and bufpool.New: what has never been used. *)
NewObjects == {o \in Objects \ pooled : content[o] = Fresh /\ \A h \in Handlers : obj[h] # o}
NewBuffers == {b \in Buffers \ spare : bytes[b] = Zeros /\ \A h \in Handlers : buffer[h] # b}

(* A packet overwrites a buffer as far as it reaches. *)
Overwritten(image, packet) ==
  [uuid  |-> IF packet.ends >= 1 THEN packet.uuid ELSE image.uuid,
   md    |-> IF packet.ends >= 2 THEN packet.md ELSE image.md,
   props |-> IF packet.ends >= 3 THEN packet.props ELSE image.props]

Completed(image, packet) ==
  [packet EXCEPT !.uuid = image.uuid,
                 !.md = IF packet.md = None THEN None ELSE image.md,
                 !.props = IF packet.props = None THEN None ELSE image.props]

(* What is decoded is the whole buffer, whatever the packet's length: what *)
(* earlier packets left behind it completes a packet that was cut, if it   *)
(* has the fields and they fall into place.                                *)
AsRead(image, packet) ==
  IF ~IsCut(packet) THEN {packet}
  ELSE {[packet EXCEPT !.kind = "garbled"]}
         \cup {p \in {Completed(image, packet)} :
                 Announced(p) = Announced(packet) /\ p.uuid # None}

(* A buffer and, in decode, an object are taken from the pools, or new.    *)
(* For a packet that is no msgpack map decode returns nil, which handleAdd *)
(* dereferences.                                                           *)
ReceivePacket(h) ==
  /\ pc[h] = "idle" /\ protocol[h] = "udp"
  /\ \E packet \in Packets, o \in pooled \cup NewObjects, b \in spare \cup NewBuffers :
       LET image == Overwritten(bytes[b], packet) IN
       \E read \in AsRead(image, packet) :
         /\ sent' = [sent EXCEPT ![h] = packet]
         /\ pooled' = pooled \ {o} /\ spare' = spare \ {b}
         /\ obj' = [obj EXCEPT ![h] = IF read.kind = "garbled" THEN None ELSE o]
         /\ buffer' = [buffer EXCEPT ![h] = b]
         /\ bytes' = [bytes EXCEPT ![b] = image]
         /\ \E m \in Decoded(content[o], read) : content' = [content EXCEPT ![o] = m]
         /\ up' = (read.kind # "garbled")
         /\ GoTo(h, CASE read.kind = "whole" -> "addpacket"
                      [] read.kind = "partial" -> "put"
                      [] read.kind = "garbled" -> "panicked")
  /\ UNCHANGED <<protocol, tier, todo, added, store, chan>>

AddPacket_PutEarly(h) ==
  /\ pc[h] = "addpacket"
  /\ pooled' = pooled \cup {obj[h]}
  /\ LET m == content[obj[h]] IN
       \/ /\ AddSucceeds(m, obj[h])
          /\ content' = [content EXCEPT ![obj[h]] = MessageToAdd(m)]
       \/ \E left \in {m, MessageToAdd(m)} :
            /\ AddFails(m, left)
            /\ content' = [content EXCEPT ![obj[h]] = left]
  /\ GoTo(h, "put")
  /\ UNCHANGED <<protocol, up, sent, tier, todo, added, obj, buffer, bytes, spare>>

(* AddData fills in the object; nobody is told of its error. *)
AddPacket(h) ==
  /\ pc[h] = "addpacket"
  /\ LET m == content[obj[h]] IN
       \/ /\ AddSucceeds(m, obj[h])
          /\ content' = [content EXCEPT ![obj[h]] = MessageToAdd(m)]
       \/ \E left \in {m, MessageToAdd(m)} :
            /\ AddFails(m, left)
            /\ content' = [content EXCEPT ![obj[h]] = left]
  /\ GoTo(h, "put")
  /\ UNCHANGED <<protocol, up, sent, tier, todo, added, obj, pooled, buffer, bytes, spare>>

PutObject_Dirty(h) ==
  /\ pc[h] = "put"
  /\ pooled' = pooled \cup {obj[h]} /\ spare' = spare \cup {buffer[h]}
  /\ obj' = [obj EXCEPT ![h] = None] /\ buffer' = [buffer EXCEPT ![h] = None]
  /\ GoTo(h, "done")
  /\ UNCHANGED <<protocol, up, sent, tier, todo, added, content, bytes, store, chan>>

(* Only Metadata is reset before the object goes back, and no buffer is    *)
(* cleared. *)
PutObject(h) ==
  /\ pc[h] = "put"
  /\ content' = [content EXCEPT ![obj[h]].md = NoTags]
  /\ pooled' = pooled \cup {obj[h]} /\ spare' = spare \cup {buffer[h]}
  /\ obj' = [obj EXCEPT ![h] = None] /\ buffer' = [buffer EXCEPT ![h] = None]
  /\ GoTo(h, "done")
  /\ UNCHANGED <<protocol, up, sent, tier, todo, added, bytes, store, chan>>

(* The subscriber's adapter encodes the message it refers to. *)
Deliver ==
  /\ chan # <<>>
  /\ chan' = Tail(chan)
  /\ UNCHANGED <<protocol, up, pc, sent, tier, todo, added, pools, store>>

-----------------------------------------------------------------------------

Step(h) ==
  \/ ReceiveJSON(h) \/ CollapsePath(h) \/ CollapseDone(h) \/ AddMessage(h) \/ Respond(h)
  \/ ReceivePacket(h) \/ AddPacket(h) \/ PutObject(h)

Next == up /\ ((\E h \in Handlers : Step(h)) \/ Deliver)

Spec == Init /\ [][Next]_vars

-----------------------------------------------------------------------------
(* Properties.                                                             *)

Places == {"idle", "collapse", "add", "addpacket", "put", "ok", "failed", "rejected",
           "panicked", "done"}

(* Every variable holds what its Go type allows. *)
TypeOK ==
  /\ protocol \in Mixes /\ up \in BOOLEAN
  /\ pc \in [Handlers -> Places]
  /\ sent \in [Handlers -> {None} \cup Uploads \cup Packets]
  /\ \A h \in Handlers : DOMAIN tier[h] \subseteq Paths /\ Range(tier[h]) \subseteq Messages
  /\ todo \in [Handlers -> SUBSET Paths]
  /\ added \in [Handlers -> SUBSET Paths]
  /\ obj \in [Handlers -> Objects \cup {None}]
  /\ content \in [Objects -> Messages]
  /\ pooled \in SUBSET Objects
  /\ buffer \in [Handlers -> Buffers \cup {None}]
  /\ bytes \in [Buffers -> Images]
  /\ spare \in SUBSET Buffers
  /\ store \in [UUIDs -> [md : Dicts, props : Properties]]
  /\ Len(chan) <= Cap /\ \A i \in DOMAIN chan : Deref(chan[i]) \in Messages

(* The tags that path p of upload t has itself or inherits, by definition: *)
(* for each key, the value at the nearest path that has one.               *)
Nearest(t, p) ==
  [k \in Keys |->
     LET chain == <<p>> \o Above[p]
         Has(q) == q \in DOMAIN t /\ t[q].md[k] # Unset
         i == SelectInSeq(chain, Has)
     IN  IF i = 0 THEN Unset ELSE t[chain[i]].md[k]]

Uploading(h) == protocol[h] # "udp" /\ pc[h] \in {"add", "ok", "failed"}

(* common/message.go:298-299: whatever the order of the map and whichever  *)
(* prefixes have been collapsed before, a stream keeps its own tags and    *)
(* takes the others from its nearest prefix that has them.                 *)
NearestWins ==
  \A h \in Handlers : Uploading(h) =>
    \A p \in Timeseries(sent[h]) : tier[h][p].md = Nearest(sent[h], p)

(* common/message.go:274-275: inheritance goes from the root towards the   *)
(* leaves.  CollapseToTimeseries changes the map it ranges over, and       *)
(* prefixes that are streams change before or after those below them: the  *)
(* result is nevertheless that of collapsing each path as it was sent.     *)
OrderDoesNotMatter ==
  \A h \in Handlers : Uploading(h) =>
    tier[h] = [p \in Timeseries(sent[h]) |-> Collapsed(sent[h], p)]

(* http/handlers.go:170-178, tcpjson/handlers.go:110-117: an upload is     *)
(* answered with success (over TCP: its connection stays open) only when   *)
(* all its streams have been added, and with an error only when one has    *)
(* not, though the others may have been.                                   *)
AnswerIsTrue ==
  \A h \in Handlers :
    /\ pc[h] = "ok" => added[h] = Timeseries(sent[h])
    /\ pc[h] = "failed" => added[h] # Timeseries(sent[h])

(* Tags that handler h was sent for stream u. *)
TagsSent(h, u, k) ==
  IF protocol[h] = "udp"
    THEN IF sent[h].uuid = u /\ sent[h].md # None THEN {sent[h].md[k]} ELSE {}
    ELSE {Nearest(sent[h], p)[k] : p \in {q \in Timeseries(sent[h]) : sent[h][q].uuid = u}}

(* A packet was cut short that may have been taken for one of stream u. *)
CutFor(h, u) == protocol[h] = "udp" /\ IsCut(sent[h]) /\ (sent[h].ends = 0 \/ sent[h].uuid = u)

(* No stream ever gets a tag that was not sent for it, though MsgPack      *)
(* packets of different streams share message objects: unless a packet of  *)
(* it was cut short, which its buffer may complete with another's tags.    *)
NoForeignTags ==
  \A u \in UUIDs, k \in Keys :
    store[u].md[k] # Unset =>
      \E h \in Handlers :
        sent[h] # None /\ (store[u].md[k] \in TagsSent(h, u, k) \/ CutFor(h, u))

(* plugins/msgpack/handlers.go:4-10: a valid packet is a map of paths and  *)
(* messages that have their own metadata: no tags but those sent for it    *)
(* are saved for a stream, nor from a packet that is not such a map.       *)
EveryTagWasSent ==
  \A u \in UUIDs, k \in Keys :
    store[u].md[k] # Unset =>
      \E h \in Handlers : sent[h] # None /\ store[u].md[k] \in TagsSent(h, u, k)

(* An object or a buffer belongs to one packet at a time, and is not in    *)
(* its pool while a packet has it.                                         *)
ObjectsAreExclusive ==
  \A g \in Handlers :
    /\ obj[g] # None => obj[g] \notin pooled /\ \A h \in Handlers \ {g} : obj[h] # obj[g]
    /\ buffer[g] # None =>
         buffer[g] \notin spare /\ \A h \in Handlers \ {g} : buffer[h] # buffer[g]

(* cqbs.go:335-336: a message is sent to the clients subscribed to its     *)
(* stream; what a client's channel refers to is still such a message when  *)
(* the adapter reads it.                                                   *)
ForwardedIsWatched == \A i \in DOMAIN chan : Deref(chan[i]).uuid \in Watched

(* A stream's properties are those sent for it, or the default. *)
NoForeignProperties ==
  \A u \in UUIDs :
    store[u].props.uot # Unset =>
      \E h \in Handlers :
        /\ sent[h] # None
        /\ IF protocol[h] = "udp"
             THEN sent[h].uuid = u /\ ~IsEmpty(sent[h].props)
             ELSE \E p \in Timeseries(sent[h]) : sent[h][p].uuid = u

(* common/message.go:298: keys from higher up are applied if the stream    *)
(* does not have the key already.                                          *)
OwnUnitIsKept ==
  \A h \in Handlers : Uploading(h) =>
    \A p \in Timeseries(sent[h]) :
      ~IsEmpty(sent[h][p].props) /\ sent[h][p].props.uot # Unset =>
        tier[h][p].props.uot = sent[h][p].props.uot

=============================================================================
