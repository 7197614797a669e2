------------------------------- MODULE Bindings -------------------------------
(***************************************************************************)
(* The list of bound devices of an endpoint, kept by walks over the stack's *)
(* binding table: ZigbeeCore::searchBindings and bindingTableCb in          *)
(* main/zigbee/core.cpp, and ZigbeeDevice's list in main/zigbee/endpoint.*. *)
(*                                                                         *)
(* A walk asks for the table chunk by chunk.  Walks overlap: each bind or   *)
(* unbind request starts one, and all of them collect into the same two     *)
(* statics.  The callback that gets the last chunk compares, removes, frees *)
(* and adds; it runs to its end in the Zigbee task, and is split here into  *)
(* its removals and additions because each of them walks a list of pointers *)
(* whose memory an earlier one may have freed.                              *)
(*                                                                         *)
(* The stack's table is external: it changes at any time between chunks.    *)
(* The heap is a set of cells.  Memory that is free holds no address any    *)
(* longer (the allocator keeps its links there); to take it from the list   *)
(* is an error from which no behaviour is modelled (corrupt).               *)
(***************************************************************************)
EXTENDS Integers, Sequences, FiniteSets, Functions

CONSTANTS
    Cells,      \* the heap, as far as bound devices may have it
    Walks,      \* the requests that may be under way
    Endpoint,   \* the one endpoint registered
    Sources,    \* endpoints of this device a record may name
    Remotes,    \* endpoints of other devices
    Long,       \* IEEE addresses
    Short,      \* 16-bit addresses
    Chunk,      \* records the stack puts into an answer
    Broadcast,  \* 0xFFFF: no short address
    Zero,       \* the IEEE address of zeros: no long address
    Free, None

Address == Long \cup Short

ASSUME BindingsAssumption ==
    /\ Chunk \in Nat \ {0}
    /\ Endpoint \in Sources
    /\ Long \cap Short = {}
    /\ Broadcast \notin Address /\ Zero \notin Address

Record == [source : Sources, remote : Remotes, address : Address]
Device == [endpoint : Remotes, short : Short \cup {Broadcast},
           long : Long \cup {Zero}]

\* A DeviceIdentifier: our endpoint and one of the two addresses.
Identifier == Sources \X Address

ASSUME HeapAssumption == Free \notin Device /\ None \notin Nat /\ None \notin Walks

VARIABLES
    table,      \* the stack's binding table
    reqs,       \* walk -> start index of its request, or None
    found,      \* found_devices
    records,    \* all_records
    bound,      \* _bound_devices: a list of cells
    isBound,    \* _is_bound
    heap,       \* cell -> device, or Free
    walk,       \* the walk whose last answer is being processed, or None
    snap,       \* bound_devices: the copy of the list it compares with
    doomed,     \* what is left of devices_to_remove: places in that copy
    todo,       \* what is left to add: places in all_records
    corrupt,    \* a list entry was read after it had been freed
    leaked,     \* history: cells nothing points to any more
    judged,     \* history: found_devices when the last walk compared
    clean       \* history: and that walk removed nothing and had memory

statics == <<found, records>>
list    == <<bound, isBound>>
pass    == <<walk, snap, doomed, todo>>
history == <<leaked, judged, clean>>
vars == <<table, reqs, statics, list, heap, pass, corrupt, history>>

Init ==
    /\ table = <<>> /\ reqs = [w \in Walks |-> None]
    /\ found = {} /\ records = <<>>
    /\ bound = <<>> /\ isBound = FALSE /\ heap = [c \in Cells |-> Free]
    /\ walk = None /\ snap = <<>> /\ doomed = {} /\ todo = {}
    /\ corrupt = FALSE /\ leaked = {} /\ judged = {} /\ clean = TRUE

-----------------------------------------------------------------------------
(* The stack *)

TableChanges ==
    /\ \/ \E r \in Record : table' = Append(table, r)
       \/ \E i \in DOMAIN table :
             table' = SubSeq(table, 1, i - 1) \o SubSeq(table, i + 1, Len(table))
    /\ UNCHANGED <<reqs, statics, list, heap, pass, corrupt, history>>

\* No callback of the Zigbee task is half done.
Idle == walk = None /\ ~corrupt

\* A walk that gets its first answer starts the collection anew.
SearchBindings(w) ==
    /\ Idle /\ reqs[w] = None
    /\ reqs' = [reqs EXCEPT ![w] = 0]
    /\ UNCHANGED <<table, statics, list, heap, pass, corrupt, history>>

-----------------------------------------------------------------------------
(* bindingTableCb *)

Ours(r) == r.source = Endpoint

\* Mutation: whichever endpoint the record is for.
StillBoundAnywhere(d, ids) ==
    \E s \in Sources : <<s, d.short>> \in ids \/ <<s, d.long>> \in ids

\* An entry is still bound if either of its addresses was found.
StillBound(d, ids) ==
    \/ d.short # Broadcast /\ <<Endpoint, d.short>> \in ids
    \/ <<Endpoint, d.long>> \in ids

\* Status other than success.
RequestFails(w) ==
    /\ Idle /\ reqs[w] # None
    /\ reqs' = [reqs EXCEPT ![w] = None]
    /\ UNCHANGED <<table, statics, list, heap, pass, corrupt, history>>

\* An empty table clears the list; nobody frees the devices.
EmptyTable(w) ==
    /\ Idle /\ reqs[w] # None /\ table = <<>>
    /\ reqs' = [reqs EXCEPT ![w] = None]
    /\ bound' = <<>> /\ isBound' = FALSE
    /\ leaked' = leaked \cup Range(bound) /\ judged' = {} /\ clean' = TRUE
    /\ UNCHANGED <<table, statics, heap, pass, corrupt>>

\* What an answer to a request from index i holds: at least a record, unless
\* the table has shrunk below i.
Counts(i) == IF i >= Len(table) THEN {0} ELSE 1 .. Chunk \cap 1 .. Len(table) - i

\* The chunk of n records from index i joins the collection; the first chunk of
\* any walk clears it.
Collect(i, n) ==
    records' = (IF i = 0 THEN <<>> ELSE records) \o SubSeq(table, i + 1, i + n)

\* Mutation: the next request starts where this one did.
NextChunkAgain(w) ==
    /\ Idle /\ reqs[w] # None /\ table # <<>>
    /\ \E n \in Counts(reqs[w]) :
          /\ reqs[w] + n < Len(table)
          /\ Collect(reqs[w], n)
          /\ found' = IF reqs[w] = 0 THEN {} ELSE found
    /\ UNCHANGED <<table, reqs, list, heap, pass, corrupt, history>>

NextChunk(w) ==
    /\ Idle /\ reqs[w] # None /\ table # <<>>
    /\ \E n \in Counts(reqs[w]) :
          /\ reqs[w] + n < Len(table)
          /\ Collect(reqs[w], n)
          /\ found' = IF reqs[w] = 0 THEN {} ELSE found
          /\ reqs' = [reqs EXCEPT ![w] = @ + n]
    /\ UNCHANGED <<table, list, heap, pass, corrupt, history>>

\* The last chunk: note what was found, copy the list, choose what to remove.
LastChunk(w) ==
    /\ Idle /\ reqs[w] # None /\ table # <<>>
    /\ \E n \in Counts(reqs[w]) :
          reqs[w] + n >= Len(table) /\ Collect(reqs[w], n)
    /\ found' = (IF reqs[w] = 0 THEN {} ELSE found)
                   \cup {<<r.source, r.address>> : r \in Range(records')}
    /\ snap' = bound /\ todo' = {j \in DOMAIN records' : Ours(records'[j])}
    /\ IF \E c \in Range(bound) : heap[c] = Free
         THEN corrupt' = TRUE /\ doomed' = {} /\ walk' = None
         ELSE /\ doomed' = {k \in DOMAIN bound : ~StillBound(heap[bound[k]], found')}
              /\ walk' = w /\ UNCHANGED corrupt
    /\ judged' = found' /\ clean' = (doomed' = {})
    /\ UNCHANGED <<table, reqs, list, heap, leaked>>

\* removeBoundDevice takes an entry for the device if the endpoint and one of
\* the addresses are the same.
Matches(e, d) ==
    /\ e.endpoint = d.endpoint
    /\ (d.short # Broadcast /\ e.short = d.short) \/ e.long = d.long

\* The entry at which removeBoundDevice(c) ends its search: a match, or memory
\* that is no longer a device.
Ends(c) == {i \in DOMAIN bound : \/ heap[bound[i]] = Free
                                 \/ Matches(heap[bound[i]], heap[c])}

IsFirst(i, S) == i \in S /\ \A j \in S : i <= j

\* The list without its i-th entry.
Without(i) == SubSeq(bound, 1, i - 1) \o SubSeq(bound, i + 1, Len(bound))

\* Mutation: the entry goes, its memory stays.
RemoveKeepsMemory ==
    /\ walk # None /\ ~corrupt
    /\ \E k \in doomed, i \in DOMAIN bound :
          /\ IsFirst(k, doomed) /\ IsFirst(i, Ends(snap[k]))
          /\ doomed' = doomed \ {k}
          /\ bound' = Without(i) /\ isBound' = (bound' # <<>>)
    /\ UNCHANGED <<heap, corrupt, leaked, table, reqs, statics, walk, snap,
                   todo, judged, clean>>

\* removeBoundDevice, then free, for the next of devices_to_remove.  The entry
\* erased is the first match, the memory freed is the device's own.
Remove ==
    /\ walk # None /\ ~corrupt
    /\ \E k \in doomed, i \in DOMAIN bound :
          /\ IsFirst(k, doomed) /\ IsFirst(i, Ends(snap[k]))
          /\ doomed' = doomed \ {k}
          /\ IF heap[bound[i]] = Free
               THEN corrupt' = TRUE /\ UNCHANGED <<list, heap, leaked>>
               ELSE /\ bound' = Without(i) /\ isBound' = (bound' # <<>>)
                    /\ heap' = [heap EXCEPT ![snap[k]] = Free]
                    /\ leaked' = IF bound[i] = snap[k] THEN leaked
                                 ELSE leaked \cup {bound[i]}
                    /\ UNCHANGED corrupt
    /\ UNCHANGED <<table, reqs, statics, walk, snap, todo, judged, clean>>

DeviceOf(r) ==
    [endpoint |-> r.remote,
     short |-> IF r.address \in Long THEN Broadcast ELSE r.address,
     long |-> IF r.address \in Long THEN r.address ELSE Zero]

\* The record's address is that of device e.
HasAddress(e, r) ==
    IF r.address \in Long THEN e.long = r.address ELSE e.short = r.address

\* Mutation: the entries are compared by the remote endpoint.
ExistsByEndpoint(r, h) ==
    \E c \in Range(snap) : h[c] # Free /\ h[c].endpoint = r.remote

\* The check whether the device exists reads the copy of the list, and the
\* heap h in which the new device already has its cell: if that is a cell a
\* removal has just freed, the copy points to the new device itself.
Exists(r, h) == \E c \in Range(snap) : h[c] # Free /\ HasAddress(h[c], r)

\* Mutation: devices are added while others are still to be removed.
AddEarly ==
    /\ walk # None /\ ~corrupt
    /\ \E j \in todo, c \in Cells :
          LET filled == [heap EXCEPT ![c] = DeviceOf(records[j])] IN
          /\ IsFirst(j, todo) /\ heap[c] = Free
          /\ todo' = todo \ {j}
          /\ IF Exists(records[j], filled)
               THEN UNCHANGED <<heap, list>>
               ELSE heap' = filled /\ bound' = Append(bound, c) /\ isBound' = TRUE
    /\ UNCHANGED <<table, reqs, statics, walk, snap, doomed, corrupt, history>>

\* The next record: calloc, fill, check, then add the device or free it.
Add ==
    /\ walk # None /\ ~corrupt /\ doomed = {}
    /\ \E j \in todo, c \in Cells :
          LET filled == [heap EXCEPT ![c] = DeviceOf(records[j])] IN
          /\ IsFirst(j, todo) /\ heap[c] = Free
          /\ todo' = todo \ {j}
          /\ IF Exists(records[j], filled)
               THEN UNCHANGED <<heap, list>>
               ELSE heap' = filled /\ bound' = Append(bound, c) /\ isBound' = TRUE
    /\ UNCHANGED <<table, reqs, statics, walk, snap, doomed, corrupt, history>>

\* calloc fails: the record is skipped.
AddFails ==
    /\ walk # None /\ ~corrupt /\ doomed = {}
    /\ \A c \in Cells : heap[c] # Free
    /\ \E j \in todo : IsFirst(j, todo) /\ todo' = todo \ {j}
    /\ clean' = FALSE
    /\ UNCHANGED <<table, reqs, statics, list, heap, walk, snap, doomed,
                   corrupt, leaked, judged>>

\* The callback ends by freeing its request.
Finish ==
    /\ walk # None /\ ~corrupt /\ doomed = {} /\ todo = {}
    /\ reqs' = [reqs EXCEPT ![walk] = None]
    /\ walk' = None /\ snap' = <<>>
    /\ UNCHANGED <<table, statics, list, heap, doomed, todo, corrupt, history>>

Answer(w) == RequestFails(w) \/ EmptyTable(w) \/ NextChunk(w) \/ LastChunk(w)

Callback == Remove \/ Add \/ AddFails \/ Finish

Next ==
    \/ TableChanges
    \/ \E w \in Walks : SearchBindings(w) \/ Answer(w)
    \/ Callback

Spec == Init /\ [][Next]_vars

\* The stack answers every request, and the callback runs to its end.
Fairness == WF_vars(Callback) /\ \A w \in Walks : WF_vars(Answer(w))

-----------------------------------------------------------------------------
(* Properties *)

TypeOK ==
    /\ table \in Seq(Record) /\ reqs \in [Walks -> Nat \cup {None}]
    /\ found \subseteq Identifier /\ records \in Seq(Record)
    /\ bound \in Seq(Cells) /\ isBound \in BOOLEAN
    /\ heap \in [Cells -> Device \cup {Free}]
    /\ walk \in Walks \cup {None} /\ snap \in Seq(Cells)
    /\ doomed \subseteq DOMAIN snap /\ todo \subseteq DOMAIN records
    /\ corrupt \in BOOLEAN
    /\ leaked \subseteq Cells /\ judged \subseteq Identifier /\ clean \in BOOLEAN

\* Every device on the list is allocated, once; whatever is allocated is on the
\* list or was leaked; and what the callback still has to remove is there.
HeapInv ==
    /\ ~corrupt
    /\ \A i, j \in DOMAIN bound : bound[i] = bound[j] => i = j
    /\ \A k \in doomed : snap[k] \in Range(bound)
    /\ leaked \cap Range(bound) = {}
    /\ \A c \in Cells : heap[c] # Free <=> c \in Range(bound) \cup leaked

\* The list, its flag and the heap agree at every step of every walk, however
\* walks overlap and whatever the table does between their chunks.  This holds
\* as long as every destination is an IEEE address.
BindingsInv == TypeOK /\ HeapInv /\ (isBound <=> bound # <<>>)

\* Between callbacks every entry of the list was found in the table by the
\* walk that last compared ("Remove devices that are no longer in the binding
\* table", core.cpp:248).  True with IEEE destinations, false with groups,
\* whose entries all have the same IEEE address of zeros.
NothingStale ==
    Idle => \A c \in Range(bound) :
               /\ heap[c] # Free
               /\ {<<Endpoint, heap[c].long>>, <<Endpoint, heap[c].short>>}
                    \cap judged # {}

\* A walk that removed nothing binds every address it found, in whatever
\* chunks and among whatever other walks it collected them.
AllBound ==
    Idle /\ clean =>
        \A id \in judged : id[1] = Endpoint =>
            \E c \in Range(bound) : heap[c].long = id[2] \/ heap[c].short = id[2]

\* False: so does every walk ("Now add new devices from the binding table",
\* core.cpp:254).
NewDevicesAdded ==
    Idle =>
        \A id \in judged : id[1] = Endpoint =>
            \E c \in Range(bound) : heap[c].long = id[2] \/ heap[c].short = id[2]

-----------------------------------------------------------------------------
(* What the list promises: Members, with the addresses of its entries, and   *)
(* the callback that got a last chunk as the pass.                           *)

Listed == {heap[c].long : c \in Range(bound)}

Wanted == {id[2] : id \in {i \in judged : i[1] = Endpoint}}

Promise == INSTANCE Members WITH
    Addresses <- Address, members <- Listed, passing <- walk # None,
    wanted <- Wanted, sure <- clean

\* However walks overlap and the table changes, a device that the walk found
\* again is not off the list even for a moment: what goes are "devices that are
\* no longer in the binding table" (core.cpp:248), what comes was found.  With
\* IEEE destinations, as above.
KeepsMembers == Promise!Spec

-----------------------------------------------------------------------------
(* How much the walks have left to do. *)

\* What the callback has left: removals, additions, and to end.
PassLeft == Cardinality(doomed) + Cardinality(todo) + IF walk = None THEN 0 ELSE 1

\* The walks that have not had their last answer, and what each has ahead.
Asking == {w \in Walks : reqs[w] # None /\ w # walk}
Ahead(w) == IF reqs[w] < Len(table) THEN Len(table) - reqs[w] ELSE 0

\* Every step of the callback leaves it less to do and no walk more; every answer
\* is its walk's last or leaves it less of the table, and other walks as they
\* were.  So walks cannot keep each other going: only the table's changes can.
WalksAdvance ==
    [][/\ Callback => /\ PassLeft' < PassLeft /\ Asking' = Asking
                      /\ \A v \in Asking : Ahead(v)' = Ahead(v)
       /\ \A w \in Walks : Answer(w) =>
             \/ w \in Asking /\ Asking' = Asking \ {w}
             \/ /\ Asking' = Asking
                /\ \A v \in Asking : IF v = w THEN Ahead(v)' < Ahead(v)
                                              ELSE Ahead(v)' = Ahead(v)]_vars

\* Until its walk ends the callback has something to do, and can: a removal
\* finds an entry to erase before the memory is freed (core.cpp:249-252), which
\* is not checked.
NeverStuck ==
    walk # None =>
        IF doomed # {}
          THEN \E k \in doomed, i \in DOMAIN bound :
                  /\ IsFirst(k, doomed) /\ IsFirst(i, Ends(snap[k]))
                  /\ heap[bound[i]] # Free
          ELSE todo = {} \/ \E j \in todo : IsFirst(j, todo)

\* Every walk ends, and its request is freed, while the table rests.
WalksEnd == \A w \in Walks : reqs[w] # None ~> reqs[w] = None
=============================================================================
