----------------------------- MODULE MCDispatcher -----------------------------
(***************************************************************************)
(* TLC instances of Dispatcher.  Two handler tables: the shipped one        *)
(* (cmd/server/main.go), cut down to one type per kind of handler, and one  *)
(* whose transcode container buffers sub-jobs, as the dispatcher supports.  *)
(***************************************************************************)
EXTENDS Dispatcher

Scan      == "collection_scan"
ScanItem  == "scan_photo"
Container == "video_transcode"
Integrity == "integrity_check"
TransItem == "video_transcode_item"

MCType         == {Scan, ScanItem, Container, Integrity, TransItem}
MCHandlerOrder == <<Scan, ScanItem, Container, TransItem, Integrity>>
MCSupports     == {Scan, Container}

\* A rescan may find nothing to do; the shipped container never buffers.
MCEmits ==
  [t \in MCType |-> IF t = Scan THEN {<<>>, <<ScanItem, ScanItem>>} ELSE {<<>>}]
GenericEmits ==
  [t \in MCType |-> CASE t = Scan      -> {<<>>, <<ScanItem>>}
                      [] t = Container -> {<<TransItem, TransItem>>}
                      [] OTHER         -> {<<>>}]

Of(t, r)          == [type |-> t, related |-> r]
ScanRequests      == {Of(Scan, "c1")}
MixedRequests     == {Of(Scan, "c1"), Of(Integrity, "null")}
GenericRequests   == {Of(Scan, "c1"), Of(Container, "null")}
ClientSymmetry    == Permutations(Clients)
ItemRequeues      == {Of(TransItem, "i1")}
=============================================================================
