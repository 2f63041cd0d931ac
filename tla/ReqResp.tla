------------------------------ MODULE ReqResp -------------------------------
(***************************************************************************)
(* The request/response codec (networking/src/req_resp.rs): what a request *)
(* or a response becomes on the wire and what the other side, another node *)
(* of this program, makes of it.  A byte string is a sequence of units; a  *)
(* root takes RootLen of them and a Status, which is two and a half roots  *)
(* (80 bytes against 32), StatusLen.  Snappy framing is lossless and maps  *)
(* the empty string to the empty string, so it is left out.                *)
(***************************************************************************)
EXTENDS Naturals, SequencesExt

CONSTANTS
    RootBytes,          \* roots, each a sequence of RootLen units
    RootLen,
    StatusLen,
    BlockBytes,         \* encoded blocks, nonempty and of different lengths
    MAX_REQUEST_BLOCKS

ASSUME CodecAssumption ==
    /\ RootLen \in Nat \ {0}
    /\ MAX_REQUEST_BLOCKS \in Nat \ {0}
    /\ \A r \in RootBytes : Len(r) = RootLen
    /\ \A n \in 1..MAX_REQUEST_BLOCKS : n * RootLen # StatusLen
    /\ \A b \in BlockBytes : b # <<>>

Protocol == {"status", "blocks_by_root"}

Error == [kind |-> "error"]
Empty == [kind |-> "empty"]
StatusRequest(bytes) == [kind |-> "status_request", bytes |-> bytes]
BlocksByRootRequest(roots) == [kind |-> "roots_request", roots |-> roots]
StatusResponse(bytes) == [kind |-> "status_response", bytes |-> bytes]
BlocksByRootResponse(blocks) == [kind |-> "blocks_response", blocks |-> blocks]

\* Status::default() in SSZ.
DefaultStatus == [i \in 1..StatusLen |-> 0]

-----------------------------------------------------------------------------
(* Requests.                                                               *)

\* send_blocks_by_root_request sends nothing for no roots, nor for too many.
Sendable(roots) == roots # <<>> /\ Len(roots) <= MAX_REQUEST_BLOCKS

encode_request(request) ==
    IF request.kind = "status_request" THEN request.bytes ELSE FlattenSeq(request.roots)

\* ssz_bytes.chunks(32), of which a short last one is ignored.
Chunks(bytes) ==
    [i \in 1..(Len(bytes) \div RootLen) |->
        SubSeq(bytes, (i - 1) * RootLen + 1, i * RootLen)]

\* Mutant: the limit itself is refused.
decode_request_Limit(proto, data) ==
    CASE data = <<>> -> StatusRequest(DefaultStatus)
      [] data # <<>> /\ proto = "status" ->
            IF Len(data) = StatusLen THEN StatusRequest(data) ELSE Error
      [] data # <<>> /\ proto = "blocks_by_root" ->
            IF Len(Chunks(data)) >= MAX_REQUEST_BLOCKS THEN Error
            ELSE BlocksByRootRequest(Chunks(data))

decode_request(proto, data) ==
    CASE data = <<>> -> StatusRequest(DefaultStatus)
      [] data # <<>> /\ proto = "status" ->
            IF Len(data) = StatusLen THEN StatusRequest(data) ELSE Error
      [] data # <<>> /\ proto = "blocks_by_root" ->
            IF Len(Chunks(data)) > MAX_REQUEST_BLOCKS THEN Error
            ELSE BlocksByRootRequest(Chunks(data))

-----------------------------------------------------------------------------
(* Responses.                                                              *)

encode_response(response) ==
    CASE response.kind = "status_response" -> response.bytes
      [] response.kind = "blocks_response" -> FlattenSeq(response.blocks)
      [] response.kind = "empty" -> <<>>

\* What SSZ makes of a byte string that should be one block: the block it
\* encodes, or, for any other, an error or some block that was not sent
\* (bytes after the end are taken into the last list of variable length).
DecodeBlock(data) ==
    IF data \in BlockBytes THEN {BlocksByRootResponse(<<data>>)}
    ELSE {Error, BlocksByRootResponse(<<data>>)}

\* The set of what may come out.
decode_response(proto, data) ==
    CASE data = <<>> -> {Empty}
      [] data # <<>> /\ proto = "status" ->
            {IF Len(data) = StatusLen THEN StatusResponse(data) ELSE Error}
      [] data # <<>> /\ proto = "blocks_by_root" -> DecodeBlock(data)
=============================================================================
