------------------------------ MODULE RpcWire ------------------------------
(***************************************************************************)
(* The messages of the two services and their form on the wire: what the   *)
(* generated code of raftBase.proto, kvServerBase.proto and                *)
(* rpcHeader.proto reads and writes.  A message is a record.  On the wire  *)
(* it is a sequence of tagged values: a tag holds the number of a field    *)
(* and the wire type of its value, never the name of the field or of the   *)
(* message, so a reader of another type takes whatever numbers and wire    *)
(* types it shares with the writer.                                        *)
(*                                                                         *)
(* Bytes are strings and are not looked into; numbers keep their value     *)
(* (the model never leaves the range of int32).                            *)
(***************************************************************************)
EXTENDS Integers, Sequences

(* The values of the two enumerations, as numbers.                         *)
netState == [DISCONNECTED |-> 0, CONNECTED |-> 1]
voteState == [KILLED |-> 0, VOTED |-> 1, EXPIRE |-> 2, NORMAL |-> 3]

-----------------------------------------------------------------------------
(* The messages: the fields their accessors read and set.                  *)

logEntry == [command : STRING, term : Int, index : Int]
appendEntriesArgs ==
  [term : Int, leader_id : Int, prev_log_index : Int, prev_log_term : Int,
   entries : Seq(logEntry), leader_commit : Int]
appendEntriesReply ==
  [term : Int, success : BOOLEAN, update_next_index : Int, state : Int]
requestVoteArgs ==
  [term : Int, candidate_id : Int, last_log_index : Int, last_log_term : Int]
requestVoteReply == [term : Int, vote_granted : BOOLEAN, state : Int]
installSnapshotArgs ==
  [leader_id : Int, term : Int, last_index : Int, last_term : Int,
   data : STRING]
installSnapshotReply == [term : Int]
getArgs == [key : STRING, clientId : STRING, requestId : Int]
getReply == [err : STRING, value : STRING]
putArgs == [key : STRING, value : STRING, clientId : STRING, requestId : Int]
putReply == [err : STRING]
rpcHeader == [service_name : STRING, method_name : STRING, args_size : Int]

-----------------------------------------------------------------------------
(* The fields of each message in the order they are written.               *)

Field(num, name, type) == [num |-> num, name |-> name, type |-> type]

LogEntryFields ==
  <<Field(1, "command", "bytes"), Field(2, "term", "int32"),
    Field(3, "index", "int32")>>
AppendEntriesArgsFields ==
  <<Field(1, "term", "int32"), Field(2, "leader_id", "int32"),
    Field(3, "prev_log_index", "int32"), Field(4, "prev_log_term", "int32"),
    Field(5, "entries", "logEntries"), Field(6, "leader_commit", "int32")>>
AppendEntriesReplyFields ==
  <<Field(1, "term", "int32"), Field(2, "success", "bool"),
    Field(3, "update_next_index", "int32"), Field(4, "state", "int32")>>
RequestVoteArgsFields ==
  <<Field(1, "term", "int32"), Field(2, "candidate_id", "int32"),
    Field(3, "last_log_index", "int32"), Field(4, "last_log_term", "int32")>>
RequestVoteReplyFields ==
  <<Field(1, "term", "int32"), Field(2, "vote_granted", "bool"),
    Field(3, "state", "int32")>>
InstallSnapshotArgsFields ==
  <<Field(1, "leader_id", "int32"), Field(2, "term", "int32"),
    Field(3, "last_index", "int32"), Field(4, "last_term", "int32"),
    Field(5, "data", "bytes")>>
InstallSnapshotReplyFields == <<Field(1, "term", "int32")>>
GetArgsFields ==
  <<Field(1, "key", "bytes"), Field(2, "clientId", "bytes"),
    Field(3, "requestId", "int32")>>
GetReplyFields == <<Field(1, "err", "bytes"), Field(2, "value", "bytes")>>
PutArgsFieldsRenumbered ==   \* a mutant: two fields have number 2
  <<Field(1, "key", "bytes"), Field(2, "value", "bytes"),
    Field(2, "clientId", "bytes"), Field(3, "requestId", "int32")>>
PutArgsFields ==
  <<Field(1, "key", "bytes"), Field(2, "value", "bytes"),
    Field(4, "clientId", "bytes"), Field(5, "requestId", "int32")>>
PutReplyFields == <<Field(1, "err", "bytes")>>
RpcHeaderFields ==
  <<Field(1, "service_name", "bytes"), Field(2, "method_name", "bytes"),
    Field(3, "args_size", "int32")>>

-----------------------------------------------------------------------------
(* The default of a type, which is not written.                            *)
Default(type) ==
  CASE type = "int32" -> 0
    [] type = "bool" -> FALSE
    [] type = "bytes" -> ""
    [] type = "logEntries" -> <<>>

(* 0: a varint (numbers, enumerations and booleans); 2: delimited by a     *)
(* length (bytes and messages).                                            *)
WireType(type) == IF type \in {"int32", "bool"} THEN 0 ELSE 2

Varint(b) == IF b THEN 1 ELSE 0

(* SerializeToString of a message without fields that are messages.        *)
SerializeFlat(fields, msg) ==
  LET Set(f) == msg[f.name] # Default(f.type)
      Write(f) ==
        [num |-> f.num, wt |-> WireType(f.type),
         val |-> IF f.type = "bool" THEN Varint(msg[f.name])
                                    ELSE msg[f.name]]
      present == SelectSeq(fields, Set)
  IN  [k \in DOMAIN present |-> Write(present[k])]

(* ParseFromArray of such a message: it is cleared; then every tagged       *)
(* value whose number and wire type are those of a field sets that field,  *)
(* the last one remains, and the others are put aside.                     *)
ParseFlat(fields, wire) ==
  LET names == {fields[k].name : k \in DOMAIN fields}
      Value(f) ==
        LET hits == {k \in DOMAIN wire :
                       wire[k].num = f.num /\ wire[k].wt = WireType(f.type)}
            last == CHOOSE k \in hits : \A j \in hits : j <= k
        IN  CASE hits = {} -> Default(f.type)
              [] hits # {} /\ f.type = "bool" -> wire[last].val # 0
              [] OTHER -> wire[last].val
  IN  [name \in names |->
         Value(fields[CHOOSE k \in DOMAIN fields : fields[k].name = name])]

(* appendEntriesArgs holds messages: the entries are written between       *)
(* prev_log_term and leader_commit, one tagged value each.                 *)
SerializeAppendEntries(args) ==
  LET flat == SerializeFlat(SubSeq(AppendEntriesArgsFields, 1, 4), args)
      last == SerializeFlat(SubSeq(AppendEntriesArgsFields, 6, 6), args)
      one(k) == [num |-> 5, wt |-> 2,
                 val |-> SerializeFlat(LogEntryFields, args.entries[k])]
  IN  flat \o [k \in DOMAIN args.entries |-> one(k)] \o last

ParseAppendEntries(wire) ==
  LET isEntry(w) == w.num = 5 /\ w.wt = 2
      entries == SelectSeq(wire, isEntry)
      rest == SelectSeq(wire, LAMBDA w : ~ isEntry(w))
  IN  [ParseFlat(AppendEntriesArgsFields, rest) EXCEPT !.entries =
         [k \in DOMAIN entries |-> ParseFlat(LogEntryFields, entries[k].val)]]

-----------------------------------------------------------------------------
(* The methods of the services: which messages they exchange.              *)

raftBaseMethods == {"appendEntries", "installSnapshot", "requestVote"}
kvServerBaseMethods == {"put", "get"}
Method == raftBaseMethods \cup kvServerBaseMethods
ServiceOf(m) == IF m \in raftBaseMethods THEN "raftBase" ELSE "kvServerBase"

raftBaseRequest ==
  [appendEntries |-> AppendEntriesArgsFields,
   installSnapshot |-> InstallSnapshotArgsFields,
   requestVote |-> RequestVoteArgsFields]
raftBaseResponse ==
  [appendEntries |-> AppendEntriesReplyFields,
   installSnapshot |-> InstallSnapshotReplyFields,
   requestVote |-> RequestVoteReplyFields]
kvServerBaseRequest == [put |-> PutArgsFields, get |-> GetArgsFields]
kvServerBaseResponse == [put |-> PutReplyFields, get |-> GetReplyFields]

RequestFields(m) ==
  IF m \in raftBaseMethods THEN raftBaseRequest[m] ELSE kvServerBaseRequest[m]
ResponseFields(m) ==
  IF m \in raftBaseMethods THEN raftBaseResponse[m]
                           ELSE kvServerBaseResponse[m]

RequestMessages(m) ==
  CASE m = "appendEntries" -> appendEntriesArgs
    [] m = "installSnapshot" -> installSnapshotArgs
    [] m = "requestVote" -> requestVoteArgs
    [] m = "put" -> putArgs
    [] m = "get" -> getArgs
ResponseMessages(m) ==
  CASE m = "appendEntries" -> appendEntriesReply
    [] m = "installSnapshot" -> installSnapshotReply
    [] m = "requestVote" -> requestVoteReply
    [] m = "put" -> putReply
    [] m = "get" -> getReply

SerializeRequest(m, args) ==
  IF m = "appendEntries" THEN SerializeAppendEntries(args)
                         ELSE SerializeFlat(RequestFields(m), args)
ParseRequest(m, wire) ==
  IF m = "appendEntries" THEN ParseAppendEntries(wire)
                         ELSE ParseFlat(RequestFields(m), wire)
SerializeResponse(m, reply) == SerializeFlat(ResponseFields(m), reply)
ParseResponse(m, wire) == ParseFlat(ResponseFields(m), wire)
=============================================================================
