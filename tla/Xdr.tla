-------------------------------- MODULE Xdr --------------------------------
(***************************************************************************)
(* The data of the Sun RPC protocols Tnm speaks (tnm/compat/*_xdr.c and    *)
(* *_clnt.c).  An xdr routine of the code encodes and decodes by the same  *)
(* sequence of calls, so it is modelled by that sequence: a type.  Encode  *)
(* and Decode run through it as the XDR library does.                      *)
(*                                                                         *)
(* A message is a sequence of units: a 32 bit word, or the padded bytes of *)
(* a string.  Words are taken modulo Modulus, and a string is its length.  *)
(***************************************************************************)
EXTENDS Integers, Sequences, SequencesExt, FiniteSets

CONSTANT Modulus        \* stands for 2^32

ASSUME XdrAssumption == Modulus \in Nat /\ Modulus % 2 = 0 /\ Modulus > 2

Void == [k |-> "void"]
Int32 == [k |-> "int"]
Unsigned32 == [k |-> "unsigned"]
Enum == [k |-> "int"]
Bool == [k |-> "bool"]
String(max) == [k |-> "string", max |-> max]
Opaque(n) == [k |-> "opaque", max |-> n]
Vector(n, t) == [k |-> "vector", max |-> n, of |-> t]
Array(max, t) == [k |-> "array", max |-> max, of |-> t]
Pointer(name) == [k |-> "pointer", to |-> name]
Union(arm, t) == [k |-> "union", arm |-> arm, of |-> t]
Struct(fields) == [k |-> "struct", of |-> fields]
Stub(name, args, results) == [name |-> name, args |-> args, results |-> results]

---------------------------------------------------------------------------
(* The mount protocol.                                                   *)

MNTPATHLEN == 1024
MNTNAMLEN == 255
FHSIZE == 32

xdr_fhandle == Opaque(FHSIZE)
xdr_fhstatus == Union(0, xdr_fhandle)
xdr_dirpath == String(MNTPATHLEN)
xdr_name == String(MNTNAMLEN)
xdr_mountlist == Pointer("xdr_mountbody")
xdr_mountbody == Struct(<<xdr_name, xdr_dirpath, xdr_mountlist>>)
xdr_groups == Pointer("xdr_groupnode")
xdr_groupnode == Struct(<<xdr_name, xdr_groups>>)
xdr_exports == Pointer("xdr_exportnode")
xdr_exportnode == Struct(<<xdr_dirpath, xdr_groups, xdr_exports>>)
---------------------------------------------------------------------------
(* The rstat protocol, versions 1 to 3.                                  *)

CPUSTATES == 4
DK_NDRIVE == 4

xdr_rstat_timeval == Struct(<<Unsigned32, Unsigned32>>)
xdr_statstime ==
    Struct(<<Vector(CPUSTATES, Int32), Vector(DK_NDRIVE, Int32), Unsigned32,
      Unsigned32, Unsigned32, Unsigned32, Unsigned32, Int32, Int32, Int32,
      Int32, Unsigned32, Vector(3, Int32), xdr_rstat_timeval,
      xdr_rstat_timeval, Int32>>)
xdr_statsswtch ==
    Struct(<<Vector(CPUSTATES, Int32), Vector(DK_NDRIVE, Int32), Unsigned32,
      Unsigned32, Unsigned32, Unsigned32, Unsigned32, Int32, Int32, Int32,
      Int32, Unsigned32, Vector(3, Unsigned32), xdr_rstat_timeval, Int32>>)
xdr_stats ==
    Struct(<<Vector(CPUSTATES, Int32), Vector(DK_NDRIVE, Int32), Unsigned32,
      Unsigned32, Unsigned32, Unsigned32, Unsigned32, Int32, Int32, Int32,
      Int32, Int32>>)
---------------------------------------------------------------------------
(* The etherstat protocol.                                               *)

NBUCKETS == 16
NPROTOS == 6
HASHSIZE == 16            \* scaled: 256 in ether.h

xdr_ethertimeval == Struct(<<Unsigned32, Unsigned32>>)
xdr_etherstat ==
    Struct(<<xdr_ethertimeval, Unsigned32, Unsigned32, Unsigned32,
      Vector(NBUCKETS, Unsigned32), Vector(NPROTOS, Unsigned32)>>)
xdr_etherhmem_node == Struct(<<Int32, Unsigned32, Pointer("xdr_etherhmem_node")>>)
xdr_etherhmem == Pointer("xdr_etherhmem_node")
xdr_etheraddrs ==
    Struct(<<xdr_ethertimeval, Unsigned32, Unsigned32, Unsigned32,
      Vector(HASHSIZE, xdr_etherhmem)>>)
xdr_addrmask == Struct(<<Int32, Int32>>)
---------------------------------------------------------------------------
(* The pcnfsd protocol, versions 1 and 2.                                *)

IDENTLEN == 32
PASSWORDLEN == 64
CLIENTLEN == 64
PRINTERNAMELEN == 64
USERNAMELEN == 64
SPOOLNAMELEN == 64
OPTIONSLEN == 64
EXTRAGIDLEN == 16
COMMENTLEN == 255
PRINTJOBIDLEN == 255
FACILITIESMAX == 32
MESSAGELEN == 512

xdr_ident == String(IDENTLEN)
xdr_message == String(MESSAGELEN)
xdr_password == String(PASSWORDLEN)
xdr_client == String(CLIENTLEN)
xdr_printername == String(PRINTERNAMELEN)
xdr_username == String(USERNAMELEN)
xdr_comment == String(COMMENTLEN)
xdr_spoolname == String(SPOOLNAMELEN)
xdr_printjobid == String(PRINTJOBIDLEN)
xdr_homedir == String(OPTIONSLEN)
xdr_options == String(OPTIONSLEN)
xdr_arstat == Enum
xdr_alrstat == Enum
xdr_pirstat == Enum
xdr_pcrstat == Enum
xdr_psrstat == Enum
xdr_mapreq == Enum
xdr_maprstat == Enum
xdr_auth_args == Struct(<<xdr_ident, xdr_password>>)
xdr_auth_results == Struct(<<xdr_arstat, Unsigned32, Unsigned32>>)
xdr_pr_init_args == Struct(<<xdr_client, xdr_printername>>)
xdr_pr_init_results == Struct(<<xdr_pirstat, xdr_spoolname>>)
xdr_pr_start_args ==
    Struct(<<xdr_client, xdr_printername, xdr_username, xdr_spoolname,
      xdr_options>>)
xdr_pr_start_results == Struct(<<xdr_psrstat>>)
xdr_v2_info_args == Struct(<<xdr_comment, xdr_comment>>)
xdr_v2_info_results ==
    Struct(<<xdr_comment, xdr_comment, Array(FACILITIESMAX, Int32)>>)
xdr_v2_pr_init_args == Struct(<<xdr_client, xdr_printername, xdr_comment>>)
xdr_v2_pr_init_results == Struct(<<xdr_pirstat, xdr_spoolname, xdr_comment>>)
xdr_v2_pr_start_args ==
    Struct(<<xdr_client, xdr_printername, xdr_username, xdr_spoolname,
      xdr_options, Int32, xdr_comment>>)
xdr_v2_pr_start_results == Struct(<<xdr_psrstat, xdr_printjobid, xdr_comment>>)
xdr_pr_list == Pointer("xdr_pr_list_item")
xdr_pr_list_item ==
    Struct(<<xdr_printername, xdr_printername, xdr_client, xdr_comment,
      xdr_pr_list>>)
xdr_v2_pr_list_results == Struct(<<xdr_comment, xdr_pr_list>>)
xdr_v2_pr_queue_args ==
    Struct(<<xdr_printername, xdr_client, xdr_username, Bool, xdr_comment>>)
xdr_pr_queue == Pointer("xdr_pr_queue_item")
xdr_pr_queue_item ==
    Struct(<<Int32, xdr_printjobid, xdr_comment, xdr_comment, xdr_client,
      xdr_username, xdr_spoolname, xdr_comment, xdr_pr_queue>>)
xdr_v2_pr_queue_results ==
    Struct(<<xdr_pirstat, xdr_comment, Bool, Int32, Int32, xdr_pr_queue>>)
xdr_v2_pr_cancel_args ==
    Struct(<<xdr_printername, xdr_client, xdr_username, xdr_printjobid,
      xdr_comment>>)
xdr_v2_pr_cancel_results == Struct(<<xdr_pcrstat, xdr_comment>>)
xdr_v2_pr_status_args == Struct(<<xdr_printername, xdr_comment>>)
xdr_v2_pr_status_results ==
    Struct(<<xdr_pirstat, Bool, Bool, Int32, Bool, xdr_comment, xdr_comment>>)
xdr_v2_pr_admin_args ==
    Struct(<<xdr_client, xdr_username, xdr_printername, xdr_comment>>)
xdr_v2_pr_admin_results == Struct(<<xdr_pirstat, xdr_comment>>)
xdr_v2_pr_requeue_args ==
    Struct(<<xdr_printername, xdr_client, xdr_username, xdr_printjobid, Int32,
      xdr_comment>>)
xdr_v2_pr_requeue_results == Struct(<<xdr_pcrstat, xdr_comment>>)
xdr_v2_pr_hold_args ==
    Struct(<<xdr_printername, xdr_client, xdr_username, xdr_printjobid,
      xdr_comment>>)
xdr_v2_pr_hold_results == Struct(<<xdr_pcrstat, xdr_comment>>)
xdr_v2_pr_release_args ==
    Struct(<<xdr_printername, xdr_client, xdr_username, xdr_printjobid,
      xdr_comment>>)
xdr_v2_pr_release_results == Struct(<<xdr_pcrstat, xdr_comment>>)
xdr_mapreq_arg == Pointer("xdr_mapreq_arg_item")
xdr_mapreq_arg_item == Struct(<<xdr_mapreq, Int32, xdr_username, xdr_mapreq_arg>>)
xdr_mapreq_res == Pointer("xdr_mapreq_res_item")
xdr_mapreq_res_item ==
    Struct(<<xdr_mapreq, xdr_maprstat, Int32, xdr_username, xdr_mapreq_res>>)
xdr_v2_mapid_args == Struct(<<xdr_comment, xdr_mapreq_arg>>)
xdr_v2_mapid_results == Struct(<<xdr_comment, xdr_mapreq_res>>)
xdr_v2_auth_args == Struct(<<xdr_client, xdr_ident, xdr_password, xdr_comment>>)
xdr_v2_auth_results ==
    Struct(<<xdr_arstat, Unsigned32, Unsigned32, Array(EXTRAGIDLEN, Unsigned32),
      xdr_homedir, Int32, xdr_comment>>)
xdr_v2_alert_args ==
    Struct(<<xdr_client, xdr_printername, xdr_username, xdr_message>>)
xdr_v2_alert_results == Struct(<<xdr_alrstat, xdr_comment>>)
---------------------------------------------------------------------------
(* The client stubs: the types of the arguments and of the results.        *)

mountproc_null_1 == Stub("mountproc_null_1", Void, Void)
mountproc_mnt_1 == Stub("mountproc_mnt_1", xdr_dirpath, xdr_fhstatus)
mountproc_dump_1 == Stub("mountproc_dump_1", Void, xdr_mountlist)
mountproc_umnt_1 == Stub("mountproc_umnt_1", xdr_dirpath, Void)
mountproc_umntall_1 == Stub("mountproc_umntall_1", Void, Void)
mountproc_export_1 == Stub("mountproc_export_1", Void, xdr_exports)
mountproc_exportall_1 == Stub("mountproc_exportall_1", Void, xdr_exports)
rstatproc_stats_3 == Stub("rstatproc_stats_3", Void, xdr_statstime)
rstatproc_havedisk_3 == Stub("rstatproc_havedisk_3", Void, Unsigned32)
rstatproc_stats_2 == Stub("rstatproc_stats_2", Void, xdr_statsswtch)
rstatproc_havedisk_2 == Stub("rstatproc_havedisk_2", Void, Unsigned32)
rstatproc_stats_1 == Stub("rstatproc_stats_1", Void, xdr_stats)
rstatproc_havedisk_1 == Stub("rstatproc_havedisk_1", Void, Unsigned32)
etherproc_getdata_1 == Stub("etherproc_getdata_1", Void, xdr_etherstat)
etherproc_on_1 == Stub("etherproc_on_1", Void, Void)
etherproc_off_1 == Stub("etherproc_off_1", Void, Void)
etherproc_getsrcdata_1 == Stub("etherproc_getsrcdata_1", Void, xdr_etheraddrs)
etherproc_getdstdata_1 == Stub("etherproc_getdstdata_1", Void, xdr_etheraddrs)
etherproc_selectsrc_1 == Stub("etherproc_selectsrc_1", xdr_addrmask, Void)
etherproc_selectdst_1 == Stub("etherproc_selectdst_1", xdr_addrmask, Void)
etherproc_selectproto_1 == Stub("etherproc_selectproto_1", xdr_addrmask, Void)
etherproc_selectlnth_1 == Stub("etherproc_selectlnth_1", xdr_addrmask, Void)
pcnfsd_null_1 == Stub("pcnfsd_null_1", Void, Void)
pcnfsd_auth_1 == Stub("pcnfsd_auth_1", xdr_auth_args, xdr_auth_results)
pcnfsd_pr_init_1 ==
    Stub("pcnfsd_pr_init_1", xdr_pr_init_args, xdr_pr_init_results)
pcnfsd_pr_start_1 ==
    Stub("pcnfsd_pr_start_1", xdr_pr_start_args, xdr_pr_start_results)
pcnfsd2_null_2 == Stub("pcnfsd2_null_2", Void, Void)
pcnfsd2_info_2 ==
    Stub("pcnfsd2_info_2", xdr_v2_info_args, xdr_v2_info_results)
pcnfsd2_pr_init_2 ==
    Stub("pcnfsd2_pr_init_2", xdr_v2_pr_init_args, xdr_v2_pr_init_results)
pcnfsd2_pr_start_2 ==
    Stub("pcnfsd2_pr_start_2", xdr_v2_pr_start_args, xdr_v2_pr_start_results)
pcnfsd2_pr_list_2 == Stub("pcnfsd2_pr_list_2", Void, xdr_v2_pr_list_results)
pcnfsd2_pr_queue_2 ==
    Stub("pcnfsd2_pr_queue_2", xdr_v2_pr_queue_args, xdr_v2_pr_queue_results)
pcnfsd2_pr_status_2 ==
    Stub("pcnfsd2_pr_status_2", xdr_v2_pr_status_args, xdr_v2_pr_status_results)
pcnfsd2_pr_cancel_2 ==
    Stub("pcnfsd2_pr_cancel_2", xdr_v2_pr_cancel_args, xdr_v2_pr_cancel_results)
pcnfsd2_pr_admin_2 ==
    Stub("pcnfsd2_pr_admin_2", xdr_v2_pr_admin_args, xdr_v2_pr_admin_results)
pcnfsd2_pr_requeue_2 ==
    Stub("pcnfsd2_pr_requeue_2", xdr_v2_pr_requeue_args, xdr_v2_pr_requeue_results)
pcnfsd2_pr_hold_2 ==
    Stub("pcnfsd2_pr_hold_2", xdr_v2_pr_hold_args, xdr_v2_pr_hold_results)
pcnfsd2_pr_release_2 ==
    Stub("pcnfsd2_pr_release_2", xdr_v2_pr_release_args, xdr_v2_pr_release_results)
pcnfsd2_mapid_2 ==
    Stub("pcnfsd2_mapid_2", xdr_v2_mapid_args, xdr_v2_mapid_results)
pcnfsd2_auth_2 ==
    Stub("pcnfsd2_auth_2", xdr_v2_auth_args, xdr_v2_auth_results)
pcnfsd2_alert_2 ==
    Stub("pcnfsd2_alert_2", xdr_v2_alert_args, xdr_v2_alert_results)

Stubs ==
    <<mountproc_null_1, mountproc_mnt_1, mountproc_dump_1, mountproc_umnt_1,
      mountproc_umntall_1, mountproc_export_1, mountproc_exportall_1,
      rstatproc_stats_3, rstatproc_havedisk_3, rstatproc_stats_2,
      rstatproc_havedisk_2, rstatproc_stats_1, rstatproc_havedisk_1,
      etherproc_getdata_1, etherproc_on_1, etherproc_off_1,
      etherproc_getsrcdata_1, etherproc_getdstdata_1, etherproc_selectsrc_1,
      etherproc_selectdst_1, etherproc_selectproto_1,
      etherproc_selectlnth_1, pcnfsd_null_1, pcnfsd_auth_1,
      pcnfsd_pr_init_1, pcnfsd_pr_start_1, pcnfsd2_null_2, pcnfsd2_info_2,
      pcnfsd2_pr_init_2, pcnfsd2_pr_start_2, pcnfsd2_pr_list_2,
      pcnfsd2_pr_queue_2, pcnfsd2_pr_status_2, pcnfsd2_pr_cancel_2,
      pcnfsd2_pr_admin_2, pcnfsd2_pr_requeue_2, pcnfsd2_pr_hold_2,
      pcnfsd2_pr_release_2, pcnfsd2_mapid_2, pcnfsd2_auth_2, pcnfsd2_alert_2>>

\* What the pointers of the types point to.
Pointed ==
    [xdr_etherhmem_node |-> xdr_etherhmem_node,
     xdr_exportnode |-> xdr_exportnode,
     xdr_groupnode |-> xdr_groupnode,
     xdr_mapreq_arg_item |-> xdr_mapreq_arg_item,
     xdr_mapreq_res_item |-> xdr_mapreq_res_item,
     xdr_mountbody |-> xdr_mountbody,
     xdr_pr_list_item |-> xdr_pr_list_item,
     xdr_pr_queue_item |-> xdr_pr_queue_item]

---------------------------------------------------------------------------
(* The XDR library.  A value is an integer, the length of a string, or a   *)
(* sequence of values; a pointer is a sequence of at most one.             *)

Word(n) == <<[w |-> n % Modulus]>>
Bytes(n) == IF n = 0 THEN <<>> ELSE <<[s |-> n]>>
Fail == <<[w |-> -1]>>

RECURSIVE Encode(_, _), EncodeAll(_, _)

\* The types of the parts of a value that has parts.
Parts(t, v) ==
    CASE t.k = "struct" -> t.of
      [] t.k \in {"vector", "array"} -> [i \in 1 .. Len(v) |-> t.of]

EncodeAll(ts, vs) ==
    IF ts = <<>> THEN <<>>
    ELSE Encode(Head(ts), Head(vs)) \o EncodeAll(Tail(ts), Tail(vs))

\* The units of a value, among them Fail when the value is refused.
Encode(t, v) ==
    CASE t.k = "void" -> <<>>
      [] t.k \in {"int", "unsigned"} -> Word(v)
      [] t.k = "bool" -> Word(IF v # 0 THEN 1 ELSE 0)
      [] t.k = "string" -> IF v > t.max THEN Fail
                           ELSE <<[w |-> v]>> \o Bytes(v)
      [] t.k = "opaque" -> Bytes(t.max)
      [] t.k \in {"struct", "vector"} -> EncodeAll(Parts(t, v), v)
      [] t.k = "array" -> IF Len(v) > t.max THEN Fail
                          ELSE <<[w |-> Len(v)]>> \o EncodeAll(Parts(t, v), v)
      [] t.k = "pointer" -> IF v = <<>> THEN Word(0)
                            ELSE Word(1) \o Encode(Pointed[t.to], v[1])
      [] t.k = "union" -> IF Len(v) = 1 THEN Word(v[1])
                          ELSE Word(v[1]) \o Encode(t.of, v[2])

Encodes(t, v) == Fail[1] \notin ToSet(Encode(t, v))

Refused == [ok |-> FALSE, v |-> 0, rest |-> <<>>]
Decoded(v, rest) == [ok |-> TRUE, v |-> v, rest |-> rest]

IsWord(s) == s # <<>> /\ "w" \in DOMAIN Head(s)
TakeBytes(n, s) ==
    CASE n = 0 -> Decoded(0, s)
      [] n > 0 /\ s # <<>> /\ "s" \in DOMAIN Head(s) /\ Head(s).s = n ->
            Decoded(n, Tail(s))
      [] OTHER -> Refused

RECURSIVE Decode(_, _), DecodeAll(_, _)

DecodeAll(ts, s) ==
    IF ts = <<>> THEN Decoded(<<>>, s)
    ELSE LET h == Decode(Head(ts), s)
             r == DecodeAll(Tail(ts), h.rest)
         IN  IF h.ok /\ r.ok THEN Decoded(<<h.v>> \o r.v, r.rest) ELSE Refused

Decode(t, s) ==
    LET n == Head(s).w
        r == Tail(s)
    IN  CASE t.k = "void" -> Decoded(0, s)
          [] t.k = "opaque" -> TakeBytes(t.max, s)
          [] t.k = "struct" -> DecodeAll(t.of, s)
          [] t.k = "vector" -> DecodeAll([i \in 1 .. t.max |-> t.of], s)
          [] OTHER ->
        CASE ~ IsWord(s) -> Refused
          [] IsWord(s) /\ t.k = "int" ->
                Decoded(IF n < Modulus \div 2 THEN n ELSE n - Modulus, r)
          [] IsWord(s) /\ t.k = "unsigned" -> Decoded(n, r)
          [] IsWord(s) /\ t.k = "bool" -> Decoded(IF n # 0 THEN 1 ELSE 0, r)
          [] IsWord(s) /\ t.k = "string" ->
                IF n > t.max THEN Refused ELSE TakeBytes(n, r)
          [] IsWord(s) /\ t.k = "array" ->
                IF n > t.max THEN Refused
                ELSE DecodeAll([i \in 1 .. n |-> t.of], r)
          [] IsWord(s) /\ t.k = "pointer" ->
                IF n = 0 THEN Decoded(<<>>, r)
                ELSE LET b == Decode(Pointed[t.to], r)
                     IN  IF b.ok THEN Decoded(<<b.v>>, b.rest) ELSE Refused
          [] IsWord(s) /\ t.k = "union" ->
                IF n # t.arm THEN Decoded(<<n>>, r)
                ELSE LET b == Decode(t.of, r)
                     IN  IF b.ok THEN Decoded(<<n, b.v>>, b.rest) ELSE Refused

---------------------------------------------------------------------------
(* The values tried of a type: a plain one, and the ones that differ from  *)
(* it in one place, where they are at an edge.  Lists have at most depth   *)
(* nodes.                                                                  *)

RECURSIVE Plain(_), Corners(_, _)

Plain(t) ==
    CASE t.k \in {"void", "bool", "int"} -> 0
      [] t.k = "unsigned" -> 1
      [] t.k = "string" -> 2
      [] t.k = "opaque" -> t.max
      [] t.k = "struct" -> [i \in 1 .. Len(t.of) |-> Plain(t.of[i])]
      [] t.k = "vector" -> [i \in 1 .. t.max |-> Plain(t.of)]
      [] t.k \in {"array", "pointer"} -> <<>>
      [] t.k = "union" -> <<t.arm, Plain(t.of)>>

Corners(t, depth) ==
    LET Along(is, ty(_)) ==
          {Plain(t)} \cup UNION {{[Plain(t) EXCEPT ![i] = c] :
                                    c \in Corners(ty(i), depth)} : i \in is}
    IN  CASE t.k \in {"void", "opaque"} -> {Plain(t)}
          [] t.k = "int" -> {0, 1, 2, Modulus \div 2 - 1, -(Modulus \div 2)}
          [] t.k = "unsigned" -> {1, Modulus - 1}
          [] t.k = "bool" -> {0, 1}
          [] t.k = "string" -> {0, 2, t.max, t.max + 1}
          [] t.k = "struct" -> Along(1 .. Len(t.of), LAMBDA i : t.of[i])
          [] t.k = "vector" -> Along({1, t.max}, LAMBDA i : t.of)
          [] t.k = "array" -> {[i \in 1 .. n |-> Plain(t.of)] :
                                 n \in {0, t.max, t.max + 1}}
                                \cup {<<c>> : c \in Corners(t.of, depth)}
          [] t.k = "pointer" ->
                IF depth = 0 THEN {<<>>}
                ELSE {<<>>} \cup {<<v>> : v \in Corners(Pointed[t.to], depth - 1)}
          [] t.k = "union" -> {<<t.arm, v>> : v \in Corners(t.of, depth)}
                                \cup {<<t.arm + 1>>}

\* No string, array or list of strings is longer than its limit: the values
\* the protocol allows, said apart from Encode.
RECURSIVE Fits(_, _)
Fits(t, v) ==
    CASE t.k = "string" -> v <= t.max
      [] t.k = "struct" -> \A i \in DOMAIN v : Fits(t.of[i], v[i])
      [] t.k = "vector" -> \A i \in DOMAIN v : Fits(t.of, v[i])
      [] t.k = "array" -> Len(v) <= t.max
      [] t.k = "pointer" -> v = <<>> \/ Fits(Pointed[t.to], v[1])
      [] OTHER -> TRUE
=============================================================================
