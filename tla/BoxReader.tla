------------------------------ MODULE BoxReader ------------------------------
(***************************************************************************)
(* Box headers and the two ways the demuxer walks the boxes of a container *)
(* (src/boxes.rs and the loops of src/demux.rs).  A box is                 *)
(* [type, body]; its type is a number of four octets.                      *)
(***************************************************************************)
EXTENDS Octets

(* The four-character codes the code compares with, a number for each.     *)
Codes == <<"ftyp", "styp", "moov", "mvhd", "trak", "mvex", "trex", "mehd",
  "leva", "trep", "assp", "moof", "mdat", "sidx", "ssix", "mfra", "tfra",
  "mfro", "emsg", "prft", "pdin", "pnot", "udta", "meta", "ilst", "data",
  "mean", "name", "----", "tkhd", "tref", "trgr", "edts", "elst", "mdia",
  "mdhd", "hdlr", "elng", "minf", "vmhd", "hmhd", "gmhd", "gmin", "tmcd",
  "tcmi", "text", "dinf", "dref", "url ", "urn ", "stbl", "stsd", "stts",
  "stsc", "stsz", "stz2", "stco", "co64", "ctts", "cslg", "stss", "stsh",
  "sdtp", "stdp", "padb", "subs", "sgpd", "sbgp", "csgp", "saiz", "saio",
  "sinf", "frma", "schm", "schi", "tenc", "pssh", "senc", "seig", "uuid",
  "iloc", "pitm", "iinf", "infe", "iref", "iprp", "ipco", "ipma", "idat",
  "grpl", "mere", "meco", "ispe", "pixi", "pasp", "clap", "colr", "rloc",
  "auxC", "irot", "imir", "lsel", "iscl", "rref", "crtt", "mdft", "altt",
  "udes", "amve", "btrt", "stvi", "nclx", "rICC", "prof", "kind", "cprt",
  "tsel", "strk", "stri", "strd", "stsg", "mime", "uri ", "soun", "vide",
  "subt", "sbtl", "cenc", "cens", "cbc1", "cbcs", "piff", "fiin", "paen",
  "fpar", "fecr", "segr", "gitn", "fire", "feci", "hinf", "rtp ", "srtp",
  "tims", "tsro", "snro", "srpp", "roll", "rap ", "prol", "rash", "tele",
  "sap ", "alst", "load", "free", "trpy", "nump",
  "tpyl", "totl", "npck", "tpay", "maxr", "dmed", "dimm", "drep", "tmin",
  "tmax", "pmax", "dmax", "payt", "sm2t", "rm2t", "rrtp", "rtcp",
  "smhd", "nmhd", "sthd", "mp4a", "mp4v", "esds", "wave", "enda", "srat",
  "chnl", "pcmC", "fLaC", "dfLa", "Opus", "dOps", "ac-3", "dac3", "ec-3",
  "dec3", "ulaw", "alaw", "avc1", "avcC", "hvc1", "hvcC", "av01", "av1C",
  "vp08", "vp09", "vpcC", "s263", "d263", "jpeg", "ipcm", "fpcm", "sowt",
  "twos", "raw ", "in24", "in32", "fl32", "fl64", "lpcm", "tx3g", "wvtt",
  "stpp", "sbtt", "stxt", "c608", "encv", "enca", "enct", "encs", "alac",
  "titl", "auth", "dscp", "gnre", "albm", "yrrc", "@nam", "@ART", "@alb",
  "@cmt", "@gen", "@day", "@wrt", "@too", "@cpy", "@lyr", "aART", "trkn",
  "disk", "desc", "mfhd", "traf", "tfhd", "tfdt", "trun">>
FourCC ==
    [code \in {Codes[i] : i \in DOMAIN Codes} |->
        16777216 + (CHOOSE i \in DOMAIN Codes : Codes[i] = code)]

WrapBox(code, body) == Num(4, 8 + Len(body)) \o Num(4, FourCC[code]) \o body
WrapTyped(type, body) == Num(4, 8 + Len(body)) \o Num(4, type) \o body

(* The header at a position inside the octets; the payload of a box that   *)
(* is open to the end of the file has no size.                             *)
HeaderParts(size, large, left) ==
    IF left < 8 THEN {}
    ELSE IF size = 0 THEN {[payload |-> {}, taken |-> 8]}
    ELSE IF size = 1
    THEN When(left >= 16 /\ large >= 16, [payload |-> {large - 16}, taken |-> 16])
    ELSE When(size >= 8, [payload |-> {size - 8}, taken |-> 8])
Header(octets, at) ==
    {[type |-> U(octets, at + 4, 4), payload |-> h.payload, next |-> at + h.taken] :
       h \in HeaderParts(U(octets, at, 4), U(octets, at + 8, 8), Len(octets) - at)}
PayloadSize(header) == IF header.payload = {} THEN 0 ELSE CHOOSE n \in header.payload : TRUE
After(header) == header.next + PayloadSize(header)
BoxAt(octets, header) == [type |-> header.type, body |-> Slice(octets, header.next, PayloadSize(header))]

(* The strict walk: a bad header, or a box of one of the read types that   *)
(* overruns the container, fails the whole; a box of another type is       *)
(* skipped, to the end of the container at most.  The walk ends where less *)
(* than the room of a header is left, or at a box of a last type.          *)
StrictWalk(octets, Read, room, Last) ==
    LET end == Len(octets)
        walk[at \in 0..end] ==
          IF at + room > end THEN {<<>>}
          ELSE UNION {IF h.type \in Last THEN {<<>>}
                      ELSE IF h.type \in Read
                      THEN IF After(h) > end THEN {}
                           ELSE {<<BoxAt(octets, h)>> \o rest : rest \in walk[After(h)]}
                      ELSE walk[IF After(h) > end THEN end ELSE After(h)]
                    : h \in Header(octets, at)}
    IN  walk[0]
StrictBoxes(octets, Read) == StrictWalk(octets, Read, 1, {})
AnyType == 0..Wide
(* The lenient walks: they end without an error at the first box that has  *)
(* a bad header or overruns.  A box that is open to the end of the file is *)
(* taken as empty, or ends the walk as well.                               *)
OrNothing(lists) == IF lists = {} THEN <<>> ELSE CHOOSE list \in lists : TRUE
BoxesUntil(octets, Ends(_)) ==
    LET walk[at \in 0..Len(octets)] ==
          OrNothing({<<BoxAt(octets, h)>> \o walk[After(h)] :
                       h \in {h \in Header(octets, at) : After(h) <= Len(octets) /\ ~Ends(h)}})
    IN  walk[0]
OpenEnded(header) == header.payload = {}
LenientBoxes(octets) == LET never(h) == FALSE IN BoxesUntil(octets, never)
SizedBoxes(octets) == BoxesUntil(octets, OpenEnded)

(* The records of the boxes of one type, those that cannot be read left    *)
(* out; and what the last box of a type says, an option.                   *)
RecordsOf(boxes, code, Parse(_)) ==
    Concat([i \in DOMAIN boxes |->
              IF boxes[i].type # FourCC[code] \/ Parse(boxes[i].body) = {} THEN <<>>
              ELSE <<CHOOSE r \in Parse(boxes[i].body) : TRUE>>])
LastOf(boxes, code) ==
    LET those == {i \in DOMAIN boxes : boxes[i].type = FourCC[code]}
    IN  {boxes[i].body : i \in {i \in those : \A j \in those : j <= i}}

(* A list of which each member may be refused: one refusal refuses all.    *)
BuildAll(Build(_), records) ==
    LET built[i \in 0..Len(records)] ==
          IF i = 0 THEN {<<>>}
          ELSE {done \o one : <<done, one>> \in built[i - 1] \X Build(records[i])}
    IN  built[Len(records)]
=============================================================================
