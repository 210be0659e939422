----------------------------- MODULE PdfStream ------------------------------
(***************************************************************************)
(* PdfStream and StreamAcc (lib/src/pdfium/fpdfapi/parser/pdf_stream.dart):*)
(* a stream is a dictionary and its raw data, and keeps the decoded data   *)
(* from the first time they are read.  Of the entries of a dictionary       *)
(* /Filter with its parameters is modelled; callers give every stream a    *)
(* dictionary of its own.  _isDataDecoded, which nothing reads, and        *)
(* /Length are left out.  The proofs have this module beside               *)
(* ScanlineDecoder, hence names of its own.                                *)
(***************************************************************************)
EXTENDS Naturals, SequencesExt

CONSTANTS
    Stream, NoStream,    \* streams, in the order they may be made
    DictId,              \* PdfDictionary objects
    Filter, FilterLists, \* filters with their parameters, lists of them
    Data, EmptyData,
    Undecoded,           \* _decodedData is null
    ApplyFilter(_, _),   \* _applyFilter: data and filter
    DictsFinal,          \* TRUE if no dictionary changes once data are decoded
    SetsUnfiltered       \* TRUE if decoded data are set without /Filter only

ASSUME FiltersAssumption ==
    FilterLists \subseteq Seq(Filter) /\ <<>> \in FilterLists /\ "none" \notin FilterLists
ASSUME DataAssumption ==
    /\ EmptyData \in Data /\ Undecoded \notin Data /\ NoStream \notin Stream
    /\ \A d \in Data, f \in Filter : ApplyFilter(d, f) \in Data
ASSUME CallersAssumption == {DictsFinal, SetsUnfiltered} \subseteq BOOLEAN

VARIABLES
    filters, \* of each dictionary, "none" while it is not made
    stream,  \* [dict, raw, decoded] or NotMade
    written, \* how data came into a stream last: [decoded, data], a history
    copy,    \* of which stream it is a clone and unchanged since, a history
    acc      \* a StreamAcc: [of, data]

streamVars == <<filters, stream, written, copy, acc>>

NotMade == [made |-> FALSE]
A(dict, raw, decoded) == [made |-> TRUE, dict |-> dict, raw |-> raw, decoded |-> decoded]
Made(s) == stream[s] # NotMade
FiltersOf(s) == filters[stream[s].dict]
NewDict(d, list) == filters[d] = "none" /\ filters' = [filters EXCEPT ![d] = list]
Writes(s, isDecoded, data) ==
    /\ written' = [written EXCEPT ![s] = [decoded |-> isDecoded, data |-> data]]
    /\ copy' = [t \in Stream |-> IF s \in {t, copy[t]} THEN NoStream ELSE copy[t]]
Makes(s, dict, raw, decoded) == ~Made(s) /\ stream' = [stream EXCEPT ![s] = A(dict, raw, decoded)]

StreamInit ==
    /\ filters = [d \in DictId |-> "none"]
    /\ stream = [s \in Stream |-> NotMade]
    /\ written = [s \in Stream |-> [decoded |-> TRUE, data |-> EmptyData]]
    /\ copy = [s \in Stream |-> NoStream]
    /\ acc = [of |-> NoStream, data |-> Undecoded]

-----------------------------------------------------------------------------
(* _decodeData *)
Decode(data, list) == FoldLeft(ApplyFilter, data, list)

(* The getter data: what is decoded is kept.                               *)
DataOf(s) ==
    IF stream[s].decoded # Undecoded THEN stream[s].decoded
    ELSE Decode(stream[s].raw, FiltersOf(s))
Reads(s) == stream' = [stream EXCEPT ![s].decoded = DataOf(s)]

-----------------------------------------------------------------------------
(* The constructors.                                                       *)

NewStream(s, d, list, raw) ==
    /\ NewDict(d, list) /\ Makes(s, d, raw, Undecoded)
    /\ Writes(s, FALSE, raw) /\ UNCHANGED acc

NewEmpty(s, d) ==
    /\ NewDict(d, <<>>) /\ Makes(s, d, EmptyData, Undecoded)
    /\ Writes(s, FALSE, EmptyData) /\ UNCHANGED acc

WithData(s, d, list, data) ==
    /\ SetsUnfiltered => list = <<>>
    /\ NewDict(d, list) /\ Makes(s, d, data, data)
    /\ Writes(s, TRUE, data) /\ UNCHANGED acc

Clone(s, t, d) ==
    /\ Made(s) /\ NewDict(d, FiltersOf(s)) /\ Makes(t, d, stream[s].raw, Undecoded)
    /\ written' = [written EXCEPT ![t] = written[s]]
    /\ copy' = [copy EXCEPT ![t] = s] /\ UNCHANGED acc

-----------------------------------------------------------------------------
(* Reading and writing.                                                    *)

ReadData(s) == Made(s) /\ Reads(s) /\ UNCHANGED <<filters, written, copy, acc>>

(* Mutant: the decoded data stay.                                          *)
SetRawDataOnly(s, data) ==
    /\ Made(s) /\ stream' = [stream EXCEPT ![s].raw = data]
    /\ Writes(s, FALSE, data) /\ UNCHANGED <<filters, acc>>

SetRawData(s, data) ==
    /\ Made(s) /\ stream' = [stream EXCEPT ![s].raw = data, ![s].decoded = Undecoded]
    /\ Writes(s, FALSE, data) /\ UNCHANGED <<filters, acc>>

(* Mutant: the raw data stay.                                              *)
SetDecodedOnly(s, data) ==
    /\ Made(s) /\ (SetsUnfiltered => FiltersOf(s) = <<>>)
    /\ stream' = [stream EXCEPT ![s].decoded = data]
    /\ Writes(s, TRUE, data) /\ UNCHANGED <<filters, acc>>

SetData(s, data) ==
    /\ Made(s) /\ (SetsUnfiltered => FiltersOf(s) = <<>>)
    /\ stream' = [stream EXCEPT ![s].raw = data, ![s].decoded = data]
    /\ Writes(s, TRUE, data) /\ UNCHANGED <<filters, acc>>

(* The dictionary gets another /Filter, or the stream another dictionary.  *)
Redeclares(s) ==
    /\ Made(s) /\ (DictsFinal => stream[s].decoded = Undecoded)
    /\ IF stream[s].decoded = Undecoded THEN Writes(s, FALSE, stream[s].raw)
       ELSE UNCHANGED <<written, copy>>

SetFilter(s, list) ==
    /\ Redeclares(s)
    /\ filters' = [filters EXCEPT ![stream[s].dict] = list]
    /\ UNCHANGED <<stream, acc>>

SetDict(s, d, list) ==
    /\ Redeclares(s) /\ NewDict(d, list)
    /\ stream' = [stream EXCEPT ![s].dict = d]
    /\ UNCHANGED acc

-----------------------------------------------------------------------------
(* StreamAcc *)

NewAcc(s) ==
    /\ Made(s) /\ acc' = [of |-> s, data |-> Undecoded]
    /\ UNCHANGED <<filters, stream, written, copy>>

LoadAllData ==
    /\ acc.of # NoStream /\ Reads(acc.of) /\ acc' = [acc EXCEPT !.data = DataOf(acc.of)]
    /\ UNCHANGED <<filters, written, copy>>

ReadAcc ==
    /\ acc.of # NoStream
    /\ IF acc.data # Undecoded THEN UNCHANGED stream ELSE Reads(acc.of)
    /\ UNCHANGED <<filters, written, copy, acc>>

StreamNext ==
    \/ \E s \in Stream :
          \/ \E d \in DictId :
                \/ NewEmpty(s, d)
                \/ \E t \in Stream : Clone(s, t, d)
                \/ \E list \in FilterLists :
                      \/ SetDict(s, d, list)
                      \/ \E data \in Data : NewStream(s, d, list, data) \/ WithData(s, d, list, data)
          \/ \E list \in FilterLists : SetFilter(s, list)
          \/ ReadData(s) \/ NewAcc(s)
          \/ \E data \in Data : SetRawData(s, data) \/ SetData(s, data)
    \/ LoadAllData \/ ReadAcc

StreamSpec == StreamInit /\ [][StreamNext]_streamVars

-----------------------------------------------------------------------------
(* Properties.                                                             *)

(* Cloning gives no two streams the same dictionary.                       *)
StreamTypeOK ==
    /\ filters \in [DictId -> FilterLists \cup {"none"}]
    /\ \A s \in Stream :
          /\ Made(s) =>
                /\ stream[s].dict \in DictId /\ filters[stream[s].dict] # "none"
                /\ stream[s].raw \in Data /\ stream[s].decoded \in Data \cup {Undecoded}
                /\ \A t \in Stream \ {s} : Made(t) => stream[t].dict # stream[s].dict
          /\ written[s] \in [decoded : BOOLEAN, data : Data]
          /\ copy[s] \in Stream \cup {NoStream}
    /\ acc \in [of : Stream \cup {NoStream}, data : Data \cup {Undecoded}]

(* Whatever was read, cloned and kept before, a stream answers what was    *)
(* written into it last: decoded data as they are, raw data decoded by the *)
(* filters its dictionary has now.                                         *)
ReadsLastWritten ==
    \A s \in Stream :
        Made(s) =>
            DataOf(s) = IF written[s].decoded THEN written[s].data
                        ELSE Decode(written[s].data, FiltersOf(s))

(* A clone that neither side wrote to since answers what the stream does.  *)
CopiesAgree ==
    \A s, t \in Stream : Made(s) /\ copy[t] = s => DataOf(t) = DataOf(s)

(* An accessor answers what its stream does.  Refuted: it keeps the data   *)
(* it loaded when the stream is written to.                                *)
AccIsStream == acc.data # Undecoded => acc.data = DataOf(acc.of)
=============================================================================
