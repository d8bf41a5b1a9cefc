----------------------------- MODULE MCFormats -----------------------------
(***************************************************************************)
(* What comes over the wire and what is made of it: requests, json, uris,  *)
(* forms and cookies, the request and response objects that keep them and  *)
(* the packets that carry them: two of up to three fragments, an empty one *)
(* among these.                                                            *)
(* A behaviour is one of a single component: `part` says which.            *)
(***************************************************************************)
EXTENDS MCRequestReader, MCJson, MCUrlText, MCHttpMessages, Packet

VARIABLE part

NoReader ==
    /\ wire = [bytes |-> <<>>, requests |-> <<>>, bad |-> FALSE] /\ pos = 0 /\ start = 0
    /\ parser = http_parser_init /\ receiver = NewReceiver
    /\ rest = <<>> /\ requests = <<>> /\ closed = FALSE /\ lost = FALSE
NoDocument ==
    /\ length = 0 /\ used = 0 /\ label = "error" /\ words = <<>> /\ stack_top = 0
    /\ write_cursor = 0 /\ current_base = 0 /\ current_structure_type = TYPE_NULL
    /\ data = <<>> /\ open = <<>> /\ meant = <<>>
NoText ==
    /\ text = <<>> /\ given = [bytes |-> <<>>, means |-> <<>>]
    /\ p = 1 /\ end = 1 /\ at = "decoded" /\ number = NewNumber
NoModel == sample = <<>> /\ tokens = <<>> /\ target = <<>> /\ result = FALSE /\ stage = "model"
NoUrl == urlSample = <<>> /\ urlText = <<>> /\ urlRead = <<>>

Init ==
    /\ part \in {"reader", "document", "text", "model", "url", "messages", "packet"}
    /\ IF part = "reader" THEN ReaderInit ELSE NoReader
    /\ IF part = "document" THEN JsonDocumentInit ELSE NoDocument
    /\ IF part = "text" THEN JsonTextInit ELSE NoText
    /\ IF part = "model" THEN JsonModelInit ELSE NoModel
    /\ IF part = "url" THEN UrlInit ELSE NoUrl
    /\ MessagesInit /\ PacketInit

jsonVars == <<vars, textVars, modelVars>>
objectVars == <<messageVars, packetVars>>

Next ==
    /\ UNCHANGED part
    /\ \/ part = "reader" /\ ReaderNext /\ UNCHANGED <<jsonVars, urlVars, objectVars>>
       \/ part = "document" /\ JsonDocumentNext
          /\ UNCHANGED <<readerVars, textVars, modelVars, urlVars, objectVars>>
       \/ part = "text" /\ JsonTextNext
          /\ UNCHANGED <<readerVars, vars, modelVars, urlVars, objectVars>>
       \/ part = "model" /\ JsonModelNext
          /\ UNCHANGED <<readerVars, vars, textVars, urlVars, objectVars>>
       \/ part = "url" /\ UrlNext /\ UNCHANGED <<readerVars, jsonVars, objectVars>>
       \/ part = "messages" /\ MessagesNext
          /\ UNCHANGED <<readerVars, jsonVars, urlVars, packetVars>>
       \/ part = "packet" /\ PacketNext
          /\ UNCHANGED <<readerVars, jsonVars, urlVars, messageVars>>

Spec == Init /\ [][Next]_<<part, readerVars, jsonVars, urlVars, objectVars>>
=============================================================================
