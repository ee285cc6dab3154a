--------------------------- MODULE MCSyncResponse ---------------------------
EXTENDS SyncResponse, TLC

CONSTANTS content_length, transfer_encoding   \* the same names in lower case

MCNames == {ContentLength, TransferEncoding, ContentType, content_length, transfer_encoding}

MCLower ==
    ContentLength :> content_length @@ content_length :> content_length @@
    TransferEncoding :> transfer_encoding @@ transfer_encoding :> transfer_encoding @@
    ContentType :> ContentType
=============================================================================
