SPECIFICATION Spec
CONSTANTS
  ContentLength = ContentLength
  TransferEncoding = TransferEncoding
  ContentType = ContentType
  content_length = content_length
  transfer_encoding = transfer_encoding
  Chunked = chunked
  PlainText = plain
  Values = {chunked, plain}
  Names <- MCNames
  Lower <- MCLower
INVARIANTS HeadersAsMeant OneAnswer ChunkedPreamble
