SPECIFICATION Spec
CONSTANTS
  w1 = w1
  w2 = w2
  Workers <- MCWorkers
  RecvBase = 11
  CopyBases <- MCCopyBases
  MsgLen = 8
  Messages <- MCMessages
  MaxHeaders = 2
  Certificates <- MCCertificates
  MaxMessages = 3
  MaxSessions = 2
INVARIANTS CopyReadsTheSame LockedCertificate
CHECK_DEADLOCK FALSE
