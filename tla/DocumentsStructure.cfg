\* verify.rs: is the Reference that covers a document one of its signature?
CONSTANTS
    MaxI32 = 50
    MaxLines = 2
    MaxGenerated = 0
    Payload = {}
    Name <- MCName
    Path <- MCPath
    MaxTokens = 8
    MaxPlain = 0
SPECIFICATION DocumentsSpec
INVARIANT
    SignatureCovers
CHECK_DEADLOCK FALSE
