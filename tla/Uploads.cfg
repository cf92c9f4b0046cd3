\* One user's quota, one chunked upload, two keys, the sweepers and one fault:
\* two requests at a time, or one of them and two attachments that burn.
SPECIFICATION FairSpec
CONSTANTS
  u1 = u1
  u2 = u2
  s1 = s1
  k1 = k1
  k2 = k2
  a = a
  b = b
  h1 = h1
  h2 = h2
  Users = {u1, u2}
  Keys = {k1, k2}
  Uploads = {s1}
  Chunks = {1, 2}
  Payloads = {a, b}
  Sent = {a}
  Files <- OneFile
  Weight <- Bytes12
  Declared = {1}
  Quota <- Quota3
  MaxUploadBytes = 3
  Handlers = {h1, h2}
  Scopes <- Either
  MaxFaults = 1
  None = None
INVARIANTS TypeOK QuotaInv ObjectInv
PROPERTIES DeadlineStands BurnsHappen
