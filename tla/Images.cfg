SPECIFICATION ImagesSpec
CONSTANTS
  Images = {i1, i2, i3, i4}
  Products = {i4}
  Edited = {i3, i4}
  Readers = {r1, r2}
  Drivers = {"supabase", "minio"}
  MaxRunning = 2
  UrlLife = 4
  CacheLife = 2
  ResponseLife = 1
  ReplyTime = 1
INVARIANTS SlotsCounted LinksWork
PROPERTY WaitersAreServed
