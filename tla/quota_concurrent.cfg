SPECIFICATION QuotaSpec
CONSTANTS
  u1 = u1  u2 = u2  u3 = u3  u4 = u4
  Uploads = {u1, u2, u3, u4}
  Workers = 2
  MaxFiles = 2
  MaxBytes = 2
  MaxUpload = 2
  Disk = 6
  Reserve = 2
INVARIANTS ReserveKept OvershootBounded BytesBounded
SYMMETRY UploadSymmetry
