SPECIFICATION Spec
CONSTANTS
  gpu0 = gpu0
  gpu1 = gpu1
  Worker <- MCWorker
  MaxText = 2
  MaxDeaths = 1
SYMMETRY Symmetric
INVARIANTS TypeOK RenderedWasAccepted AudioCertifiedUnlessStale CertificateHashesUnlessTorn BooksAgree
