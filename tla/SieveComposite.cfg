\* Two kthreads of the spin lock module report a composite as a prime.
SPECIFICATION FairSpec
CONSTANTS
  Programs = {"spinlock"}
  Parameters <- TwoKthreads
INVARIANT
  ReportsOnlyPrimes
