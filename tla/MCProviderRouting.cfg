CONSTANTS
  Adapters = {"express", "fastify", "hono"}
  Prices = {1, 2}
  MaxDeploys = 1
  MaxChanges = 1
  MaxRequests = 3
SPECIFICATION Spec
INVARIANTS ServedIsPaid PaidAsPublished PublishedIsPayable
CHECK_DEADLOCK FALSE
