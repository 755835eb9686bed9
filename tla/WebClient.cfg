\* WebClient::new against a browser that may open or fail the connection.
\* Once new has returned nothing in this model acts any more, so deadlock
\* is not checked.
SPECIFICATION Spec
PROPERTY NewReturns
CHECK_DEADLOCK FALSE
